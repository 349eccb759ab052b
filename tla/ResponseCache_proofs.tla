-------------------------- MODULE ResponseCache_proofs --------------------------
(***************************************************************************)
(* ResponseCache keeps its types, does not miss what it holds and is the   *)
(* store of LossyStore, for any number of threads, products and hashes.    *)
(*                                                                         *)
(* The inductive invariant IInv says of the two caches that the metadata   *)
(* under a key is that of a product stored under that key, and that a body *)
(* lies under its own hash; and of a thread what it knows at each point of *)
(* its lookup: in "found" it holds the metadata of a product stored for    *)
(* the question, and every entry that has lasted is the one it points at;  *)
(* what it has tried before has no lasting entry.                          *)
(***************************************************************************)
EXTENDS ResponseCache, TLAPS

CachesSound ==
  /\ \A k \in Keys : itsMetaDataCache[k] # Nothing =>
       \E p \in stored : <<p.etag, p.enc>> = k /\ itsMetaDataCache[k] = MetaDataOf(p)
  /\ \A h \in Hashes : itsBufferCache[h] # Nothing => HashOf[itsBufferCache[h]] = h

(* No entry for the question in this encoding has lasted. *)
NoneLasted(t, enc) == \A h \in Hashes : <<<<question[t].etag, enc>>, h>> \notin lasting[t]

Looking(t) ==
  pc[t] \in {"find", "found"} =>
    /\ question[t] \in Questions
    /\ content_encoding[t] \in {question[t].accepts, Identity}
    /\ content_encoding[t] # question[t].accepts => NoneLasted(t, question[t].accepts)

Found(t) ==
  pc[t] = "found" =>
    /\ \E p \in stored : /\ p.etag = question[t].etag
                         /\ p.enc = content_encoding[t]
                         /\ mdata[t] = MetaDataOf(p)
    /\ \A h \in Hashes :
         <<<<question[t].etag, content_encoding[t]>>, h>> \in lasting[t]
           => h = mdata[t].buffer_hash

Missed(t) ==
  pc[t] = "missed" =>
    NoneLasted(t, question[t].accepts) /\ NoneLasted(t, Identity)

Unanswered(t) == pc[t] # "hit" => result[t] = Nothing

Inserting(t) == pc[t] \in {"insert", "inserted"} => product[t] \in Products

ThreadSound(t) ==
  Looking(t) /\ Found(t) /\ Missed(t) /\ Unanswered(t) /\ Inserting(t)

IInv == TypeOK /\ CachesSound /\ \A t \in Threads : ThreadSound(t)

-----------------------------------------------------------------------------
(* The initial state.                                                      *)

LEMMA InitSound == ASSUME Init PROVE IInv
<1>1. TypeOK
  BY NothingAssumption DEF Init, TypeOK
<1>2. CachesSound
  BY DEF Init, CachesSound
<1>3. \A t \in Threads : ThreadSound(t)
  BY DEF Init, ThreadSound, Looking, Found, Missed, Unanswered, Inserting
<1> QED  BY <1>1, <1>2, <1>3 DEF IInv

-----------------------------------------------------------------------------
(* Facts about the steps.                                                  *)

LEMMA MetaDataType ==
  ASSUME NEW p \in Products
  PROVE  /\ MetaDataOf(p) \in MetaData /\ <<p.etag, p.enc>> \in Keys
         /\ MetaDataOf(p) # Nothing
         /\ MetaDataOf(p).buffer_hash = HashOf[p.body]
  BY HashAssumption, NothingAssumption DEF Products, MetaDataOf, MetaData, Keys

LEMMA LastingFacts ==
  ASSUME TypeOK, Lasting, NEW t \in Threads
  PROVE  /\ lasting' \in [Threads -> SUBSET (Keys \X Hashes)]
         /\ lasting'[t] = lasting[t] \cap Entries'
  BY DEF Lasting, TypeOK

(* A thread knows what it knew when others move: entries only fall out of  *)
(* what has lasted, and products are only added.                           *)
LEMMA ThreadFrame ==
  ASSUME NEW t \in Threads, ThreadSound(t),
         pc'[t] = pc[t], question'[t] = question[t],
         content_encoding'[t] = content_encoding[t], mdata'[t] = mdata[t],
         product'[t] = product[t], result'[t] = result[t],
         lasting'[t] \subseteq lasting[t], stored \subseteq stored'
  PROVE  ThreadSound(t)'
<1>1. \A enc : NoneLasted(t, enc) => NoneLasted(t, enc)'
  BY DEF NoneLasted
<1>2. Looking(t)' /\ Missed(t)'
  BY <1>1 DEF ThreadSound, Looking, Missed
<1>3. Found(t)'
  BY DEF ThreadSound, Found, MetaDataOf
<1>4. Unanswered(t)' /\ Inserting(t)'
  BY DEF ThreadSound, Unanswered, Inserting
<1> QED  BY <1>2, <1>3, <1>4 DEF ThreadSound

(* The caches stay sound when only their contents are left alone. *)
LEMMA CachesFrame ==
  ASSUME CachesSound, UNCHANGED cacheVars, stored \subseteq stored'
  PROVE  CachesSound'
  BY DEF CachesSound, cacheVars, MetaDataOf

LEMMA EvictionSound ==
  ASSUME TypeOK, CachesSound, EvictMetaData \/ EvictBuffer
  PROVE  CachesSound'
<1>1. CASE EvictMetaData
  <2>1. PICK key \in Keys : itsMetaDataCache' = [itsMetaDataCache EXCEPT ![key] = Nothing]
    BY <1>1 DEF EvictMetaData
  <2>2. UNCHANGED <<itsBufferCache, stored>>
    BY <1>1 DEF EvictMetaData
  <2>3. \A k \in Keys : itsMetaDataCache'[k] = itsMetaDataCache[k]
                        \/ itsMetaDataCache'[k] = Nothing
    BY <2>1 DEF TypeOK
  <2> QED  BY <2>2, <2>3 DEF CachesSound, MetaDataOf
<1>2. CASE EvictBuffer
  <2>1. PICK hash \in Hashes : itsBufferCache' = [itsBufferCache EXCEPT ![hash] = Nothing]
    BY <1>2 DEF EvictBuffer
  <2>2. UNCHANGED <<itsMetaDataCache, stored>>
    BY <1>2 DEF EvictBuffer
  <2>3. \A h \in Hashes : itsBufferCache'[h] = itsBufferCache[h]
                          \/ itsBufferCache'[h] = Nothing
    BY <2>1 DEF TypeOK
  <2> QED  BY <2>2, <2>3 DEF CachesSound, MetaDataOf
<1> QED  BY <1>1, <1>2

-----------------------------------------------------------------------------
(* Every step preserves the invariant: the lookup.                         *)

LEMMA EntriesType == Entries \subseteq Keys \X Hashes
  BY DEF Entries

LEMMA BeginLookupSound ==
  ASSUME IInv, NEW t \in Threads, BeginLookup(t)
  PROVE  IInv'
<1>1. PICK q \in Questions :
        /\ question' = [question EXCEPT ![t] = q]
        /\ content_encoding' = [content_encoding EXCEPT ![t] = q.accepts]
  BY DEF BeginLookup
<1>2. /\ pc[t] = "idle" /\ pc' = [pc EXCEPT ![t] = "find"]
      /\ lasting' = [lasting EXCEPT ![t] = Entries]
      /\ UNCHANGED <<cacheVars, mdata, product, result, stored>>
  BY DEF BeginLookup
<1>3. TypeOK'
  BY <1>1, <1>2, EntriesType DEF IInv, TypeOK, cacheVars, Questions
<1>4. CachesSound'
  BY <1>2, CachesFrame DEF IInv
<1>5. ThreadSound(t)'
  BY <1>1, <1>2 DEF IInv, TypeOK, ThreadSound, Looking, Found, Missed, Unanswered, Inserting
<1>6. \A u \in Threads \ {t} : ThreadSound(u)'
  BY <1>1, <1>2, ThreadFrame DEF IInv, TypeOK
<1> QED  BY <1>3, <1>4, <1>5, <1>6 DEF IInv

LEMMA EndLookupSound ==
  ASSUME IInv, NEW t \in Threads, EndLookup(t)
  PROVE  IInv'
<1>1. /\ pc' = [pc EXCEPT ![t] = "idle"]
      /\ question' = [question EXCEPT ![t] = Nothing]
      /\ content_encoding' = [content_encoding EXCEPT ![t] = Identity]
      /\ mdata' = [mdata EXCEPT ![t] = Nothing]
      /\ result' = [result EXCEPT ![t] = Nothing]
      /\ lasting' = [lasting EXCEPT ![t] = {}]
      /\ UNCHANGED <<cacheVars, product, stored>>
  BY DEF EndLookup
<1>2. TypeOK'
  BY <1>1, NothingAssumption DEF IInv, TypeOK, cacheVars
<1>3. CachesSound'
  BY <1>1, CachesFrame DEF IInv
<1>4. ThreadSound(t)'
  BY <1>1 DEF IInv, TypeOK, ThreadSound, Looking, Found, Missed, Unanswered, Inserting
<1>5. \A u \in Threads \ {t} : ThreadSound(u)'
  BY <1>1, ThreadFrame DEF IInv, TypeOK
<1> QED  BY <1>2, <1>3, <1>4, <1>5 DEF IInv

(* An encoding that has no entry now is given up rightly. *)
LEMMA FallBackSound ==
  ASSUME IInv, NEW t \in Threads, pc[t] \in {"find", "found"}, FallBack(t), Lasting,
         UNCHANGED <<cacheVars, question, product, result, stored>>,
         mdata'[t] = mdata[t],
         \A h \in Hashes :
           <<<<question[t].etag, content_encoding[t]>>, h>> \notin lasting'[t]
  PROVE  /\ ThreadSound(t)'
         /\ pc' \in [Threads -> {"idle", "find", "found", "hit", "missed",
                                 "insert", "inserted"}]
         /\ content_encoding' \in [Threads -> Encodings]
         /\ \A u \in Threads \ {t} : /\ pc'[u] = pc[u]
                                     /\ content_encoding'[u] = content_encoding[u]
<1>1. lasting'[t] \subseteq lasting[t]
  BY LastingFacts DEF IInv
<1>2. /\ question[t] \in Questions
      /\ content_encoding[t] \in {question[t].accepts, Identity}
      /\ content_encoding[t] # question[t].accepts => NoneLasted(t, question[t].accepts)
  BY DEF IInv, ThreadSound, Looking
<1>3. result[t] = Nothing
  BY DEF IInv, ThreadSound, Unanswered
<1>4. CASE content_encoding[t] # Identity
  <2>1. /\ content_encoding' = [content_encoding EXCEPT ![t] = Identity]
        /\ pc' = [pc EXCEPT ![t] = "find"]
    BY <1>4 DEF FallBack
  <2>2. pc'[t] = "find" /\ content_encoding'[t] = Identity /\ question'[t] = question[t]
    BY <2>1 DEF IInv, TypeOK
  <2>3. content_encoding[t] = question[t].accepts
    BY <1>2, <1>4
  <2>4. NoneLasted(t, question[t].accepts)'
    BY <2>2, <2>3 DEF NoneLasted
  <2>5. Looking(t)'
    BY <1>2, <2>2, <2>4 DEF Looking
  <2>6. ThreadSound(t)'
    BY <1>3, <2>2, <2>5 DEF ThreadSound, Found, Missed, Unanswered, Inserting
  <2> QED
    BY <2>1, <2>6, NothingAssumption DEF IInv, TypeOK
<1>5. CASE content_encoding[t] = Identity
  <2>1. pc' = [pc EXCEPT ![t] = "missed"] /\ UNCHANGED content_encoding
    BY <1>5 DEF FallBack
  <2>2. pc'[t] = "missed" /\ question'[t] = question[t]
    BY <2>1 DEF IInv, TypeOK
  <2>3. NoneLasted(t, Identity)'
    BY <1>5, <2>2 DEF NoneLasted
  <2>4. NoneLasted(t, question[t].accepts)'
    BY <1>1, <1>2, <1>5, <2>2, <2>3 DEF NoneLasted
  <2>5. ThreadSound(t)'
    BY <1>3, <2>2, <2>3, <2>4 DEF ThreadSound, Looking, Found, Missed, Unanswered, Inserting
  <2> QED
    BY <2>1, <2>5 DEF IInv, TypeOK
<1> QED  BY <1>4, <1>5

LEMMA FindMetaDataSound ==
  ASSUME IInv, NEW t \in Threads, FindMetaData(t)
  PROVE  IInv'
<1> DEFINE key == <<question[t].etag, content_encoding[t]>>
           found == itsMetaDataCache[key]
<1>1. /\ pc[t] = "find" /\ Lasting
      /\ UNCHANGED <<cacheVars, question, product, result, stored>>
      /\ \/ found = Nothing /\ FallBack(t) /\ UNCHANGED mdata
         \/ /\ found # Nothing
            /\ mdata' = [mdata EXCEPT ![t] = found]
            /\ pc' = [pc EXCEPT ![t] = "found"]
            /\ UNCHANGED content_encoding
  BY DEF FindMetaData, makeKey
<1>2. CachesSound'
  BY <1>1, CachesFrame DEF IInv
<1>3. /\ lasting' \in [Threads -> SUBSET (Keys \X Hashes)]
      /\ \A u \in Threads : lasting'[u] = lasting[u] \cap Entries'
  BY <1>1, LastingFacts DEF IInv
<1>4. /\ question[t] \in Questions
      /\ content_encoding[t] \in {question[t].accepts, Identity}
      /\ content_encoding[t] # question[t].accepts => NoneLasted(t, question[t].accepts)
      /\ result[t] = Nothing
  BY <1>1 DEF IInv, ThreadSound, Looking, Unanswered
<1>5. key \in Keys
  BY <1>4, NothingAssumption DEF Questions, Keys
<1>6. \A h \in Hashes : <<key, h>> \in lasting'[t] =>
        found # Nothing /\ found.buffer_hash = h
  BY <1>1, <1>3, <1>5 DEF Entries, cacheVars
<1>7. CASE found = Nothing
  <2>1. FallBack(t) /\ UNCHANGED mdata
    BY <1>1, <1>7
  <2>2. /\ ThreadSound(t)'
        /\ pc' \in [Threads -> {"idle", "find", "found", "hit", "missed",
                                "insert", "inserted"}]
        /\ content_encoding' \in [Threads -> Encodings]
        /\ \A u \in Threads \ {t} : /\ pc'[u] = pc[u]
                                    /\ content_encoding'[u] = content_encoding[u]
    BY <1>1, <1>6, <1>7, <2>1, FallBackSound
  <2>3. TypeOK'
    BY <1>1, <1>3, <2>1, <2>2 DEF IInv, TypeOK, cacheVars
  <2>4. \A u \in Threads \ {t} : ThreadSound(u)'
    BY <1>1, <1>3, <2>1, <2>2, ThreadFrame DEF IInv
  <2> QED  BY <1>2, <2>2, <2>3, <2>4 DEF IInv
<1>8. CASE found # Nothing
  <2>1. /\ mdata' = [mdata EXCEPT ![t] = found]
        /\ pc' = [pc EXCEPT ![t] = "found"]
        /\ UNCHANGED content_encoding
    BY <1>1, <1>8
  <2>2. found \in MetaData
    BY <1>5, <1>8 DEF IInv, TypeOK
  <2>3. TypeOK'
    BY <1>1, <1>3, <2>1, <2>2 DEF IInv, TypeOK, cacheVars
  <2>4. PICK p \in stored : <<p.etag, p.enc>> = key /\ found = MetaDataOf(p)
    BY <1>5, <1>8 DEF IInv, CachesSound
  <2>5. /\ pc'[t] = "found" /\ mdata'[t] = found /\ question'[t] = question[t]
        /\ content_encoding'[t] = content_encoding[t] /\ result'[t] = Nothing
    BY <1>1, <1>4, <2>1 DEF IInv, TypeOK
  <2>6. Found(t)'
    <3>1. \A h \in Hashes : <<key, h>> \in lasting'[t] => h = mdata'[t].buffer_hash
      BY <1>6, <2>5
    <3>2. p \in stored' /\ mdata'[t] = MetaDataOf(p)
      BY <1>1, <2>4, <2>5
    <3> QED  BY <2>4, <2>5, <3>1, <3>2 DEF Found, MetaDataOf
  <2>7. Looking(t)'
    <3>1. NoneLasted(t, question[t].accepts) => NoneLasted(t, question[t].accepts)'
      BY <1>3, <2>5 DEF NoneLasted
    <3> QED  BY <1>4, <2>5, <3>1 DEF Looking
  <2>8. ThreadSound(t)'
    BY <2>5, <2>6, <2>7 DEF ThreadSound, Missed, Unanswered, Inserting
  <2>9. \A u \in Threads \ {t} : ThreadSound(u)'
    BY <1>1, <1>3, <2>1, ThreadFrame DEF IInv, TypeOK
  <2> QED  BY <1>2, <2>3, <2>8, <2>9 DEF IInv
<1> QED  BY <1>7, <1>8

(* The record that FindBuffer returns is the product that was stored.      *)
LEMMA HitFacts ==
  ASSUME IInv, NEW t \in Threads, pc[t] = "found",
         itsBufferCache[mdata[t].buffer_hash] # Nothing
  PROVE  \E p \in stored :
           /\ p \in Products
           /\ p.etag = question[t].etag /\ p.enc = content_encoding[t]
           /\ p = [etag |-> mdata[t].etag, enc |-> mdata[t].content_encoding,
                   expires |-> mdata[t].expires,
                   body |-> itsBufferCache[mdata[t].buffer_hash]]
<1>1. PICK p \in stored : /\ p.etag = question[t].etag
                          /\ p.enc = content_encoding[t]
                          /\ mdata[t] = MetaDataOf(p)
  BY DEF IInv, ThreadSound, Found
<1>2. p \in Products /\ p.body \in Bodies
  BY DEF IInv, TypeOK, Products
<1>3. /\ mdata[t].buffer_hash = HashOf[p.body] /\ mdata[t].etag = p.etag
      /\ mdata[t].content_encoding = p.enc /\ mdata[t].expires = p.expires
  BY <1>1 DEF MetaDataOf
<1>4. HashOf[p.body] \in Hashes
  BY <1>2, HashAssumption
<1> DEFINE buffer == itsBufferCache[mdata[t].buffer_hash]
<1>5. buffer \in Bodies /\ HashOf[buffer] = HashOf[p.body]
  BY <1>3, <1>4 DEF IInv, TypeOK, CachesSound
<1>6. buffer = p.body
  BY <1>2, <1>5, HashAssumption
<1>7. p = [etag |-> p.etag, enc |-> p.enc, expires |-> p.expires, body |-> p.body]
  BY <1>2 DEF Products
<1> QED  BY <1>1, <1>2, <1>3, <1>6, <1>7

LEMMA FindBufferSound ==
  ASSUME IInv, NEW t \in Threads, FindBuffer(t)
  PROVE  IInv'
<1> DEFINE buffer == itsBufferCache[mdata[t].buffer_hash]
           answer == [etag |-> mdata[t].etag, enc |-> mdata[t].content_encoding,
                      expires |-> mdata[t].expires, body |-> buffer]
<1>1. /\ pc[t] = "found" /\ Lasting
      /\ UNCHANGED <<cacheVars, question, mdata, product, stored>>
      /\ \/ buffer = Nothing /\ FallBack(t) /\ UNCHANGED result
         \/ /\ buffer # Nothing
            /\ result' = [result EXCEPT ![t] = answer]
            /\ pc' = [pc EXCEPT ![t] = "hit"]
            /\ UNCHANGED content_encoding
  BY DEF FindBuffer
<1>2. CachesSound'
  BY <1>1, CachesFrame DEF IInv
<1>3. /\ lasting' \in [Threads -> SUBSET (Keys \X Hashes)]
      /\ \A u \in Threads : lasting'[u] = lasting[u] \cap Entries'
  BY <1>1, LastingFacts DEF IInv
<1>4. CASE buffer = Nothing
  <2>1. FallBack(t) /\ UNCHANGED result
    BY <1>1, <1>4
  <2>2. \A h \in Hashes :
          <<<<question[t].etag, content_encoding[t]>>, h>> \notin lasting'[t]
    <3> SUFFICES ASSUME NEW h \in Hashes,
                        <<<<question[t].etag, content_encoding[t]>>, h>> \in lasting'[t]
                 PROVE  FALSE
      OBVIOUS
    <3>1. h = mdata[t].buffer_hash
      BY <1>1, <1>3 DEF IInv, ThreadSound, Found
    <3>2. itsBufferCache'[h] # Nothing
      BY <1>3 DEF Entries
    <3> QED  BY <1>1, <1>4, <3>1, <3>2 DEF cacheVars
  <2>3. /\ ThreadSound(t)'
        /\ pc' \in [Threads -> {"idle", "find", "found", "hit", "missed",
                                "insert", "inserted"}]
        /\ content_encoding' \in [Threads -> Encodings]
        /\ \A u \in Threads \ {t} : /\ pc'[u] = pc[u]
                                    /\ content_encoding'[u] = content_encoding[u]
    BY <1>1, <2>1, <2>2, FallBackSound
  <2>4. TypeOK'
    BY <1>1, <1>3, <2>1, <2>3 DEF IInv, TypeOK, cacheVars
  <2>5. \A u \in Threads \ {t} : ThreadSound(u)'
    BY <1>1, <1>3, <2>1, <2>3, ThreadFrame DEF IInv
  <2> QED  BY <1>2, <2>3, <2>4, <2>5 DEF IInv
<1>5. CASE buffer # Nothing
  <2>1. /\ result' = [result EXCEPT ![t] = answer]
        /\ pc' = [pc EXCEPT ![t] = "hit"]
        /\ UNCHANGED content_encoding
    BY <1>1, <1>5
  <2>2. answer \in Products
    BY <1>1, <1>5, HitFacts
  <2>3. TypeOK'
    BY <1>1, <1>3, <2>1, <2>2 DEF IInv, TypeOK, cacheVars
  <2>4. pc'[t] = "hit"
    BY <2>1 DEF IInv, TypeOK
  <2>5. ThreadSound(t)'
    BY <2>4 DEF ThreadSound, Looking, Found, Missed, Unanswered, Inserting
  <2>6. \A u \in Threads \ {t} : ThreadSound(u)'
    BY <1>1, <1>3, <2>1, ThreadFrame DEF IInv, TypeOK
  <2> QED  BY <1>2, <2>3, <2>5, <2>6 DEF IInv
<1> QED  BY <1>1, <1>4, <1>5

-----------------------------------------------------------------------------
(* Every step preserves the invariant: inserts and evictions.              *)

LEMMA BeginInsertSound ==
  ASSUME IInv, NEW t \in Threads, BeginInsert(t)
  PROVE  IInv'
<1>1. PICK p \in Products : product' = [product EXCEPT ![t] = p]
  BY DEF BeginInsert
<1>2. /\ pc[t] = "idle" /\ pc' = [pc EXCEPT ![t] = "insert"] /\ Lasting
      /\ UNCHANGED <<cacheVars, question, content_encoding, mdata, result, stored>>
  BY DEF BeginInsert, lookupVars
<1>3. /\ lasting' \in [Threads -> SUBSET (Keys \X Hashes)]
      /\ \A u \in Threads : lasting'[u] \subseteq lasting[u]
  BY <1>2, LastingFacts DEF IInv
<1>4. TypeOK'
  BY <1>1, <1>2, <1>3 DEF IInv, TypeOK, cacheVars
<1>5. CachesSound'
  BY <1>2, CachesFrame DEF IInv
<1>6. ThreadSound(t)'
  BY <1>1, <1>2 DEF IInv, TypeOK, ThreadSound, Looking, Found, Missed, Unanswered, Inserting
<1>7. \A u \in Threads \ {t} : ThreadSound(u)'
  BY <1>1, <1>2, <1>3, ThreadFrame DEF IInv, TypeOK
<1> QED  BY <1>4, <1>5, <1>6, <1>7 DEF IInv

LEMMA InsertMetaDataSound ==
  ASSUME IInv, NEW t \in Threads, InsertMetaData(t)
  PROVE  IInv'
<1> DEFINE p == product[t]
           key == <<p.etag, p.enc>>
<1>1. /\ pc[t] = "insert" /\ pc' = [pc EXCEPT ![t] = "inserted"] /\ Lasting
      /\ itsMetaDataCache' \in Inserted(itsMetaDataCache, key, MetaDataOf(p))
      /\ stored' = stored \cup {p}
      /\ UNCHANGED <<itsBufferCache, question, content_encoding, mdata, result, product>>
  BY DEF InsertMetaData, makeKey, lookupVars
<1>2. p \in Products
  BY <1>1 DEF IInv, ThreadSound, Inserting
<1>3. key \in Keys /\ MetaDataOf(p) \in MetaData
  BY <1>2, MetaDataType
<1>4. /\ itsMetaDataCache' \in [Keys -> MetaData \cup {Nothing}]
      /\ \A k \in Keys : \/ itsMetaDataCache'[k] = itsMetaDataCache[k]
                         \/ k = key /\ itsMetaDataCache'[k] = MetaDataOf(p)
  <2>1. itsMetaDataCache \in [Keys -> MetaData \cup {Nothing}]
    BY DEF IInv, TypeOK
  <2>2. MetaDataOf(p) \in MetaData \cup {Nothing}
    BY <1>3
  <2> QED  BY <1>1, <1>3, <2>1, <2>2 DEF Inserted
<1>5. /\ lasting' \in [Threads -> SUBSET (Keys \X Hashes)]
      /\ \A u \in Threads : lasting'[u] \subseteq lasting[u]
  BY <1>1, LastingFacts DEF IInv
<1>6. TypeOK'
  BY <1>1, <1>2, <1>4, <1>5 DEF IInv, TypeOK
<1>7. CachesSound'
  <2>1. \A k \in Keys : itsMetaDataCache'[k] # Nothing =>
          \E q \in stored' : <<q.etag, q.enc>> = k /\ itsMetaDataCache'[k] = MetaDataOf(q)
    BY <1>1, <1>4 DEF IInv, CachesSound
  <2>2. \A h \in Hashes : itsBufferCache'[h] # Nothing => HashOf[itsBufferCache'[h]] = h
    BY <1>1 DEF IInv, CachesSound
  <2> QED  BY <2>1, <2>2 DEF CachesSound, MetaDataOf
<1>8. ThreadSound(t)'
  <2>1. pc'[t] = "inserted" /\ product'[t] \in Products /\ result'[t] = Nothing
    BY <1>1, <1>2 DEF IInv, TypeOK, ThreadSound, Unanswered
  <2> QED  BY <2>1 DEF ThreadSound, Looking, Found, Missed, Unanswered, Inserting
<1>9. \A u \in Threads \ {t} : ThreadSound(u)'
  BY <1>1, <1>5, ThreadFrame DEF IInv, TypeOK
<1> QED  BY <1>6, <1>7, <1>8, <1>9 DEF IInv

LEMMA InsertBufferSound ==
  ASSUME IInv, NEW t \in Threads, InsertBuffer(t)
  PROVE  IInv'
<1> DEFINE p == product[t]
<1>1. /\ pc[t] = "inserted" /\ pc' = [pc EXCEPT ![t] = "idle"] /\ Lasting
      /\ itsBufferCache' \in Inserted(itsBufferCache, HashOf[p.body], p.body)
      /\ product' = [product EXCEPT ![t] = Nothing]
      /\ UNCHANGED <<itsMetaDataCache, question, content_encoding, mdata, result, stored>>
  BY DEF InsertBuffer, lookupVars
<1>2. p \in Products /\ p.body \in Bodies /\ HashOf[p.body] \in Hashes
  BY <1>1, HashAssumption DEF IInv, ThreadSound, Inserting, Products
<1>3. /\ itsBufferCache' \in [Hashes -> Bodies \cup {Nothing}]
      /\ \A h \in Hashes : \/ itsBufferCache'[h] = itsBufferCache[h]
                           \/ h = HashOf[p.body] /\ itsBufferCache'[h] = p.body
  <2>1. itsBufferCache \in [Hashes -> Bodies \cup {Nothing}]
    BY DEF IInv, TypeOK
  <2> QED  BY <1>1, <1>2, <2>1 DEF Inserted
<1>4. /\ lasting' \in [Threads -> SUBSET (Keys \X Hashes)]
      /\ \A u \in Threads : lasting'[u] \subseteq lasting[u]
  BY <1>1, LastingFacts DEF IInv
<1>5. TypeOK'
  BY <1>1, <1>3, <1>4 DEF IInv, TypeOK
<1>6. CachesSound'
  <2>1. \A k \in Keys : itsMetaDataCache'[k] # Nothing =>
          \E q \in stored' : <<q.etag, q.enc>> = k /\ itsMetaDataCache'[k] = MetaDataOf(q)
    BY <1>1 DEF IInv, CachesSound
  <2>2. \A h \in Hashes : itsBufferCache'[h] # Nothing => HashOf[itsBufferCache'[h]] = h
    BY <1>3 DEF IInv, CachesSound
  <2> QED  BY <2>1, <2>2 DEF CachesSound, MetaDataOf
<1>7. ThreadSound(t)'
  <2>1. pc'[t] = "idle" /\ result'[t] = Nothing
    BY <1>1 DEF IInv, TypeOK, ThreadSound, Unanswered
  <2> QED  BY <2>1 DEF ThreadSound, Looking, Found, Missed, Unanswered, Inserting
<1>8. \A u \in Threads \ {t} : ThreadSound(u)'
  BY <1>1, <1>4, ThreadFrame DEF IInv, TypeOK
<1> QED  BY <1>5, <1>6, <1>7, <1>8 DEF IInv

LEMMA EvictSound ==
  ASSUME IInv, EvictMetaData \/ EvictBuffer
  PROVE  IInv'
<1>1. /\ UNCHANGED <<pc, question, content_encoding, mdata, result, product, stored>>
      /\ Lasting
  BY DEF EvictMetaData, EvictBuffer, lookupVars
<1>2. /\ itsMetaDataCache' \in [Keys -> MetaData \cup {Nothing}]
      /\ itsBufferCache' \in [Hashes -> Bodies \cup {Nothing}]
  BY DEF EvictMetaData, EvictBuffer, IInv, TypeOK
<1>3. /\ lasting' \in [Threads -> SUBSET (Keys \X Hashes)]
      /\ \A u \in Threads : lasting'[u] \subseteq lasting[u]
  BY <1>1 DEF IInv, Lasting, TypeOK
<1>4. TypeOK'
  BY <1>1, <1>2, <1>3 DEF IInv, TypeOK
<1>5. CachesSound'
  BY EvictionSound DEF IInv
<1>6. \A u \in Threads : ThreadSound(u)'
  BY <1>1, <1>3, ThreadFrame DEF IInv
<1> QED  BY <1>4, <1>5, <1>6 DEF IInv

LEMMA StepSound == ASSUME IInv, [Next]_vars PROVE IInv'
<1>1. ASSUME NEW t \in Threads,
             \/ BeginLookup(t) \/ FindMetaData(t) \/ FindBuffer(t) \/ EndLookup(t)
             \/ BeginInsert(t) \/ InsertMetaData(t) \/ InsertBuffer(t)
      PROVE  IInv'
  BY <1>1, BeginLookupSound, FindMetaDataSound, FindBufferSound, EndLookupSound,
     BeginInsertSound, InsertMetaDataSound, InsertBufferSound
<1>2. CASE EvictMetaData \/ EvictBuffer
  BY <1>2, EvictSound
<1>3. CASE UNCHANGED vars
  <2>1. /\ UNCHANGED <<cacheVars, pc, question, content_encoding, mdata, product>>
        /\ UNCHANGED <<result, stored, lasting>>
    BY <1>3 DEF vars, lookupVars
  <2>2. TypeOK'
    BY <2>1 DEF IInv, TypeOK, cacheVars
  <2>3. CachesSound'
    BY <2>1, CachesFrame DEF IInv
  <2>4. \A u \in Threads : ThreadSound(u)'
    BY <2>1, ThreadFrame DEF IInv
  <2> QED  BY <2>2, <2>3, <2>4 DEF IInv
<1> QED  BY <1>1, <1>2, <1>3 DEF Next

LEMMA Inductive == Spec => []IInv
<1>1. Init => IInv
  BY InitSound
<1>2. IInv /\ [Next]_vars => IInv'
  BY StepSound
<1> QED  BY <1>1, <1>2, PTL DEF Spec

-----------------------------------------------------------------------------
(* The theorems.                                                           *)

(* The two caches and the threads' variables keep their types; a hit in    *)
(* particular has metadata and a body, never the one without the other.    *)
THEOREM TypeCorrect == Spec => []TypeOK
<1>1. IInv => TypeOK
  BY DEF IInv
<1> QED  BY <1>1, Inductive, PTL

(* getCachedBuffer, tried for the two encodings, finds what was in both    *)
(* caches from the lookup's beginning to its end.                          *)
THEOREM LookupsFindWhatLasts == Spec => []MissJustified
<1>1. IInv => MissJustified
  <2> SUFFICES ASSUME IInv, NEW t \in Threads, pc[t] = "missed",
                      NEW enc \in {question[t].accepts, Identity}, NEW h \in Hashes
               PROVE  <<makeKey(question[t].etag, enc), h>> \notin lasting[t]
    BY DEF MissJustified
  <2> QED  BY DEF IInv, ThreadSound, Missed, NoneLasted, makeKey
<1> QED  BY <1>1, Inductive, PTL

(* The two caches, looked up and filled in two steps each and evicting     *)
(* independently, implement one store that answers with whole products.    *)
THEOREM StoreImplemented == Spec => ImplementsLossyStore
<1>1. Init => Store!Init
  BY DEF Init, Store!Init
<1>2. IInv /\ [Next]_vars => [Store!Next]_<<stored, question, result>>
  <2> SUFFICES ASSUME IInv, [Next]_vars
               PROVE  Store!Next \/ UNCHANGED <<stored, question, result>>
    OBVIOUS
  <2>1. ASSUME NEW t \in Threads, BeginLookup(t)
        PROVE  Store!Ask(t)
    <3>1. result[t] = Nothing /\ UNCHANGED <<result, stored>>
      BY <2>1 DEF BeginLookup, IInv, ThreadSound, Unanswered
    <3>2. result' = [result EXCEPT ![t] = Nothing]
      BY <3>1 DEF IInv, TypeOK
    <3> QED  BY <2>1, <3>1, <3>2 DEF BeginLookup, Store!Ask
  <2>2. ASSUME NEW t \in Threads, EndLookup(t)
        PROVE  Store!Ask(t)
    BY <2>2 DEF EndLookup, Store!Ask
  <2>3. ASSUME NEW t \in Threads, FindBuffer(t)
        PROVE  Store!Answer(t) \/ UNCHANGED <<stored, question, result>>
    <3>1. pc[t] = "found" /\ UNCHANGED <<question, stored>>
      BY <2>3 DEF FindBuffer
    <3>2. CASE itsBufferCache[mdata[t].buffer_hash] = Nothing
      BY <2>3, <3>2 DEF FindBuffer
    <3>3. CASE itsBufferCache[mdata[t].buffer_hash] # Nothing
      <4>1. PICK p \in stored :
              /\ p.etag = question[t].etag /\ p.enc = content_encoding[t]
              /\ result' = [result EXCEPT ![t] = p]
        BY <2>3, <3>1, <3>3, HitFacts DEF FindBuffer
      <4>2. /\ question[t] \in Questions
            /\ content_encoding[t] \in {question[t].accepts, Identity}
        BY <3>1 DEF IInv, ThreadSound, Looking
      <4>3. question[t] # Nothing
        BY <4>2, NothingAssumption DEF Questions
      <4> QED  BY <3>1, <4>1, <4>2, <4>3 DEF Store!Answer, Store!Serves
    <3> QED  BY <3>2, <3>3
  <2>4. ASSUME NEW t \in Threads, InsertMetaData(t)
        PROVE  Store!Store
    <3>1. product[t] \in Products /\ stored' = stored \cup {product[t]}
      BY <2>4 DEF InsertMetaData, IInv, ThreadSound, Inserting
    <3> QED  BY <2>4, <3>1 DEF InsertMetaData, lookupVars, Store!Store
  <2>5. ASSUME NEW t \in Threads, FindMetaData(t) \/ BeginInsert(t) \/ InsertBuffer(t)
        PROVE  UNCHANGED <<stored, question, result>>
    BY <2>5 DEF FindMetaData, BeginInsert, InsertBuffer, lookupVars
  <2>6. ASSUME EvictMetaData \/ EvictBuffer \/ UNCHANGED vars
        PROVE  UNCHANGED <<stored, question, result>>
    BY <2>6 DEF EvictMetaData, EvictBuffer, vars, lookupVars
  <2> QED
    BY <2>1, <2>2, <2>3, <2>4, <2>5, <2>6 DEF Next, Store!Next
<1> QED
  BY <1>1, <1>2, Inductive, PTL
     DEF Spec, ImplementsLossyStore, Store!Spec, Store!storeVars
=============================================================================
