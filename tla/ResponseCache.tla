------------------------------ MODULE ResponseCache ------------------------------
(***************************************************************************)
(* ResponseCache, and how the streamers use it.                            *)
(*                                                                         *)
(* It is two caches of Fmi, each with a lock of its own: one from (ETag,   *)
(* content encoding) to metadata, with the hash of the body, and one from  *)
(* hashes to bodies.  No lock spans the two, so that the threads of the    *)
(* ASIO pool look up and insert in two steps, in between which entries of  *)
(* either cache come and go.                                               *)
(***************************************************************************)
CONSTANTS
  Threads,      \* the pool's threads
  ETags, Encodings, Identity,
  Expires,      \* stands for the metadata that does not identify the body
  Bodies, Hashes, HashOf,
  Nothing

(* Within the model two bodies have different hashes; boost::hash has 64   *)
(* bits and does not rule it out.                                          *)
ASSUME HashAssumption ==
  /\ HashOf \in [Bodies -> Hashes]
  /\ \A a, b \in Bodies : HashOf[a] = HashOf[b] => a = b

ASSUME NothingAssumption ==
  /\ Nothing \notin Bodies
  /\ Nothing \notin [etag : ETags, accepts : Encodings]
  /\ Nothing \notin [etag : ETags, enc : Encodings, expires : Expires, body : Bodies]
  /\ Nothing \notin [buffer_hash : Hashes, etag : ETags, expires : Expires,
                     content_encoding : Encodings]
  /\ Identity \in Encodings

Products  == [etag : ETags, enc : Encodings, expires : Expires, body : Bodies]
Questions == [etag : ETags, accepts : Encodings]
MetaData  == [buffer_hash : Hashes, etag : ETags, expires : Expires,
              content_encoding : Encodings]

VARIABLES
  itsMetaDataCache, itsBufferCache,
  pc,           \* where each thread is
  question,     \* the ETag and encoding its lookup is for
  content_encoding, \* the encoding it is trying
  mdata,        \* the metadata it has found
  product,      \* what it is inserting
  result,       \* the outcome of its lookup
  stored,       \* history: all that has been inserted
  lasting       \* history: the entries that could have served each thread's
                \* lookup all the time since it began

cacheVars  == <<itsMetaDataCache, itsBufferCache>>
lookupVars == <<question, content_encoding, mdata, result>>
vars == <<cacheVars, pc, lookupVars, product, stored, lasting>>

(* Mutant: the encoding is left out of the key. *)
makeKeyOfETag(etag, encoding) == <<etag, Identity>>

(* The separator in the string cannot occur in an ETag: the key is a pair. *)
makeKey(etag, encoding) == <<etag, encoding>>

Keys == ETags \X Encodings

(* A key and the hash of its metadata, where the body is cached too. *)
Entries == {e \in Keys \X Hashes :
              /\ itsMetaDataCache[e[1]] # Nothing
              /\ itsMetaDataCache[e[1]].buffer_hash = e[2]
              /\ itsBufferCache[e[2]] # Nothing}

(* Those entries that have been there in every state of the lookup. *)
Lasting == lasting' = [t \in Threads |-> lasting[t] \cap Entries']

Init ==
  /\ itsMetaDataCache = [k \in Keys |-> Nothing]
  /\ itsBufferCache = [h \in Hashes |-> Nothing]
  /\ pc = [t \in Threads |-> "idle"]
  /\ question = [t \in Threads |-> Nothing]
  /\ content_encoding = [t \in Threads |-> Identity]
  /\ mdata = [t \in Threads |-> Nothing]
  /\ product = [t \in Threads |-> Nothing]
  /\ result = [t \in Threads |-> Nothing]
  /\ stored = {}
  /\ lasting = [t \in Threads |-> {}]

-----------------------------------------------------------------------------
(* readCacheResponse's lookup: the client's preferred encoding first, then *)
(* the uncompressed representation.                                        *)

BeginLookup(t) ==
  /\ pc[t] = "idle"
  /\ \E q \in Questions :
       /\ question' = [question EXCEPT ![t] = q]
       /\ content_encoding' = [content_encoding EXCEPT ![t] = q.accepts]
  /\ pc' = [pc EXCEPT ![t] = "find"]
  /\ lasting' = [lasting EXCEPT ![t] = Entries]
  /\ UNCHANGED <<cacheVars, mdata, product, result, stored>>

(* Mutant: no second lookup. *)
GiveUp(t) ==
  /\ pc' = [pc EXCEPT ![t] = "missed"]
  /\ UNCHANGED content_encoding

FallBack(t) ==
  \/ /\ content_encoding[t] # Identity
     /\ content_encoding' = [content_encoding EXCEPT ![t] = Identity]
     /\ pc' = [pc EXCEPT ![t] = "find"]
  \/ /\ content_encoding[t] = Identity
     /\ pc' = [pc EXCEPT ![t] = "missed"]
     /\ UNCHANGED content_encoding

(* getCachedBuffer: itsMetaDataCache.find copies the metadata. *)
FindMetaData(t) ==
  LET found == itsMetaDataCache[makeKey(question[t].etag, content_encoding[t])]
  IN  /\ pc[t] = "find"
      /\ \/ /\ found = Nothing
            /\ FallBack(t)
            /\ UNCHANGED mdata
         \/ /\ found # Nothing
            /\ mdata' = [mdata EXCEPT ![t] = found]
            /\ pc' = [pc EXCEPT ![t] = "found"]
            /\ UNCHANGED content_encoding
      /\ UNCHANGED <<cacheVars, question, product, result, stored>>
      /\ Lasting

(* Mutant: metadata without a buffer counts as a hit. *)
FindBufferUnchecked(t) ==
  /\ pc[t] = "found"
  /\ result' = [result EXCEPT ![t] =
       [etag |-> mdata[t].etag, enc |-> mdata[t].content_encoding,
        expires |-> mdata[t].expires, body |-> itsBufferCache[mdata[t].buffer_hash]]]
  /\ pc' = [pc EXCEPT ![t] = "hit"]
  /\ UNCHANGED <<cacheVars, question, content_encoding, mdata, product, stored>>
  /\ Lasting

(* getCachedBuffer: itsBufferCache.find; metadata without a buffer is a    *)
(* miss to readCacheResponse.                                              *)
FindBuffer(t) ==
  LET buffer == itsBufferCache[mdata[t].buffer_hash]
  IN  /\ pc[t] = "found"
      /\ \/ /\ buffer = Nothing
            /\ FallBack(t)
            /\ UNCHANGED result
         \/ /\ buffer # Nothing
            /\ result' = [result EXCEPT ![t] =
                 [etag |-> mdata[t].etag, enc |-> mdata[t].content_encoding,
                  expires |-> mdata[t].expires, body |-> buffer]]
            /\ pc' = [pc EXCEPT ![t] = "hit"]
            /\ UNCHANGED content_encoding
      /\ UNCHANGED <<cacheVars, question, mdata, product, stored>>
      /\ Lasting

(* The lookup returns to the handler, and its local variables go. *)
EndLookup(t) ==
  /\ pc[t] \in {"hit", "missed"}
  /\ pc' = [pc EXCEPT ![t] = "idle"]
  /\ question' = [question EXCEPT ![t] = Nothing]
  /\ content_encoding' = [content_encoding EXCEPT ![t] = Identity]
  /\ mdata' = [mdata EXCEPT ![t] = Nothing]
  /\ result' = [result EXCEPT ![t] = Nothing]
  /\ lasting' = [lasting EXCEPT ![t] = {}]
  /\ UNCHANGED <<cacheVars, product, stored>>

-----------------------------------------------------------------------------
(* insertCachedBuffer, called by handleError at the end of a product.      *)

BeginInsert(t) ==
  /\ pc[t] = "idle"
  /\ \E p \in Products : product' = [product EXCEPT ![t] = p]
  /\ pc' = [pc EXCEPT ![t] = "insert"]
  /\ UNCHANGED <<cacheVars, lookupVars, stored>>
  /\ Lasting

(* An insert under a key that is present: Fmi::Cache may keep the entry.   *)
Inserted(cache, key, value) ==
  IF cache[key] = Nothing THEN {[cache EXCEPT ![key] = value]}
  ELSE {cache, [cache EXCEPT ![key] = value]}

MetaDataOf(p) ==
  [buffer_hash |-> HashOf[p.body], etag |-> p.etag, expires |-> p.expires,
   content_encoding |-> p.enc]

InsertMetaData(t) ==
  LET p == product[t]
  IN  /\ pc[t] = "insert"
      /\ itsMetaDataCache' \in
           Inserted(itsMetaDataCache, makeKey(p.etag, p.enc), MetaDataOf(p))
      /\ stored' = stored \cup {p}
      /\ pc' = [pc EXCEPT ![t] = "inserted"]
      /\ UNCHANGED <<itsBufferCache, lookupVars, product>>
      /\ Lasting

InsertBuffer(t) ==
  LET p == product[t]
  IN  /\ pc[t] = "inserted"
      /\ itsBufferCache' \in Inserted(itsBufferCache, HashOf[p.body], p.body)
      /\ pc' = [pc EXCEPT ![t] = "idle"]
      /\ product' = [product EXCEPT ![t] = Nothing]
      /\ UNCHANGED <<itsMetaDataCache, lookupVars, stored>>
      /\ Lasting

-----------------------------------------------------------------------------
(* Each cache evicts what it likes, whatever the other one holds.          *)
EvictMetaData ==
  /\ \E k \in Keys :
       /\ itsMetaDataCache[k] # Nothing
       /\ itsMetaDataCache' = [itsMetaDataCache EXCEPT ![k] = Nothing]
  /\ UNCHANGED <<itsBufferCache, pc, lookupVars, product, stored>>
  /\ Lasting

EvictBuffer ==
  /\ \E h \in Hashes :
       /\ itsBufferCache[h] # Nothing
       /\ itsBufferCache' = [itsBufferCache EXCEPT ![h] = Nothing]
  /\ UNCHANGED <<itsMetaDataCache, pc, lookupVars, product, stored>>
  /\ Lasting

Next ==
  \/ \E t \in Threads :
       \/ BeginLookup(t) \/ FindMetaData(t) \/ FindBuffer(t) \/ EndLookup(t)
       \/ BeginInsert(t) \/ InsertMetaData(t) \/ InsertBuffer(t)
  \/ EvictMetaData
  \/ EvictBuffer

Spec == Init /\ [][Next]_vars

-----------------------------------------------------------------------------
(* Properties.                                                             *)

TypeOK ==
  /\ itsMetaDataCache \in [Keys -> MetaData \cup {Nothing}]
  /\ itsBufferCache \in [Hashes -> Bodies \cup {Nothing}]
  /\ pc \in [Threads -> {"idle", "find", "found", "hit", "missed", "insert", "inserted"}]
  /\ question \in [Threads -> Questions \cup {Nothing}]
  /\ content_encoding \in [Threads -> Encodings]
  /\ mdata \in [Threads -> MetaData \cup {Nothing}]
  /\ product \in [Threads -> Products \cup {Nothing}]
  /\ result \in [Threads -> Products \cup {Nothing}]
  /\ stored \subseteq Products
  /\ lasting \in [Threads -> SUBSET (Keys \X Hashes)]

(* A lookup does not miss what is there: if the metadata under one of the  *)
(* two keys it may try, and the body it points at, have been cached all    *)
(* the time since the lookup began, then the lookup hits, whatever was     *)
(* inserted and evicted around them.                                       *)
MissJustified ==
  \A t \in Threads : pc[t] = "missed" =>
    \A enc \in {question[t].accepts, Identity}, h \in Hashes :
      <<makeKey(question[t].etag, enc), h>> \notin lasting[t]

(* The two caches together are the store that LossyStore describes: an     *)
(* answer never joins the metadata of one product to the body of another.  *)
Store == INSTANCE LossyStore WITH asked <- question, answer <- result

ImplementsLossyStore == Store!Spec
=============================================================================
