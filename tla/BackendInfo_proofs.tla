---------------------------- MODULE BackendInfo_proofs ----------------------------
(***************************************************************************)
(* The safety of BackendInfo for any number of backends and any records.   *)
(*                                                                         *)
(* The lists are descending and set_intersection compares as if they were  *)
(* ascending: at the first difference one cursor runs to the end of its    *)
(* list and nothing more is found.  What the merge computes is therefore   *)
(* the longest common prefix of the responses' lists (CommonPrefix), and   *)
(* that is the invariant of its loops.  Both properties of the summary     *)
(* follow from it: all of a prefix is common, and where all agree on what  *)
(* comes before a common record it is in the prefix.                       *)
(***************************************************************************)
EXTENDS BackendInfo, FiniteSetTheorems, TLAPS

(* s is the longest common prefix of the first n lists of L, in the words  *)
(* of the first of them.                                                   *)
CommonPrefix(s, L, n) ==
  /\ s \in Seq(Records) /\ Len(s) <= Len(L[1])
  /\ \A k \in 1..Len(s) : s[k] = L[1][k]
  /\ \A m \in 1..n : Len(s) <= Len(L[m]) /\ \A k \in 1..Len(s) : Key(L[m][k]) = Key(s[k])
  /\ Len(s) < Len(L[1]) =>
       \E m \in 1..n : Len(s) < Len(L[m]) => Key(L[m][Len(s) + 1]) # Key(L[1][Len(s) + 1])

(* The cursors i and j on the lists a and b: they have not met a           *)
(* difference yet, or one of them waits at it while the other runs on.     *)
Cursors(a, b, t, i, j) ==
  /\ t \in Seq(Records) /\ Len(t) <= Len(a) /\ Len(t) <= Len(b)
  /\ \A k \in 1..Len(t) : t[k] = a[k] /\ Key(b[k]) = Key(a[k])
  /\ \/ i = Len(t) + 1 /\ j = Len(t) + 1
     \/ /\ Len(t) < Len(a) /\ Len(t) < Len(b)
        /\ \/ Less(a[Len(t) + 1], b[Len(t) + 1]) /\ i > Len(t) + 1 /\ j = Len(t) + 1
           \/ Less(b[Len(t) + 1], a[Len(t) + 1]) /\ i = Len(t) + 1 /\ j > Len(t) + 1

(* The list of records of p in each response. *)
Lists(p) == [n \in DOMAIN responses |-> RecordsOf(n, p)]

-----------------------------------------------------------------------------
Types ==
  /\ phase \in {"received", "refused", "querying", "merging", "intersecting", "done"}
  /\ request \in Requests
  /\ query \in [BackendSet -> {"none", "pending", "failed", "answered"}]
  /\ held \in [BackendSet -> SUBSET Records]
  /\ DOMAIN records = BackendSet
  /\ responses \in Seq(BackendSet) /\ next \in Nat \ {0}
  /\ first1 \in Nat \ {0} /\ first2 \in Nat \ {0}

(* An answer lists what is wanted of what the backend has. *)
Listed(b) ==
  /\ query[b] # "answered" => records[b] = Nothing
  /\ query[b] = "answered" =>
       /\ DOMAIN records[b] = {r.producer : r \in Wanted(b)}
       /\ \A p \in DOMAIN records[b] :
            /\ records[b][p] \in Seq(Records) /\ Descending(records[b][p])
            /\ Range(records[b][p]) = {r \in Wanted(b) : r.producer = p}

(* The responses are those of the backends that answered. *)
Collected ==
  /\ \A n \in DOMAIN responses : query[responses[n]] = "answered"
  /\ phase \in {"received", "refused"} =>
       /\ responses = <<>> /\ next = 1 /\ \A b \in BackendSet : query[b] = "none"
  /\ phase = "querying" =>
       /\ next > 1 => Executed
       /\ next = 1 => responses = <<>>
       /\ \A n \in DOMAIN Backends :
            n < next /\ query[Backends[n]] = "answered" => Backends[n] \in Range(responses)
  /\ phase \in {"merging", "intersecting", "done"} => Answering \subseteq Range(responses)

(* Each common producer has been merged, or is left, or is being merged. *)
Merged ==
  /\ phase \in {"received", "refused", "querying"} \/ responses = <<>> =>
       summary = Nothing /\ commonProducers = {}
  /\ phase \in {"merging", "intersecting"} => responses # <<>>
  /\ phase \in {"merging", "intersecting", "done"} /\ responses # <<>> =>
       /\ commonProducers \subseteq CommonProducers
       /\ DOMAIN summary \subseteq CommonProducers
       /\ \A p \in DOMAIN summary :
            summary[p] # <<>> /\ CommonPrefix(summary[p], Lists(p), Len(responses))
       /\ \A p \in CommonProducers \ DOMAIN summary :
            \/ p \in commonProducers
            \/ phase = "intersecting" /\ p = producer
            \/ CommonPrefix(<<>>, Lists(p), Len(responses))
  /\ phase = "done" => commonProducers = {}

(* The records of the producer in hand. *)
Intersected ==
  /\ phase # "intersecting" =>
       mergedRecords = <<>> /\ tempRecords = <<>> /\ first1 = 1 /\ first2 = 1
  /\ phase = "intersecting" =>
       /\ producer \in CommonProducers /\ next \in 2..Len(responses) + 1
       /\ CommonPrefix(mergedRecords, Lists(producer), next - 1)
       /\ IF next <= Len(responses)
          THEN Cursors(mergedRecords, Others, tempRecords, first1, first2)
          ELSE tempRecords = <<>> /\ first1 = 1 /\ first2 = 1

IInv == Types /\ (\A b \in BackendSet : Listed(b)) /\ Collected /\ Merged /\ Intersected

-----------------------------------------------------------------------------
(* The order of the records.                                               *)

LEMMA KeyType == \A r \in Records : Key(r) \in Nat \X Nat
BY BackendInfoAssumption

(* Less is a strict order of the keys, and total on them. *)
LEMMA LessOrder ==
  \A a, b \in Records :
    /\ ~(Less(a, b) /\ Less(b, a))
    /\ ~Less(a, b) /\ ~Less(b, a) <=> Key(a) = Key(b)
    /\ \A c \in Records : Less(a, b) /\ Less(b, c) => Less(a, c)
    /\ \A c \in Records : Key(a) = Key(c) =>
         (Less(a, b) <=> Less(c, b)) /\ (Less(b, a) <=> Less(b, c))
<1> SUFFICES ASSUME NEW a \in Records, NEW b \in Records
             PROVE  /\ ~(Less(a, b) /\ Less(b, a))
                    /\ ~Less(a, b) /\ ~Less(b, a) <=> Key(a) = Key(b)
                    /\ \A c \in Records : Less(a, b) /\ Less(b, c) => Less(a, c)
                    /\ \A c \in Records : Key(a) = Key(c) =>
                         (Less(a, b) <=> Less(c, b)) /\ (Less(b, a) <=> Less(b, c))
  OBVIOUS
<1>1. \A r \in Records : \E m, n \in Nat : Key(r) = <<m, n>>
  BY KeyType
<1>2. PICK m \in Nat, n \in Nat : Key(a) = <<m, n>>
  BY <1>1
<1>3. PICK u \in Nat, v \in Nat : Key(b) = <<u, v>>
  BY <1>1
<1>4. ~(Less(a, b) /\ Less(b, a)) /\ (~Less(a, b) /\ ~Less(b, a) <=> Key(a) = Key(b))
  BY <1>2, <1>3 DEF Less
<1>5. ASSUME NEW c \in Records
      PROVE  /\ Less(a, b) /\ Less(b, c) => Less(a, c)
             /\ Key(a) = Key(c) =>
                  (Less(a, b) <=> Less(c, b)) /\ (Less(b, a) <=> Less(b, c))
  <2>1. PICK x \in Nat, y \in Nat : Key(c) = <<x, y>>
    BY <1>1
  <2> QED  BY <1>2, <1>3, <2>1 DEF Less
<1> QED  BY <1>4, <1>5

(* The lists of a merge. *)
GoodLists(L, n) == \A m \in 1..n : L[m] \in Seq(Records) /\ Descending(L[m])

-----------------------------------------------------------------------------
(* What the cursors compute.                                               *)

LEMMA PrefixBegins ==
  ASSUME NEW L, GoodLists(L, 1) PROVE CommonPrefix(L[1], L, 1)
BY DEF GoodLists, CommonPrefix

LEMMA CursorsBegin ==
  ASSUME NEW a \in Seq(Records), NEW b \in Seq(Records)
  PROVE  Cursors(a, b, <<>>, 1, 1)
BY DEF Cursors

LEMMA CursorsAdvance ==
  ASSUME NEW a \in Seq(Records), Descending(a), NEW b \in Seq(Records), Descending(b),
         NEW t, NEW i \in Nat \ {0}, NEW j \in Nat \ {0}, i <= Len(a), j <= Len(b),
         Cursors(a, b, t, i, j)
  PROVE  /\ Less(a[i], b[j]) => Cursors(a, b, t, i + 1, j)
         /\ Less(b[j], a[i]) => Cursors(a, b, t, i, j + 1)
         /\ ~Less(a[i], b[j]) /\ ~Less(b[j], a[i]) =>
              Cursors(a, b, Append(t, a[i]), i + 1, j + 1)
<1> DEFINE n == Len(t) + 1
<1>1. t \in Seq(Records) /\ Len(t) \in Nat /\ n \in Nat \ {0}
  BY DEF Cursors
<1>2. a[i] \in Records /\ b[j] \in Records /\ DOMAIN a = 1..Len(a) /\ DOMAIN b = 1..Len(b)
  OBVIOUS
<1>3. CASE i = n /\ j = n
  <2>1. Less(a[i], b[j]) => Cursors(a, b, t, i + 1, j)
    BY <1>1, <1>3 DEF Cursors
  <2>2. Less(b[j], a[i]) => Cursors(a, b, t, i, j + 1)
    BY <1>1, <1>3 DEF Cursors
  <2>3. ASSUME ~Less(a[i], b[j]), ~Less(b[j], a[i])
        PROVE  Cursors(a, b, Append(t, a[i]), i + 1, j + 1)
    <3>1. Key(b[n]) = Key(a[n])
      BY <1>2, <1>3, <2>3, LessOrder
    <3>2. /\ Append(t, a[i]) \in Seq(Records) /\ Len(Append(t, a[i])) = n
          /\ \A k \in 1..Len(t) : Append(t, a[i])[k] = t[k]
          /\ Append(t, a[i])[n] = a[n]
      BY <1>1, <1>2, <1>3
    <3>3. \A k \in 1..n : Append(t, a[i])[k] = a[k] /\ Key(b[k]) = Key(a[k])
      BY <1>1, <3>1, <3>2 DEF Cursors
    <3> QED  BY <1>1, <1>3, <3>2, <3>3 DEF Cursors
  <2> QED  BY <2>1, <2>2, <2>3
<1>4. CASE Less(a[n], b[n]) /\ i > n /\ j = n
  <2>1. n \in DOMAIN a /\ i \in DOMAIN a
    BY <1>1, <1>2, <1>4
  <2>2. Less(a[i], a[n]) /\ a[n] \in Records
    BY <1>4, <2>1 DEF Descending
  <2>3. Less(a[i], b[j]) /\ ~Less(b[j], a[i])
    BY <1>2, <1>4, <2>2, LessOrder
  <2>4. Cursors(a, b, t, i + 1, j)
    BY <1>1, <1>4 DEF Cursors
  <2> QED  BY <2>3, <2>4
<1>5. CASE Less(b[n], a[n]) /\ i = n /\ j > n
  <2>1. n \in DOMAIN b /\ j \in DOMAIN b
    BY <1>1, <1>2, <1>5
  <2>2. Less(b[j], b[n]) /\ b[n] \in Records
    BY <1>5, <2>1 DEF Descending
  <2>3. Less(b[j], a[i]) /\ ~Less(a[i], b[j])
    BY <1>2, <1>5, <2>2, LessOrder
  <2>4. Cursors(a, b, t, i, j + 1)
    BY <1>1, <1>5 DEF Cursors
  <2> QED  BY <2>3, <2>4
<1> QED  BY <1>3, <1>4, <1>5 DEF Cursors

(* One list after the other: what the cursors leave is the prefix common   *)
(* to one list more.                                                       *)
LEMMA PrefixGrows ==
  ASSUME NEW n \in Nat \ {0}, NEW L, GoodLists(L, n + 1), NEW a, CommonPrefix(a, L, n),
         NEW t, NEW i \in Nat \ {0}, NEW j \in Nat \ {0},
         Cursors(a, L[n + 1], t, i, j), ~(i <= Len(a) /\ j <= Len(L[n + 1]))
  PROVE  CommonPrefix(t, L, n + 1)
<1> DEFINE b == L[n + 1]
           x == Len(t) + 1
<1>1. /\ a \in Seq(Records) /\ b \in Seq(Records) /\ L[1] \in Seq(Records)
      /\ t \in Seq(Records) /\ Len(t) \in Nat /\ Len(a) \in Nat /\ Len(b) \in Nat
      /\ Len(L[1]) \in Nat /\ Len(t) <= Len(a) /\ Len(a) <= Len(L[1]) /\ Len(t) <= Len(b)
  BY DEF CommonPrefix, Cursors, GoodLists
<1>2. \A m \in 1..n + 1 : m \in 1..n \/ m = n + 1
  OBVIOUS
<1>3. \A k \in 1..Len(t) : t[k] = a[k] /\ a[k] = L[1][k] /\ Key(b[k]) = Key(t[k])
  BY <1>1 DEF CommonPrefix, Cursors
<1>4. ASSUME NEW m \in 1..n + 1
      PROVE  Len(t) <= Len(L[m]) /\ \A k \in 1..Len(t) : Key(L[m][k]) = Key(t[k])
  <2>1. CASE m = n + 1
    BY <1>1, <1>3, <2>1
  <2>2. CASE m \in 1..n
    <3>1. Len(a) <= Len(L[m]) /\ \A k \in 1..Len(a) : Key(L[m][k]) = Key(a[k])
      BY <2>2 DEF CommonPrefix
    <3>2. L[m] \in Seq(Records) /\ Len(L[m]) \in Nat
      BY DEF GoodLists
    <3> QED  BY <1>1, <1>3, <3>1, <3>2
  <2> QED  BY <1>2, <2>1, <2>2
<1>5. ASSUME Len(t) < Len(L[1])
      PROVE  \E m \in 1..n + 1 : Len(t) < Len(L[m]) => Key(L[m][x]) # Key(L[1][x])
  <2>1. CASE Len(t) = Len(b)
    <3> WITNESS n + 1 \in 1..n + 1
    <3> QED  BY <1>1, <2>1
  <2>2. CASE Len(t) = Len(a)
    <3>1. PICK m \in 1..n : Len(a) < Len(L[m]) => Key(L[m][Len(a) + 1]) # Key(L[1][Len(a) + 1])
      BY <1>5, <2>2 DEF CommonPrefix
    <3>2. m \in 1..n + 1
      OBVIOUS
    <3> QED  BY <2>2, <3>1, <3>2
  <2>3. CASE Len(t) < Len(a) /\ Len(t) < Len(b)
    <3>1. Less(a[x], b[x]) \/ Less(b[x], a[x])
      BY <1>1, <2>3 DEF Cursors
    <3>2. x \in 1..Len(a) /\ a[x] \in Records /\ b[x] \in Records /\ a[x] = L[1][x]
      BY <1>1, <2>3 DEF CommonPrefix
    <3>3. Key(b[x]) # Key(L[1][x])
      BY <3>1, <3>2, LessOrder
    <3> WITNESS n + 1 \in 1..n + 1
    <3> QED  BY <3>3
  <2> QED  BY <1>1, <2>1, <2>2, <2>3
<1>6. \A k \in 1..Len(t) : t[k] = L[1][k]
  BY <1>3
<1>7. Len(t) <= Len(L[1])
  BY <1>1
<1> QED  BY <1>1, <1>4, <1>5, <1>6, <1>7 DEF CommonPrefix

LEMMA PrefixDescends ==
  ASSUME NEW s, NEW L, NEW n \in Nat \ {0}, GoodLists(L, n), CommonPrefix(s, L, n)
  PROVE  s \in Seq(Records) /\ Descending(s)
<1>1. L[1] \in Seq(Records) /\ Descending(L[1])
  BY DEF GoodLists
<1>2. s \in Seq(Records) /\ Len(s) <= Len(L[1]) /\ \A k \in 1..Len(s) : s[k] = L[1][k]
  BY DEF CommonPrefix
<1>3. DOMAIN s = 1..Len(s) /\ \A k \in DOMAIN s : k \in DOMAIN L[1]
  BY <1>1, <1>2
<1> QED  BY <1>1, <1>2, <1>3 DEF Descending

-----------------------------------------------------------------------------
(* What an answer lists.                                                   *)

LEMMA SortedLists ==
  ASSUME NEW W \in SUBSET Records, NEW s \in Sorted(W)
  PROVE  s \in Seq(Records) /\ Descending(s) /\ Range(s) = W
<1>1. IsFiniteSet(W)
  BY BackendInfoAssumption, FS_Subset
<1>2. Cardinality(W) \in Nat
  BY <1>1, FS_CardinalityType
<1>3. s \in [1..Cardinality(W) -> W] /\ Range(s) = W
  BY DEF Sorted
<1>4. s \in Seq(W)
  BY <1>2, <1>3
<1>5. s \in Seq(Records)
  BY <1>4
<1> QED  BY <1>3, <1>5 DEF Sorted, Descending

LEMMA AnswerLists ==
  ASSUME NEW offered \in SUBSET Records, NEW f \in BackendInfoResponse(offered),
         NEW W, \A r : r \in W <=> r \in offered /\ RecordFilter(r)
  PROVE  /\ DOMAIN f = {r.producer : r \in W}
         /\ \A p \in DOMAIN f :
              /\ f[p] \in Seq(Records) /\ Descending(f[p])
              /\ Range(f[p]) = {r \in W : r.producer = p}
<1>1. DOMAIN f = {r.producer : r \in W}
  BY DEF BackendInfoResponse
<1>2. ASSUME NEW p \in DOMAIN f
      PROVE  f[p] \in Sorted({r \in offered : RecordFilter(r) /\ r.producer = p})
  BY <1>1 DEF BackendInfoResponse
<1>3. ASSUME NEW p \in DOMAIN f
      PROVE  {r \in offered : RecordFilter(r) /\ r.producer = p} = {r \in W : r.producer = p}
  OBVIOUS
<1>4. ASSUME NEW p \in DOMAIN f
      PROVE  /\ f[p] \in Seq(Records) /\ Descending(f[p])
             /\ Range(f[p]) = {r \in W : r.producer = p}
  <2>1. f[p] \in Sorted({r \in W : r.producer = p})
    BY <1>2, <1>3
  <2>2. {r \in W : r.producer = p} \in SUBSET Records
    OBVIOUS
  <2> QED  BY <2>1, <2>2, SortedLists
<1> QED  BY <1>1, <1>4

(* The lists that a merge starts from. *)
LEMMA ListsAreGood ==
  ASSUME Types, \A b \in BackendSet : Listed(b), Collected, NEW p \in CommonProducers
  PROVE  /\ GoodLists(Lists(p), Len(responses))
         /\ \A n \in 1..Len(responses) :
              Lists(p)[n] = RecordsOf(n, p) /\ p \in DOMAIN records[responses[n]]
<1>1. Len(responses) \in Nat /\ DOMAIN responses = 1..Len(responses)
  BY DEF Types
<1>2. ASSUME NEW n \in 1..Len(responses)
      PROVE  /\ Lists(p)[n] = RecordsOf(n, p) /\ p \in DOMAIN records[responses[n]]
             /\ RecordsOf(n, p) \in Seq(Records) /\ Descending(RecordsOf(n, p))
  <2>1. responses[n] \in BackendSet /\ query[responses[n]] = "answered"
    BY <1>1 DEF Types, Collected
  <2>2. p \in DOMAIN records[responses[n]]
    BY <1>1 DEF CommonProducers
  <2>3. Listed(responses[n])
    BY <2>1
  <2> QED  BY <1>1, <2>1, <2>2, <2>3 DEF Listed, RecordsOf, Lists
<1> QED  BY <1>2 DEF GoodLists

-----------------------------------------------------------------------------
(* The steps.                                                              *)

LEMMA InitSound == Init => IInv
<1> SUFFICES ASSUME Init PROVE IInv
  OBVIOUS
<1>1. Types
  BY DEF Init, Types
<1>2. \A b \in BackendSet : Listed(b)
  BY DEF Init, Listed
<1>3. Collected
  BY DEF Init, Collected
<1>4. Merged /\ Intersected
  BY DEF Init, Merged, Intersected
<1> QED  BY <1>1, <1>2, <1>3, <1>4 DEF IInv

LEMMA ListedStays ==
  ASSUME UNCHANGED <<request, queryVars>>, \A b \in BackendSet : Listed(b)
  PROVE  (\A b \in BackendSet : Listed(b))'
<1>1. request' = request /\ query' = query /\ held' = held /\ records' = records
  BY DEF queryVars
<1>2. BackendSet' = BackendSet
  BY DEF BackendSet
<1> QED  BY <1>1, <1>2 DEF Listed, Wanted, Descending

LEMMA SummaryRequested == IInv /\ RequestBackendInfoSummary => IInv'
<1> SUFFICES ASSUME IInv, RequestBackendInfoSummary PROVE IInv'
  OBVIOUS
<1>1. /\ phase = "received" /\ phase' \in {"querying", "refused"}
      /\ responses = <<>> /\ next = 1 /\ \A b \in BackendSet : query[b] = "none"
      /\ summary = Nothing /\ commonProducers = {}
      /\ mergedRecords = <<>> /\ tempRecords = <<>> /\ first1 = 1 /\ first2 = 1
  BY DEF IInv, RequestBackendInfoSummary, Collected, Merged, Intersected
<1>2. UNCHANGED <<request, held, records, responses, next, commonProducers, producer,
                  mergedRecords, tempRecords, first1, first2, summary>>
  BY DEF RequestBackendInfoSummary, mergeVars
<1>3. /\ query' \in [BackendSet -> {"none", "pending", "failed", "answered"}]
      /\ \A b \in BackendSet : query'[b] # "answered"
      /\ phase' = "refused" => query' = query
  BY <1>1 DEF IInv, Types, RequestBackendInfoSummary
<1>4. Types'
  BY <1>1, <1>2, <1>3 DEF IInv, Types
<1>5. (\A b \in BackendSet : Listed(b))'
  BY <1>1, <1>2, <1>3 DEF IInv, Listed
<1>6. Collected'
  BY <1>1, <1>2, <1>3 DEF Collected
<1>7. Merged' /\ Intersected'
  BY <1>1, <1>2 DEF Merged, Intersected
<1> QED  BY <1>4, <1>5, <1>6, <1>7 DEF IInv

(* A query that is pending is one of a request nothing is collected for. *)
LEMMA NothingCollected ==
  ASSUME IInv, phase = "querying", NEW b \in BackendSet, query[b] = "pending"
  PROVE  next = 1 /\ responses = <<>>
<1>1. ~Executed
  BY DEF Executed
<1> QED  BY <1>1 DEF IInv, Collected, Types

LEMMA Answered == ASSUME NEW b \in BackendSet PROVE IInv /\ BackendAnswers(b) => IInv'
<1> SUFFICES ASSUME IInv, BackendAnswers(b) PROVE IInv'
  OBVIOUS
<1>1. next = 1 /\ responses = <<>>
  BY NothingCollected DEF BackendAnswers
<1>2. UNCHANGED <<phase, request, responses, next, commonProducers, producer,
                  mergedRecords, tempRecords, first1, first2, summary>>
  BY DEF BackendAnswers, mergeVars
<1>a. PICK offered \in Offer :
        /\ held' = [held EXCEPT ![b] = offered]
        /\ \E g \in BackendInfoResponse(offered) : records' = [records EXCEPT ![b] = g]
  BY DEF BackendAnswers
<1>b. PICK f \in BackendInfoResponse(offered) : records' = [records EXCEPT ![b] = f]
  BY <1>a
<1>3. query' = [query EXCEPT ![b] = "answered"]
  BY DEF BackendAnswers
<1>4. offered \in SUBSET Records
  BY DEF Offer
<1>5. /\ query'[b] = "answered" /\ held'[b] = offered /\ records'[b] = f
      /\ \A c \in BackendSet \ {b} :
           query'[c] = query[c] /\ held'[c] = held[c] /\ records'[c] = records[c]
      /\ query' \in [BackendSet -> {"none", "pending", "failed", "answered"}]
      /\ held' \in [BackendSet -> SUBSET Records] /\ DOMAIN records' = BackendSet
  BY <1>a, <1>b, <1>3, <1>4 DEF IInv, Types
<1>6. Wanted(b)' = {r \in offered : RecordFilter(r)}
  BY <1>2, <1>5 DEF Wanted, RecordFilter
<1>7. Listed(b)'
  <2> DEFINE W == Wanted(b)'
  <2>1. \A r : r \in W <=> r \in offered /\ RecordFilter(r)
    BY <1>6
  <2>2. query'[b] = "answered" /\ records'[b] = f
    BY <1>5
  <2> HIDE DEF W
  <2>3. /\ DOMAIN f = {r.producer : r \in W}
        /\ \A p \in DOMAIN f : /\ f[p] \in Seq(Records) /\ Descending(f[p])
                               /\ Range(f[p]) = {r \in W : r.producer = p}
    BY <1>4, <1>b, <2>1, AnswerLists, Zenon
  <2>4. /\ DOMAIN records'[b] = {r.producer : r \in W}
        /\ \A p \in DOMAIN records'[b] :
             /\ records'[b][p] \in Seq(Records) /\ Descending(records'[b][p])
             /\ Range(records'[b][p]) = {r \in W : r.producer = p}
    BY <2>2, <2>3
  <2> QED  BY <2>2, <2>4 DEF Listed, W
<1>8. ASSUME NEW c \in BackendSet, c # b PROVE Listed(c)'
  BY <1>2, <1>5, <1>8 DEF IInv, Listed, Wanted
<1>9. Types'
  BY <1>2, <1>5 DEF IInv, Types
<1>10. Collected'
  <2>1. \A n \in DOMAIN Backends : n \in Nat /\ ~(n < 1)
    BY BackendInfoAssumption
  <2> QED  BY <1>1, <1>2, <2>1 DEF Collected, BackendAnswers
<1>11. Merged' /\ Intersected'
  BY <1>2 DEF IInv, Merged, Intersected, BackendAnswers
<1> QED  BY <1>7, <1>8, <1>9, <1>10, <1>11 DEF IInv, BackendSet

LEMMA Failed == ASSUME NEW b \in BackendSet PROVE IInv /\ BackendFails(b) => IInv'
<1> SUFFICES ASSUME IInv, BackendFails(b) PROVE IInv'
  OBVIOUS
<1>1. next = 1 /\ responses = <<>>
  BY NothingCollected DEF BackendFails
<1>2. UNCHANGED <<phase, request, held, records, responses, next, commonProducers, producer,
                  mergedRecords, tempRecords, first1, first2, summary>>
  BY DEF BackendFails, mergeVars
<1>3. /\ query[b] = "pending" /\ query'[b] = "failed"
      /\ \A c \in BackendSet \ {b} : query'[c] = query[c]
      /\ query' \in [BackendSet -> {"none", "pending", "failed", "answered"}]
  BY DEF IInv, Types, BackendFails
<1>4. Types'
  BY <1>2, <1>3 DEF IInv, Types
<1>5. (\A c \in BackendSet : Listed(c))'
  BY <1>2, <1>3 DEF IInv, Listed, Wanted
<1>6. Collected'
  BY <1>1, <1>2 DEF IInv, Collected, BackendFails
<1>7. Merged' /\ Intersected'
  BY <1>2 DEF IInv, Merged, Intersected, BackendFails
<1> QED  BY <1>4, <1>5, <1>6, <1>7 DEF IInv

LEMMA RangeAppended ==
  ASSUME NEW S, NEW s \in Seq(S), NEW e \in S PROVE Range(Append(s, e)) = Range(s) \cup {e}
<1>1. /\ DOMAIN Append(s, e) = 1..Len(s) + 1 /\ DOMAIN s = 1..Len(s) /\ Len(s) \in Nat
      /\ \A k \in 1..Len(s) : Append(s, e)[k] = s[k]
      /\ Append(s, e)[Len(s) + 1] = e
  OBVIOUS
<1>2. \A k \in 1..Len(s) + 1 : k \in 1..Len(s) \/ k = Len(s) + 1
  BY <1>1
<1>3. ASSUME NEW x \in Range(Append(s, e)) PROVE x \in Range(s) \cup {e}
  BY <1>1, <1>2 DEF Range
<1>4. ASSUME NEW x \in Range(s) \cup {e} PROVE x \in Range(Append(s, e))
  BY <1>1 DEF Range
<1> QED  BY <1>3, <1>4

LEMMA Collecting == IInv /\ Collect => IInv'
<1> SUFFICES ASSUME IInv, Collect PROVE IInv'
  OBVIOUS
<1>1. /\ phase = "querying" /\ next <= Len(Backends) /\ Executed
      /\ next' = next + 1 /\ next \in Nat \ {0}
  BY DEF Collect, IInv, Types
<1>2. /\ UNCHANGED <<phase, request, held, query, records, commonProducers, producer,
                     mergedRecords, tempRecords, first1, first2, summary>>
      /\ UNCHANGED <<request, queryVars>>
  BY DEF Collect, mergeVars, queryVars
<1>3. /\ next \in DOMAIN Backends /\ Backends[next] \in BackendSet
      /\ DOMAIN Backends = 1..Len(Backends)
  BY <1>1, BackendInfoAssumption
<1>4. responses \in Seq(BackendSet)
  BY DEF IInv, Types
<1>5. /\ responses' \in Seq(BackendSet) /\ Range(responses) \subseteq Range(responses')
      /\ query[Backends[next]] = "answered" => Backends[next] \in Range(responses')
      /\ \A n \in DOMAIN responses' : query[responses'[n]] = "answered"
  <2>1. CASE query[Backends[next]] = "answered"
    <3>1. responses' = Append(responses, Backends[next])
      BY <2>1 DEF Collect
    <3>2. Range(responses') = Range(responses) \cup {Backends[next]}
      BY <1>3, <1>4, <3>1, RangeAppended
    <3>3. \A n \in DOMAIN responses : query[responses[n]] = "answered"
      BY DEF IInv, Collected
    <3>4. \A n \in DOMAIN responses' :
            (n \in DOMAIN responses /\ responses'[n] = responses[n])
              \/ responses'[n] = Backends[next]
      BY <1>3, <1>4, <3>1
    <3> QED  BY <1>3, <1>4, <2>1, <3>1, <3>2, <3>3, <3>4
  <2>2. CASE query[Backends[next]] # "answered"
    BY <1>4, <2>2 DEF Collect, IInv, Collected
  <2> QED  BY <2>1, <2>2
<1>6. Types'
  BY <1>1, <1>2, <1>5 DEF IInv, Types
<1>7. (\A b \in BackendSet : Listed(b))'
  BY <1>2, ListedStays DEF IInv
<1>8. Collected'
  <2>1. Executed'
    BY <1>1, <1>2 DEF Executed
  <2>2. \A n \in DOMAIN Backends :
          n < next' /\ query[Backends[n]] = "answered" => Backends[n] \in Range(responses')
    <3>1. \A n \in DOMAIN Backends : n < next + 1 => n < next \/ n = next
      BY <1>1, <1>3
    <3> QED  BY <1>1, <1>5, <3>1 DEF IInv, Collected
  <2> QED  BY <1>1, <1>2, <1>5, <2>1, <2>2 DEF Collected
<1>9. Merged' /\ Intersected'
  BY <1>1, <1>2 DEF IInv, Merged, Intersected
<1> QED  BY <1>6, <1>7, <1>8, <1>9 DEF IInv

(* What no step of the merge touches. *)
LEMMA AnswersStay ==
  ASSUME UNCHANGED <<request, queryVars, responses>>
  PROVE  /\ CommonProducers' = CommonProducers /\ Answering' = Answering
         /\ \A p : Lists(p)' = Lists(p)
         /\ \A n, p : RecordsOf(n, p)' = RecordsOf(n, p)
<1>1. request' = request /\ query' = query /\ records' = records /\ responses' = responses
  BY DEF queryVars
<1>2. CommonProducers' = CommonProducers
  BY <1>1 DEF CommonProducers
<1>3. Answering' = Answering
  BY <1>1 DEF Answering, BackendSet
<1>4. \A p : Lists(p)' = Lists(p)
  BY <1>1 DEF Lists, RecordsOf
<1> QED  BY <1>1, <1>2, <1>3, <1>4 DEF RecordsOf

LEMMA MergeBegun == IInv /\ BeginMerge => IInv'
<1> SUFFICES ASSUME IInv, BeginMerge PROVE IInv'
  OBVIOUS
<1>1. /\ phase = "querying" /\ next > Len(Backends) /\ next \in Nat
      /\ summary = Nothing /\ commonProducers = {}
      /\ \/ phase' = "done" /\ responses = <<>> /\ commonProducers' = commonProducers
         \/ phase' = "merging" /\ responses # <<>> /\ commonProducers' = CommonProducers
  BY DEF BeginMerge, IInv, Types, Merged
<1>2. /\ UNCHANGED <<request, query, held, records, responses, next, producer,
                     mergedRecords, tempRecords, first1, first2, summary>>
      /\ UNCHANGED <<request, queryVars>> /\ UNCHANGED <<request, queryVars, responses>>
  BY DEF BeginMerge, mergeVars, queryVars
<1>3. /\ CommonProducers' = CommonProducers /\ Answering' = Answering
      /\ \A p : Lists(p)' = Lists(p)
  BY <1>2, AnswersStay
<1>4. Types'
  BY <1>1, <1>2 DEF IInv, Types
<1>5. (\A b \in BackendSet : Listed(b))'
  BY <1>2, ListedStays DEF IInv
<1>6. Collected'
  <2>1. \A n \in DOMAIN Backends : n < next
    BY <1>1, BackendInfoAssumption
  <2>2. ASSUME NEW b \in Answering PROVE b \in Range(responses)
    <3>1. PICK n \in DOMAIN Backends : b = Backends[n]
      BY DEF Answering, BackendSet, Range
    <3>2. query[Backends[n]] = "answered"
      BY <3>1 DEF Answering
    <3> QED  BY <1>1, <2>1, <3>1, <3>2 DEF IInv, Collected
  <2> QED  BY <1>1, <1>2, <1>3, <2>2 DEF IInv, Collected
<1>7. Merged'
  <2>1. DOMAIN Nothing = {}
    BY DEF Nothing
  <2> QED  BY <1>1, <1>2, <1>3, <2>1 DEF Merged
<1>8. Intersected'
  BY <1>1, <1>2 DEF IInv, Intersected
<1> QED  BY <1>4, <1>5, <1>6, <1>7, <1>8 DEF IInv

LEMMA ProducerBegun == IInv /\ NextProducer => IInv'
<1> SUFFICES ASSUME IInv, NextProducer PROVE IInv'
  OBVIOUS
<1>1. /\ phase = "merging" /\ phase' = "intersecting" /\ next' = 2 /\ responses # <<>>
      /\ UNCHANGED <<request, query, held, records, responses, tempRecords, first1, first2,
                     summary>>
      /\ UNCHANGED <<request, queryVars>> /\ UNCHANGED <<request, queryVars, responses>>
  BY DEF NextProducer, queryVars, IInv, Merged
<1>2. PICK p \in commonProducers :
        /\ producer' = p /\ commonProducers' = commonProducers \ {p}
        /\ mergedRecords' = RecordsOf(1, p)
  BY DEF NextProducer
<1>3. /\ CommonProducers' = CommonProducers /\ Answering' = Answering
      /\ \A q : Lists(q)' = Lists(q)
      /\ \A n, q : RecordsOf(n, q)' = RecordsOf(n, q)
  BY <1>1, AnswersStay
<1>4. p \in CommonProducers /\ tempRecords = <<>> /\ first1 = 1 /\ first2 = 1
  BY <1>1, <1>2 DEF IInv, Merged, Intersected
<1>5. /\ GoodLists(Lists(p), Len(responses))
      /\ \A n \in 1..Len(responses) : Lists(p)[n] = RecordsOf(n, p)
  BY <1>4, ListsAreGood DEF IInv
<1>6. Len(responses) \in Nat \ {0}
  BY <1>1 DEF IInv, Types
<1>7. mergedRecords' = Lists(p)[1] /\ CommonPrefix(Lists(p)[1], Lists(p), 1)
  <2>1. GoodLists(Lists(p), 1) /\ 1 \in 1..Len(responses)
    BY <1>5, <1>6 DEF GoodLists
  <2> QED  BY <1>2, <1>5, <2>1, PrefixBegins
<1>8. Types'
  BY <1>1 DEF IInv, Types
<1>9. (\A b \in BackendSet : Listed(b))'
  BY <1>1, ListedStays DEF IInv
<1>10. Collected'
  BY <1>1, <1>3 DEF IInv, Collected
<1>11. Merged'
  BY <1>1, <1>2, <1>3 DEF IInv, Merged
<1>12. Intersected'
  <2>1. ASSUME 2 <= Len(responses) PROVE Cursors(Lists(p)[1], RecordsOf(2, p), <<>>, 1, 1)
    <3>1. 1 \in 1..Len(responses) /\ 2 \in 1..Len(responses)
      BY <1>6, <2>1
    <3>2. Lists(p)[1] \in Seq(Records) /\ RecordsOf(2, p) \in Seq(Records)
      BY <1>5, <3>1 DEF GoodLists
    <3> QED  BY <3>2, CursorsBegin
  <2>2. Others' = RecordsOf(2, p)
    BY <1>1, <1>2 DEF Others, RecordsOf
  <2>3. 2 \in 2..Len(responses) + 1 /\ 2 - 1 = 1
    BY <1>6
  <2>4. CommonPrefix(mergedRecords, Lists(producer), next - 1)'
    BY <1>1, <1>2, <1>3, <1>7, <2>3
  <2>5. next' <= Len(responses') =>
          Cursors(mergedRecords', Others', tempRecords', first1', first2')
    BY <1>1, <1>4, <1>7, <2>1, <2>2
  <2> QED  BY <1>1, <1>2, <1>3, <1>4, <2>3, <2>4, <2>5 DEF Intersected
<1> QED  BY <1>8, <1>9, <1>10, <1>11, <1>12 DEF IInv

(* The lists in hand while two are intersected. *)
LEMMA InHand ==
  ASSUME IInv, phase = "intersecting"
  PROVE  /\ producer \in CommonProducers /\ next \in 2..Len(responses) + 1
         /\ Len(responses) \in Nat \ {0}
         /\ GoodLists(Lists(producer), Len(responses))
         /\ CommonPrefix(mergedRecords, Lists(producer), next - 1)
         /\ mergedRecords \in Seq(Records) /\ Descending(mergedRecords)
         /\ next <= Len(responses) =>
              /\ Others = Lists(producer)[next] /\ Others \in Seq(Records) /\ Descending(Others)
              /\ Cursors(mergedRecords, Others, tempRecords, first1, first2)
<1>1. /\ producer \in CommonProducers /\ next \in 2..Len(responses) + 1
      /\ CommonPrefix(mergedRecords, Lists(producer), next - 1)
      /\ next <= Len(responses) =>
           Cursors(mergedRecords, Others, tempRecords, first1, first2)
  BY DEF IInv, Intersected
<1>2. Len(responses) \in Nat \ {0}
  BY <1>1 DEF IInv, Types, Merged
<1>3. /\ GoodLists(Lists(producer), Len(responses))
      /\ \A n \in 1..Len(responses) : Lists(producer)[n] = RecordsOf(n, producer)
  BY <1>1, ListsAreGood DEF IInv
<1>4. mergedRecords \in Seq(Records) /\ Descending(mergedRecords)
  <2>1. GoodLists(Lists(producer), next - 1) /\ next - 1 \in Nat \ {0}
    BY <1>1, <1>2, <1>3 DEF GoodLists
  <2> QED  BY <1>1, <2>1, PrefixDescends
<1>5. ASSUME next <= Len(responses)
      PROVE  Others = Lists(producer)[next] /\ Others \in Seq(Records) /\ Descending(Others)
  <2>1. next \in 1..Len(responses)
    BY <1>1, <1>2, <1>5
  <2> QED  BY <1>3, <2>1 DEF GoodLists, Others
<1> QED  BY <1>1, <1>2, <1>3, <1>4, <1>5

LEMMA IntersectionStepped == IInv /\ SetIntersection => IInv'
<1> SUFFICES ASSUME IInv, SetIntersection PROVE IInv'
  OBVIOUS
<1>1. /\ phase = "intersecting" /\ next <= Len(responses)
      /\ first1 <= Len(mergedRecords) /\ first2 <= Len(Others)
      /\ first1 \in Nat \ {0} /\ first2 \in Nat \ {0}
  BY DEF SetIntersection, More, IInv, Types
<1>2. /\ UNCHANGED <<phase, request, query, held, records, responses, next, commonProducers,
                     producer, mergedRecords, summary>>
      /\ UNCHANGED <<request, queryVars>> /\ UNCHANGED <<request, queryVars, responses>>
  BY DEF SetIntersection, queryVars
<1>3. /\ CommonProducers' = CommonProducers /\ Answering' = Answering
      /\ \A q : Lists(q)' = Lists(q)
  BY <1>2, AnswersStay
<1>4. Others' = Others
  BY <1>2 DEF Others, RecordsOf
<1>5. /\ Cursors(mergedRecords, Others, tempRecords', first1', first2')
      /\ first1' \in Nat \ {0} /\ first2' \in Nat \ {0}
  <2>1. /\ Less(mergedRecords[first1], Others[first2]) =>
             Cursors(mergedRecords, Others, tempRecords, first1 + 1, first2)
        /\ Less(Others[first2], mergedRecords[first1]) =>
             Cursors(mergedRecords, Others, tempRecords, first1, first2 + 1)
        /\ ~Less(mergedRecords[first1], Others[first2])
             /\ ~Less(Others[first2], mergedRecords[first1]) =>
             Cursors(mergedRecords, Others, Append(tempRecords, mergedRecords[first1]),
                     first1 + 1, first2 + 1)
    BY <1>1, InHand, CursorsAdvance
  <2>2. CASE /\ Less(mergedRecords[first1], Others[first2])
             /\ first1' = first1 + 1 /\ UNCHANGED <<tempRecords, first2>>
    BY <1>1, <2>1, <2>2
  <2>3. CASE /\ Less(Others[first2], mergedRecords[first1])
             /\ first2' = first2 + 1 /\ UNCHANGED <<tempRecords, first1>>
    BY <1>1, <2>1, <2>3
  <2>4. CASE /\ ~Less(mergedRecords[first1], Others[first2])
             /\ ~Less(Others[first2], mergedRecords[first1])
             /\ tempRecords' = Append(tempRecords, mergedRecords[first1])
             /\ first1' = first1 + 1 /\ first2' = first2 + 1
    BY <1>1, <2>1, <2>4
  <2> QED  BY <2>2, <2>3, <2>4 DEF SetIntersection
<1>6. Types'
  BY <1>2, <1>5 DEF IInv, Types
<1>7. (\A b \in BackendSet : Listed(b))'
  BY <1>2, ListedStays DEF IInv
<1>8. Collected'
  BY <1>1, <1>2, <1>3 DEF IInv, Collected
<1>9. Merged'
  BY <1>2, <1>3 DEF IInv, Merged
<1>10. Intersected'
  BY <1>1, <1>2, <1>3, <1>4, <1>5, InHand DEF Intersected
<1> QED  BY <1>6, <1>7, <1>8, <1>9, <1>10 DEF IInv

LEMMA ResponseMerged == IInv /\ NextResponse => IInv'
<1> SUFFICES ASSUME IInv, NextResponse PROVE IInv'
  OBVIOUS
<1>1. /\ phase = "intersecting" /\ next <= Len(responses)
      /\ ~(first1 <= Len(mergedRecords) /\ first2 <= Len(Others))
      /\ first1 \in Nat \ {0} /\ first2 \in Nat \ {0}
      /\ mergedRecords' = tempRecords /\ tempRecords' = <<>> /\ first1' = 1 /\ first2' = 1
      /\ next' = next + 1
  BY DEF NextResponse, More, IInv, Types
<1>2. /\ UNCHANGED <<phase, request, query, held, records, responses, commonProducers,
                     producer, summary>>
      /\ UNCHANGED <<request, queryVars>> /\ UNCHANGED <<request, queryVars, responses>>
  BY DEF NextResponse, queryVars
<1>3. /\ CommonProducers' = CommonProducers /\ Answering' = Answering
      /\ \A q : Lists(q)' = Lists(q)
      /\ \A n, q : RecordsOf(n, q)' = RecordsOf(n, q)
  BY <1>2, AnswersStay
<1> DEFINE n == next - 1
           L == Lists(producer)
<1>4. /\ n \in Nat \ {0} /\ next = n + 1 /\ next \in 2..Len(responses) + 1
      /\ n + 1 \in 1..Len(responses) /\ Len(responses) \in Nat
  BY <1>1, InHand
<1>5. CommonPrefix(tempRecords, L, n + 1)
  <2>1. GoodLists(L, n + 1)
    BY <1>1, <1>4, InHand DEF GoodLists
  <2>2. /\ CommonPrefix(mergedRecords, L, n)
        /\ Cursors(mergedRecords, L[n + 1], tempRecords, first1, first2)
        /\ ~(first1 <= Len(mergedRecords) /\ first2 <= Len(L[n + 1]))
    BY <1>1, <1>4, InHand
  <2> HIDE DEF n, L
  <2> QED  BY <1>1, <1>4, <2>1, <2>2, PrefixGrows
<1>6. Types'
  BY <1>1, <1>2 DEF IInv, Types
<1>7. (\A b \in BackendSet : Listed(b))'
  BY <1>2, ListedStays DEF IInv
<1>8. Collected'
  BY <1>1, <1>2, <1>3 DEF IInv, Collected
<1>9. Merged'
  BY <1>2, <1>3 DEF IInv, Merged
<1>10. Intersected'
  <2>1. ASSUME next + 1 <= Len(responses)
        PROVE  Cursors(tempRecords, RecordsOf(next + 1, producer), <<>>, 1, 1)
    <3>1. next + 1 \in 1..Len(responses)
      BY <1>4, <2>1
    <3>2. RecordsOf(next + 1, producer) \in Seq(Records)
      BY <1>1, <3>1, InHand, ListsAreGood DEF GoodLists, IInv
    <3>3. tempRecords \in Seq(Records)
      BY <1>5 DEF CommonPrefix
    <3> QED  BY <3>2, <3>3, CursorsBegin
  <2>2. Others' = RecordsOf(next + 1, producer)
    BY <1>1, <1>2 DEF Others, RecordsOf
  <2>3. next' \in 2..Len(responses) + 1 /\ next' - 1 = n + 1
    BY <1>1, <1>4
  <2>4. CommonPrefix(mergedRecords, Lists(producer), next - 1)'
    BY <1>1, <1>2, <1>3, <1>5, <2>3
  <2>5. next' <= Len(responses') =>
          Cursors(mergedRecords', Others', tempRecords', first1', first2')
    BY <1>1, <1>2, <2>1, <2>2
  <2> QED  BY <1>1, <1>2, <1>3, <2>3, <2>4, <2>5, InHand DEF Intersected
<1> QED  BY <1>6, <1>7, <1>8, <1>9, <1>10 DEF IInv

LEMMA ProducerDone == IInv /\ ProducerMerged => IInv'
<1> SUFFICES ASSUME IInv, ProducerMerged PROVE IInv'
  OBVIOUS
<1>1. /\ phase = "intersecting" /\ next > Len(responses) /\ phase' = "merging"
      /\ mergedRecords' = <<>> /\ responses # <<>>
      /\ UNCHANGED <<request, query, held, records, responses, next, commonProducers,
                     tempRecords, first1, first2>>
      /\ UNCHANGED <<request, queryVars>> /\ UNCHANGED <<request, queryVars, responses>>
  BY DEF ProducerMerged, queryVars, IInv, Merged
<1>2. /\ CommonProducers' = CommonProducers /\ Answering' = Answering
      /\ \A q : Lists(q)' = Lists(q)
  BY <1>1, AnswersStay
<1>3. /\ producer \in CommonProducers /\ next - 1 = Len(responses)
      /\ CommonPrefix(mergedRecords, Lists(producer), Len(responses))
      /\ tempRecords = <<>> /\ first1 = 1 /\ first2 = 1
  <2>1. next - 1 = Len(responses)
    BY <1>1, InHand
  <2> QED  BY <1>1, <2>1, InHand DEF IInv, Intersected
<1>4. Types'
  BY <1>1 DEF IInv, Types
<1>5. (\A b \in BackendSet : Listed(b))'
  BY <1>1, ListedStays DEF IInv
<1>6. Collected'
  BY <1>1, <1>2 DEF IInv, Collected
<1>7. /\ DOMAIN summary' \subseteq DOMAIN summary \cup {producer}
      /\ DOMAIN summary \subseteq DOMAIN summary'
      /\ producer \notin DOMAIN summary' => mergedRecords = <<>>
      /\ \A p \in DOMAIN summary' :
           \/ p \in DOMAIN summary /\ summary'[p] = summary[p]
           \/ p = producer /\ summary'[p] = mergedRecords /\ mergedRecords # <<>>
  BY DEF ProducerMerged
<1>8. Merged'
  <2>1. /\ DOMAIN summary \subseteq CommonProducers /\ commonProducers \subseteq CommonProducers
        /\ \A p \in DOMAIN summary :
             summary[p] # <<>> /\ CommonPrefix(summary[p], Lists(p), Len(responses))
        /\ \A p \in CommonProducers \ DOMAIN summary :
             p \in commonProducers \/ p = producer
               \/ CommonPrefix(<<>>, Lists(p), Len(responses))
    BY <1>1 DEF IInv, Merged
  <2>2. \A p \in DOMAIN summary' :
          summary'[p] # <<>> /\ CommonPrefix(summary'[p], Lists(p), Len(responses))
    BY <1>3, <1>7, <2>1
  <2>3. \A p \in CommonProducers \ DOMAIN summary' :
          p \in commonProducers \/ CommonPrefix(<<>>, Lists(p), Len(responses))
    BY <1>3, <1>7, <2>1
  <2>4. DOMAIN summary' \subseteq CommonProducers
    BY <1>3, <1>7, <2>1
  <2> QED  BY <1>1, <1>2, <2>1, <2>2, <2>3, <2>4 DEF Merged
<1>9. Intersected'
  BY <1>1, <1>3 DEF Intersected
<1> QED  BY <1>4, <1>5, <1>6, <1>8, <1>9 DEF IInv

LEMMA MergeEnded == IInv /\ EndMerge => IInv'
<1> SUFFICES ASSUME IInv, EndMerge PROVE IInv'
  OBVIOUS
<1>1. /\ phase = "merging" /\ phase' = "done" /\ commonProducers = {}
      /\ UNCHANGED <<request, query, held, records, responses, next, commonProducers,
                     producer, mergedRecords, tempRecords, first1, first2, summary>>
      /\ UNCHANGED <<request, queryVars>> /\ UNCHANGED <<request, queryVars, responses>>
  BY DEF EndMerge, queryVars, mergeVars
<1>2. /\ CommonProducers' = CommonProducers /\ Answering' = Answering
      /\ \A q : Lists(q)' = Lists(q)
  BY <1>1, AnswersStay
<1>3. Types'
  BY <1>1 DEF IInv, Types
<1>4. (\A b \in BackendSet : Listed(b))'
  BY <1>1, ListedStays DEF IInv
<1>5. Collected'
  BY <1>1, <1>2 DEF IInv, Collected
<1>6. Merged' /\ Intersected'
  BY <1>1, <1>2 DEF IInv, Merged, Intersected
<1> QED  BY <1>3, <1>4, <1>5, <1>6 DEF IInv

LEMMA Responded == IInv /\ Respond => IInv'
<1> SUFFICES ASSUME IInv, Respond PROVE IInv'
  OBVIOUS
<1>1. /\ phase' = "received" /\ request' \in Requests
      /\ query' = [b \in BackendSet |-> "none"] /\ held' = [b \in BackendSet |-> {}]
      /\ records' = [b \in BackendSet |-> Nothing]
      /\ responses' = <<>> /\ next' = 1 /\ summary' = Nothing
      /\ UNCHANGED <<commonProducers, producer, mergedRecords, tempRecords, first1, first2>>
  BY DEF Respond, mergeVars
<1>2. /\ commonProducers = {}
      /\ mergedRecords = <<>> /\ tempRecords = <<>> /\ first1 = 1 /\ first2 = 1
  BY DEF Respond, IInv, Merged, Intersected
<1>3. Types'
  BY <1>1, <1>2 DEF Types
<1>4. (\A b \in BackendSet : Listed(b))'
  BY <1>1 DEF Listed, BackendSet
<1>5. Collected'
  BY <1>1 DEF Collected
<1>6. Merged' /\ Intersected'
  BY <1>1, <1>2 DEF Merged, Intersected
<1> QED  BY <1>3, <1>4, <1>5, <1>6 DEF IInv

LEMMA Stuttered == IInv /\ UNCHANGED vars => IInv'
<1> SUFFICES ASSUME IInv, UNCHANGED vars PROVE IInv'
  OBVIOUS
<1>1. /\ UNCHANGED <<phase, request, query, held, records, responses, next, commonProducers,
                     producer, mergedRecords, tempRecords, first1, first2, summary>>
      /\ UNCHANGED <<request, queryVars>> /\ UNCHANGED <<request, queryVars, responses>>
  BY DEF vars, queryVars, mergeVars
<1>2. /\ CommonProducers' = CommonProducers /\ Answering' = Answering
      /\ \A q : Lists(q)' = Lists(q)
      /\ \A n, q : RecordsOf(n, q)' = RecordsOf(n, q)
  BY <1>1, AnswersStay
<1>3. Types'
  BY <1>1 DEF IInv, Types
<1>4. (\A b \in BackendSet : Listed(b))'
  BY <1>1, ListedStays DEF IInv
<1>5. Collected'
  BY <1>1, <1>2 DEF IInv, Collected, Executed
<1>6. Merged'
  BY <1>1, <1>2 DEF IInv, Merged
<1>7. Intersected'
  <2>1. Others' = Others
    BY <1>1 DEF Others, RecordsOf
  <2> QED  BY <1>1, <1>2, <2>1 DEF IInv, Intersected
<1> QED  BY <1>3, <1>4, <1>5, <1>6, <1>7 DEF IInv

LEMMA Inductive == Spec => []IInv
<1>1. Init => IInv
  BY InitSound
<1>2. IInv /\ [Next]_vars => IInv'
  <2> SUFFICES ASSUME IInv, [Next]_vars PROVE IInv'
    OBVIOUS
  <2>1. CASE RequestBackendInfoSummary
    BY <2>1, SummaryRequested
  <2>2. ASSUME NEW b \in BackendSet, BackendAnswers(b) \/ BackendFails(b) PROVE IInv'
    BY <2>2, Answered, Failed
  <2>3. CASE Collect
    BY <2>3, Collecting
  <2>4. CASE Merge
    BY <2>4, MergeBegun, ProducerBegun, IntersectionStepped, ResponseMerged, ProducerDone,
       MergeEnded DEF Merge
  <2>5. CASE Respond
    BY <2>5, Responded
  <2>6. CASE UNCHANGED vars
    BY <2>6, Stuttered
  <2> QED  BY <2>1, <2>2, <2>3, <2>4, <2>5, <2>6 DEF Next
<1> QED  BY <1>1, <1>2, PTL DEF Spec

-----------------------------------------------------------------------------
(* How far the common prefix reaches.                                      *)

LEMMA Positions ==
  ASSUME NEW s \in Seq(Records), Descending(s), NEW i \in 1..Len(s), NEW j \in 1..Len(s)
  PROVE  /\ s[i] \in Records
         /\ Less(s[i], s[j]) <=> j < i
         /\ Key(s[i]) = Key(s[j]) <=> i = j
<1>1. s[i] \in Records /\ s[j] \in Records
  OBVIOUS
<1>2. i \in DOMAIN s /\ j \in DOMAIN s
  OBVIOUS
<1>3. /\ i < j => Less(s[j], s[i])
      /\ j < i => Less(s[i], s[j])
  BY <1>2 DEF Descending
<1>4. i < j \/ i = j \/ j < i
  OBVIOUS
<1> QED  BY <1>1, <1>3, <1>4, LessOrder

(* Two lists agree on their first n records and b has the later one at     *)
(* n + 1.  If r is in both, it comes after that, which a does not have.    *)
LEMMA OnlyOneHasIt ==
  ASSUME NEW a \in Seq(Records), Descending(a), NEW b \in Seq(Records), Descending(b),
         NEW n \in Nat, n + 1 \in 1..Len(a), n + 1 \in 1..Len(b),
         \A k \in 1..n : Key(a[k]) = Key(b[k]),
         Less(a[n + 1], b[n + 1]),
         NEW r \in Records, NEW x \in 1..Len(a), Key(a[x]) = Key(r), n < x
  PROVE  /\ Less(r, b[n + 1])
         /\ \A v \in 1..Len(a) : Key(a[v]) # Key(b[n + 1])
<1> DEFINE y == n + 1
<1>1. y \in 1..Len(a) /\ y \in 1..Len(b) /\ Len(a) \in Nat /\ Len(b) \in Nat /\ y <= x
  OBVIOUS
<1>2. a[y] \in Records /\ b[y] \in Records /\ a[x] \in Records /\ Less(a[y], b[y])
  BY <1>1
<1> HIDE DEF y
<1>3. Less(r, b[y])
  <2>1. CASE y = x
    BY <1>2, <2>1, LessOrder
  <2>2. CASE y < x
    <3>1. Less(a[x], a[y])
      BY <1>1, <2>2, Positions
    <3>2. Less(a[x], b[y])
      BY <1>2, <3>1, LessOrder
    <3> QED  BY <1>2, <3>2, LessOrder
  <2> QED  BY <1>1, <2>1, <2>2 DEF y
<1>4. ASSUME NEW v \in 1..Len(a), Key(a[v]) = Key(b[y]) PROVE FALSE
  <2>1. a[v] \in Records
    OBVIOUS
  <2>2. Less(a[y], a[v])
    BY <1>2, <1>4, <2>1, LessOrder
  <2>3. v < y
    BY <1>1, <2>2, Positions
  <2>4. v \in 1..n /\ v \in 1..Len(b)
    BY <1>1, <2>3 DEF y
  <2>5. Key(b[v]) = Key(b[y])
    BY <1>4, <2>4
  <2> QED  BY <1>1, <2>3, <2>4, <2>5, Positions
<1> QED  BY <1>3, <1>4 DEF y

(* The first n lists have the key of r; they all have what comes before it. *)
InAll(L, n, r) == \A m \in 1..n : \E k \in 1..Len(L[m]) : Key(L[m][k]) = Key(r)

Agreed(L, n, r) ==
  \A m \in 1..n : \A k \in 1..Len(L[m]) : Less(r, L[m][k]) => InAll(L, n, L[m][k])

LEMMA PrefixReaches ==
  ASSUME NEW n \in Nat \ {0}, NEW L, GoodLists(L, n), NEW s, CommonPrefix(s, L, n),
         NEW r \in Records, InAll(L, n, r), Agreed(L, n, r)
  PROVE  \E k \in 1..Len(s) : Key(s[k]) = Key(r)
<1> SUFFICES ASSUME ~\E k \in 1..Len(s) : Key(s[k]) = Key(r) PROVE FALSE
  OBVIOUS
<1> DEFINE a == L[1]
           y == Len(s) + 1
<1>1. /\ 1 \in 1..n /\ a \in Seq(Records) /\ Descending(a)
      /\ s \in Seq(Records) /\ Len(s) \in Nat /\ Len(a) \in Nat /\ Len(s) <= Len(a)
      /\ \A k \in 1..Len(s) : s[k] = a[k]
  BY DEF GoodLists, CommonPrefix
<1>2. PICK x \in 1..Len(a) : Key(a[x]) = Key(r)
  BY <1>1 DEF InAll
<1>3. Len(s) < x /\ y \in 1..Len(a)
  BY <1>1, <1>2
<1>4. PICK m \in 1..n : Len(s) < Len(L[m]) => Key(L[m][y]) # Key(a[y])
  BY <1>1, <1>3 DEF CommonPrefix
<1> DEFINE b == L[m]
<1>5. /\ b \in Seq(Records) /\ Descending(b) /\ Len(b) \in Nat /\ Len(s) <= Len(b)
      /\ \A k \in 1..Len(s) : Key(b[k]) = Key(s[k])
  BY DEF GoodLists, CommonPrefix
<1>6. PICK z \in 1..Len(b) : Key(b[z]) = Key(r)
  BY DEF InAll
<1>7. Len(s) < z /\ y \in 1..Len(b)
  <2>1. z \notin 1..Len(s)
    BY <1>5, <1>6
  <2> HIDE DEF b
  <2> QED  BY <1>1, <1>5, <2>1
<1>8. a[y] \in Records /\ b[y] \in Records /\ Key(b[y]) # Key(a[y])
  BY <1>1, <1>3, <1>4, <1>5, <1>7
<1>9. \A k \in 1..Len(s) : Key(a[k]) = Key(b[k]) /\ Key(b[k]) = Key(a[k])
  BY <1>1, <1>5
<1>10. /\ Less(r, b[y]) => \E v \in 1..Len(a) : Key(a[v]) = Key(b[y])
       /\ Less(r, a[y]) => \E v \in 1..Len(b) : Key(b[v]) = Key(a[y])
  BY <1>1, <1>3, <1>7 DEF Agreed, InAll
<1> HIDE DEF a, b
<1>11. CASE Less(a[y], b[y])
  <2>1. Less(r, b[y]) /\ \A v \in 1..Len(a) : Key(a[v]) # Key(b[y])
    BY <1>1, <1>2, <1>3, <1>5, <1>7, <1>9, <1>11, OnlyOneHasIt
  <2> QED  BY <1>10, <2>1
<1>12. CASE Less(b[y], a[y])
  <2>1. Less(r, a[y]) /\ \A v \in 1..Len(b) : Key(b[v]) # Key(a[y])
    BY <1>1, <1>3, <1>5, <1>6, <1>7, <1>9, <1>12, OnlyOneHasIt
  <2> QED  BY <1>10, <2>1
<1> QED  BY <1>8, <1>11, <1>12, LessOrder

-----------------------------------------------------------------------------
(* What the invariant says of the summary.                                 *)

(* Each list of a merge holds what is wanted of one producer and of one    *)
(* backend that answered.                                                  *)
LEMMA ListsHoldTheWanted ==
  ASSUME IInv, NEW p \in CommonProducers, NEW n \in 1..Len(responses)
  PROVE  /\ responses[n] \in Answering
         /\ \A k \in 1..Len(Lists(p)[n]) :
              Lists(p)[n][k] \in Wanted(responses[n]) /\ Lists(p)[n][k].producer = p
         /\ \A r \in Wanted(responses[n]) : r.producer = p =>
              \E k \in 1..Len(Lists(p)[n]) : Lists(p)[n][k] = r
<1>1. responses \in Seq(BackendSet) /\ n \in DOMAIN responses
  BY DEF IInv, Types
<1>2. responses[n] \in BackendSet /\ query[responses[n]] = "answered"
  BY <1>1 DEF IInv, Collected
<1>3. Listed(responses[n])
  BY <1>2 DEF IInv
<1>4. /\ Lists(p)[n] = records[responses[n]][p] /\ p \in DOMAIN records[responses[n]]
      /\ Lists(p)[n] \in Seq(Records)
  BY ListsAreGood DEF IInv, RecordsOf, GoodLists
<1>5. Range(Lists(p)[n]) = {r \in Wanted(responses[n]) : r.producer = p}
  BY <1>2, <1>3, <1>4 DEF Listed
<1>6. DOMAIN Lists(p)[n] = 1..Len(Lists(p)[n])
  BY <1>4
<1>7. ASSUME NEW k \in 1..Len(Lists(p)[n])
      PROVE  Lists(p)[n][k] \in Wanted(responses[n]) /\ Lists(p)[n][k].producer = p
  <2>1. Lists(p)[n][k] \in Range(Lists(p)[n])
    BY <1>6 DEF Range
  <2> QED  BY <1>5, <2>1
<1>8. ASSUME NEW r \in Wanted(responses[n]), r.producer = p
      PROVE  \E k \in 1..Len(Lists(p)[n]) : Lists(p)[n][k] = r
  <2>1. r \in Range(Lists(p)[n])
    BY <1>5, <1>8
  <2> QED  BY <1>6, <2>1 DEF Range
<1> QED  BY <1>2, <1>7, <1>8 DEF Answering

LEMMA AnsweringResponded ==
  ASSUME IInv, phase = "done", NEW b \in Answering
  PROVE  Len(responses) \in Nat \ {0} /\ \E n \in 1..Len(responses) : responses[n] = b
<1>1. b \in Range(responses) /\ responses \in Seq(BackendSet)
  BY DEF IInv, Collected, Types
<1> QED  BY <1>1 DEF Range

(* The summary of each producer is a common prefix. *)
LEMMA SummaryIsPrefix ==
  ASSUME IInv, phase \in {"merging", "intersecting", "done"}, NEW p \in DOMAIN summary
  PROVE  /\ p \in CommonProducers /\ Len(responses) \in Nat \ {0}
         /\ GoodLists(Lists(p), Len(responses))
         /\ summary[p] # <<>> /\ CommonPrefix(summary[p], Lists(p), Len(responses))
<1>1. responses # <<>>
  BY DEF IInv, Merged, Nothing
<1>2. /\ p \in CommonProducers
      /\ summary[p] # <<>> /\ CommonPrefix(summary[p], Lists(p), Len(responses))
  BY <1>1 DEF IInv, Merged
<1>3. Len(responses) \in Nat \ {0}
  BY <1>1 DEF IInv, Types
<1> QED  BY <1>2, <1>3, ListsAreGood DEF IInv

LEMMA Typed == IInv => TypeOK
<1> SUFFICES ASSUME IInv PROVE TypeOK
  OBVIOUS
<1>1. ASSUME NEW b \in BackendSet, NEW p \in DOMAIN records[b]
      PROVE  records[b][p] \in Seq(Records) /\ Descending(records[b][p])
  BY <1>1 DEF IInv, Listed, Nothing
<1>2. /\ <<>> \in Seq(Records) /\ Descending(<<>>)
  BY DEF Descending
<1>3. mergedRecords \in Seq(Records) /\ Descending(mergedRecords)
  BY <1>2, InHand DEF IInv, Intersected
<1>4. tempRecords \in Seq(Records) /\ Descending(tempRecords)
  <2>1. CASE phase = "intersecting" /\ next <= Len(responses)
    <3>1. /\ mergedRecords \in Seq(Records) /\ Descending(mergedRecords)
          /\ Cursors(mergedRecords, Others, tempRecords, first1, first2)
      BY <2>1, InHand
    <3>2. /\ tempRecords \in Seq(Records) /\ Len(tempRecords) <= Len(mergedRecords)
          /\ \A k \in 1..Len(tempRecords) : tempRecords[k] = mergedRecords[k]
      BY <3>1 DEF Cursors
    <3>3. \A k \in DOMAIN tempRecords : k \in 1..Len(tempRecords) /\ k \in DOMAIN mergedRecords
      BY <3>1, <3>2
    <3> QED  BY <3>1, <3>2, <3>3 DEF Descending
  <2>2. CASE ~(phase = "intersecting" /\ next <= Len(responses))
    BY <1>2, <2>2 DEF IInv, Intersected
  <2> QED  BY <2>1, <2>2
<1>5. ASSUME NEW p \in DOMAIN summary
      PROVE  summary[p] \in Seq(Records) /\ summary[p] # <<>> /\ Descending(summary[p])
  <2>1. CASE phase \in {"merging", "intersecting", "done"}
    BY <1>5, <2>1, SummaryIsPrefix, PrefixDescends
  <2>2. CASE phase \in {"received", "refused", "querying"}
    BY <1>5, <2>2 DEF IInv, Merged, Nothing
  <2> QED  BY <2>1, <2>2 DEF IInv, Types
<1> QED  BY <1>1, <1>3, <1>4, <1>5 DEF IInv, Types, TypeOK

LEMMA OnlyCommon == IInv => SummaryIsCommon
<1> SUFFICES ASSUME IInv, phase = "done", NEW r \in Summarised
             PROVE  Common(r) /\ \E b \in Answering : r \in Wanted(b)
  BY DEF SummaryIsCommon
<1>1. PICK p \in DOMAIN summary : r \in Range(summary[p])
  BY DEF Summarised
<1> DEFINE L == Lists(p)
<1>2. /\ p \in CommonProducers /\ Len(responses) \in Nat \ {0}
      /\ CommonPrefix(summary[p], L, Len(responses))
  BY SummaryIsPrefix
<1>3. PICK k \in 1..Len(summary[p]) : r = summary[p][k]
  <2>1. summary[p] \in Seq(Records)
    BY <1>2 DEF CommonPrefix
  <2> QED  BY <1>1, <2>1 DEF Range
<1>4. ASSUME NEW m \in 1..Len(responses)
      PROVE  /\ responses[m] \in Answering /\ k \in 1..Len(L[m])
             /\ L[m][k] \in Wanted(responses[m]) /\ L[m][k].producer = p
             /\ Key(L[m][k]) = Key(r)
  <2>1. Len(summary[p]) <= Len(L[m]) /\ Key(L[m][k]) = Key(summary[p][k])
    BY <1>2 DEF CommonPrefix
  <2>2. Len(L[m]) \in Nat /\ Len(summary[p]) \in Nat
    BY <1>2, ListsAreGood DEF CommonPrefix, GoodLists, IInv
  <2>3. k \in 1..Len(L[m])
    BY <2>1, <2>2
  <2> QED  BY <1>2, <1>3, <2>1, <2>3, ListsHoldTheWanted
<1>5. r = L[1][k] /\ 1 \in 1..Len(responses)
  BY <1>2, <1>3 DEF CommonPrefix
<1>6. r.producer = p /\ responses[1] \in Answering /\ r \in Wanted(responses[1])
  BY <1>4, <1>5
<1>7. ASSUME NEW b \in Answering PROVE Has(b, r)
  <2>1. PICK m \in 1..Len(responses) : responses[m] = b
    BY AnsweringResponded
  <2> QED  BY <1>4, <1>6, <2>1 DEF Has
<1> QED  BY <1>6, <1>7 DEF Common

LEMMA AgreedIsKept == IInv => AgreementIsKept
<1> SUFFICES ASSUME IInv, phase = "done", NEW b \in Answering, NEW r \in Wanted(b), Common(r),
                    \A c \in Answering : \A s \in Wanted(c) :
                      s.producer = r.producer /\ Less(r, s) => Common(s)
             PROVE  \E s \in Summarised : s.producer = r.producer /\ Key(s) = Key(r)
  BY DEF AgreementIsKept
<1> DEFINE p == r.producer
           L == Lists(p)
           N == Len(responses)
<1>1. N \in Nat \ {0} /\ DOMAIN responses = 1..N /\ responses # <<>>
  BY AnsweringResponded DEF IInv, Types
<1>2. r \in Records
  BY DEF IInv, Types, Wanted, Answering
<1>3. \A n \in 1..N : responses[n] \in Answering
  BY <1>1 DEF IInv, Types, Collected, Answering
<1>4. p \in CommonProducers
  <2>1. ASSUME NEW n \in 1..N PROVE p \in DOMAIN records[responses[n]]
    <3>1. PICK s \in Wanted(responses[n]) : s.producer = p
      BY <1>3 DEF Common, Has
    <3>2. responses[n] \in BackendSet /\ query[responses[n]] = "answered"
      BY <1>3 DEF Answering
    <3>3. Listed(responses[n])
      BY <3>2 DEF IInv
    <3>4. DOMAIN records[responses[n]] = {t.producer : t \in Wanted(responses[n])}
      BY <3>2, <3>3 DEF Listed
    <3> QED  BY <3>1, <3>4
  <2> QED  BY <1>1, <2>1 DEF CommonProducers
<1>5. GoodLists(L, N)
  BY <1>4, ListsAreGood DEF IInv
<1>6. ASSUME NEW s, Common(s), s.producer = p, NEW n \in 1..N
      PROVE  \E k \in 1..Len(L[n]) : Key(L[n][k]) = Key(s)
  <2>1. PICK t \in Wanted(responses[n]) : t.producer = p /\ Key(t) = Key(s)
    BY <1>3, <1>6 DEF Common, Has
  <2>2. PICK k \in 1..Len(L[n]) : L[n][k] = t
    BY <1>4, <2>1, ListsHoldTheWanted
  <2> QED  BY <2>1, <2>2
<1>7. ASSUME NEW m \in 1..N, NEW k \in 1..Len(L[m]), Less(r, L[m][k]), NEW l \in 1..N
      PROVE  \E v \in 1..Len(L[l]) : Key(L[l][v]) = Key(L[m][k])
  <2>1. L[m][k] \in Wanted(responses[m]) /\ L[m][k].producer = p
    BY <1>4, ListsHoldTheWanted
  <2>2. Common(L[m][k])
    BY <1>3, <1>7, <2>1
  <2> QED  BY <1>6, <2>1, <2>2
<1>8. ASSUME NEW s, CommonPrefix(s, L, N) PROVE \E k \in 1..Len(s) : Key(s[k]) = Key(r)
  <2>1. InAll(L, N, r)
    BY <1>6 DEF InAll
  <2>2. Agreed(L, N, r)
    BY <1>7 DEF Agreed, InAll
  <2>3. N \in Nat \ {0} /\ GoodLists(L, N) /\ CommonPrefix(s, L, N)
    BY <1>1, <1>5, <1>8
  <2> HIDE DEF L, N
  <2> QED  BY <1>2, <2>1, <2>2, <2>3, PrefixReaches
<1>9. p \in DOMAIN summary
  <2> SUFFICES ASSUME p \notin DOMAIN summary PROVE FALSE
    OBVIOUS
  <2>1. CommonPrefix(<<>>, L, N)
    BY <1>1, <1>4 DEF IInv, Merged
  <2> QED  BY <1>8, <2>1
<1>10. /\ CommonPrefix(summary[p], L, N) /\ 1 \in 1..N /\ summary[p] \in Seq(Records)
  BY <1>1, <1>9, SummaryIsPrefix DEF CommonPrefix
<1>11. PICK k \in 1..Len(summary[p]) : Key(summary[p][k]) = Key(r)
  BY <1>8, <1>10
<1>12. summary[p][k] \in Summarised
  BY <1>9, <1>10 DEF Summarised, Range
<1>13. summary[p][k].producer = p
  <2>1. summary[p][k] = L[1][k] /\ k \in 1..Len(L[1])
    BY <1>5, <1>10 DEF CommonPrefix, GoodLists
  <2> QED  BY <1>4, <1>10, <2>1, ListsHoldTheWanted
<1> QED  BY <1>11, <1>12, <1>13

-----------------------------------------------------------------------------
(* Exactly what a summary is.                                              *)

(* The responses merged are those of the backends that answered.  Each     *)
(* producer that all of them have is summarised by the longest common      *)
(* prefix of their lists of its records, and is absent if that is empty.   *)
SummaryIsExact ==
  phase = "done" =>
    /\ Range(responses) = Answering
    /\ responses = <<>> => summary = Nothing
    /\ responses # <<>> =>
         /\ DOMAIN summary \subseteq CommonProducers
         /\ \A p \in CommonProducers :
              CommonPrefix(IF p \in DOMAIN summary THEN summary[p] ELSE <<>>,
                           Lists(p), Len(responses))

LEMMA ExactlyThePrefix == IInv => SummaryIsExact
<1> SUFFICES ASSUME IInv, phase = "done"
             PROVE  /\ Range(responses) = Answering
                    /\ responses = <<>> => summary = Nothing
                    /\ responses # <<>> =>
                         /\ DOMAIN summary \subseteq CommonProducers
                         /\ \A p \in CommonProducers :
                              CommonPrefix(IF p \in DOMAIN summary THEN summary[p] ELSE <<>>,
                                           Lists(p), Len(responses))
  BY DEF SummaryIsExact
<1>1. Range(responses) = Answering
  <2>1. Answering \subseteq Range(responses)
    BY DEF IInv, Collected
  <2>2. \A n \in DOMAIN responses :
          responses[n] \in BackendSet /\ query[responses[n]] = "answered"
    BY DEF IInv, Collected, Types
  <2>3. Range(responses) \subseteq Answering
    BY <2>2 DEF Range, Answering
  <2> QED  BY <2>1, <2>3
<1>2. responses = <<>> => summary = Nothing
  BY DEF IInv, Merged
<1>3. ASSUME responses # <<>>, NEW p \in CommonProducers
      PROVE  CommonPrefix(IF p \in DOMAIN summary THEN summary[p] ELSE <<>>,
                          Lists(p), Len(responses))
  <2>1. CASE p \in DOMAIN summary
    BY <1>3, <2>1 DEF IInv, Merged
  <2>2. CASE p \notin DOMAIN summary
    BY <1>3, <2>2 DEF IInv, Merged
  <2> QED  BY <2>1, <2>2
<1>4. responses # <<>> => DOMAIN summary \subseteq CommonProducers
  BY DEF IInv, Merged
<1> QED  BY <1>1, <1>2, <1>3, <1>4

-----------------------------------------------------------------------------
(* What there is left to do for a summary: the queries, then the           *)
(* responses to collect, then the producers, for each its responses, and   *)
(* for each of those the records that the cursors have not passed.         *)
Pending == {b \in BackendSet : query[b] = "pending"}
Uncollected == Len(Backends) + 1 - next
Unmerged == Len(responses) + 1 - next
ToCompare == (Len(mergedRecords) + 1 - first1) + (Len(Others) + 1 - first2)

Queried ==
  \/ Pending' # Pending /\ Pending' \subseteq Pending /\ next' = next
  \/ Pending' = Pending /\ Uncollected' \in Nat /\ Uncollected' < Uncollected

Compared ==
  \/ Unmerged' \in Nat /\ Unmerged' < Unmerged
  \/ next' = next /\ ToCompare' \in Nat /\ ToCompare' < ToCompare

ClosingIn ==
  \/ phase = "querying" /\ phase' \in {"merging", "done"}
  \/ phase = "querying" /\ phase' = "querying" /\ Queried
  \/ phase = "merging" /\ phase' = "done"
  \/ /\ phase = "merging" /\ phase' = "intersecting"
     /\ commonProducers' # commonProducers /\ commonProducers' \subseteq commonProducers
  \/ /\ phase = "intersecting" /\ commonProducers' = commonProducers
     /\ \/ phase' = "merging"
        \/ phase' = "intersecting" /\ responses' = responses /\ Compared

(* Every step of a request for a summary leaves less of it to do, in the   *)
(* lexicographic order of what is left.                                    *)
SummaryComes == [][phase # "received" /\ phase' # "received" => ClosingIn]_vars

LEMMA QuerySettled ==
  ASSUME IInv, NEW b \in BackendSet, BackendAnswers(b) \/ BackendFails(b)
  PROVE  ClosingIn
<1>1. /\ phase = "querying" /\ phase' = "querying" /\ next' = next /\ query[b] = "pending"
      /\ \E outcome \in {"answered", "failed"} : query' = [query EXCEPT ![b] = outcome]
  BY DEF BackendAnswers, BackendFails
<1>2. DOMAIN query = BackendSet
  BY DEF IInv, Types
<1>3. b \in Pending /\ b \notin Pending' /\ Pending' \subseteq Pending
  BY <1>1, <1>2 DEF Pending
<1> QED  BY <1>1, <1>3 DEF ClosingIn, Queried

LEMMA ResponseCollected ==
  ASSUME IInv, Collect
  PROVE  ClosingIn
<1>1. /\ phase = "querying" /\ phase' = "querying" /\ query' = query
      /\ next <= Len(Backends) /\ next' = next + 1
  BY DEF Collect, queryVars
<1>2. Pending' = Pending
  BY <1>1 DEF Pending
<1>3. next \in Nat /\ Len(Backends) \in Nat
  BY BackendInfoAssumption DEF IInv, Types
<1>4. Uncollected' \in Nat /\ Uncollected' < Uncollected
  BY <1>1, <1>3 DEF Uncollected
<1> QED  BY <1>1, <1>2, <1>4 DEF ClosingIn, Queried

(* Two cursors within their lists, one or both of which move on. *)
LEMMA CursorsCloseIn ==
  ASSUME NEW m \in Nat, NEW o \in Nat, NEW i \in Nat, NEW j \in Nat, NEW i1, NEW j1,
         i <= m, j <= o,
         \/ i1 = i + 1 /\ j1 = j
         \/ i1 = i /\ j1 = j + 1
         \/ i1 = i + 1 /\ j1 = j + 1,
         NEW before, NEW after,
         /\ before = (m + 1 - i) + (o + 1 - j)
         /\ after = (m + 1 - i1) + (o + 1 - j1)
  PROVE  after \in Nat /\ after < before
  OBVIOUS

LEMMA ListClosesIn ==
  ASSUME IInv, SetIntersection
  PROVE  ClosingIn
<1>1. /\ phase = "intersecting" /\ phase' = phase /\ responses' = responses
      /\ commonProducers' = commonProducers /\ producer' = producer /\ records' = records
      /\ next' = next /\ next <= Len(responses) /\ mergedRecords' = mergedRecords
      /\ first1 <= Len(mergedRecords) /\ first2 <= Len(Others)
  BY DEF SetIntersection, queryVars, More
<1>2. Others' = Others
  BY <1>1 DEF Others, RecordsOf
<1>3. /\ Len(mergedRecords) \in Nat /\ Len(Others) \in Nat
      /\ first1 \in Nat /\ first2 \in Nat
  <2>1. mergedRecords \in Seq(Records) /\ Others \in Seq(Records)
    BY <1>1, InHand
  <2> QED  BY <2>1 DEF IInv, Types
<1>4. \/ first1' = first1 + 1 /\ first2' = first2
      \/ first1' = first1 /\ first2' = first2 + 1
      \/ first1' = first1 + 1 /\ first2' = first2 + 1
  BY DEF SetIntersection
<1> HIDE DEF Others
<1>5. /\ ToCompare = (Len(mergedRecords) + 1 - first1) + (Len(Others) + 1 - first2)
      /\ ToCompare' = (Len(mergedRecords) + 1 - first1') + (Len(Others) + 1 - first2')
  BY <1>1, <1>2 DEF ToCompare
<1> HIDE DEF ToCompare
<1>a. first1 <= Len(mergedRecords) /\ first2 <= Len(Others)
  BY <1>1
<1>6. ToCompare' \in Nat /\ ToCompare' < ToCompare
  BY <1>a, <1>3, <1>4, <1>5, CursorsCloseIn
<1> QED  BY <1>1, <1>6 DEF ClosingIn, Compared

LEMMA ResponseClosesIn ==
  ASSUME IInv, NextResponse
  PROVE  ClosingIn
<1>1. /\ phase = "intersecting" /\ phase' = phase /\ responses' = responses
      /\ commonProducers' = commonProducers
      /\ next <= Len(responses) /\ next' = next + 1
  BY DEF NextResponse
<1>2. next \in Nat /\ Len(responses) \in Nat
  BY DEF IInv, Types
<1>3. Unmerged' \in Nat /\ Unmerged' < Unmerged
  BY <1>1, <1>2 DEF Unmerged
<1> QED  BY <1>1, <1>3 DEF ClosingIn, Compared

LEMMA MergeClosesIn ==
  ASSUME IInv, Merge
  PROVE  ClosingIn
<1>1. CASE BeginMerge
  BY <1>1 DEF BeginMerge, ClosingIn
<1>2. CASE NextProducer
  <2>1. PICK p \in commonProducers : commonProducers' = commonProducers \ {p}
    BY <1>2 DEF NextProducer
  <2>2. commonProducers' # commonProducers /\ commonProducers' \subseteq commonProducers
    BY <2>1
  <2>3. phase = "merging" /\ phase' = "intersecting"
    BY <1>2 DEF NextProducer
  <2> QED  BY <2>2, <2>3 DEF ClosingIn
<1>3. CASE ProducerMerged
  BY <1>3 DEF ProducerMerged, ClosingIn
<1>4. CASE EndMerge
  BY <1>4 DEF EndMerge, ClosingIn
<1> QED  BY <1>1, <1>2, <1>3, <1>4, ListClosesIn, ResponseClosesIn DEF Merge

-----------------------------------------------------------------------------
(* The variables have their types, and every list of records is in         *)
(* descending order, the merged ones too: the order the merge relies on is *)
(* never lost, for any number of backends.                                 *)
THEOREM TypeCorrect == Spec => []TypeOK
BY Inductive, Typed, PTL

(* Whatever the backends have and whichever fail, the summary has only     *)
(* records that were asked for and that all who answered have.             *)
THEOREM SummaryOfCommonRecords == Spec => []SummaryIsCommon
BY Inductive, OnlyCommon, PTL

(* A record that all who answered have is in the summary, if they agree on *)
(* the newer ones of its producer: set_intersection, called with the wrong *)
(* order, still finds the longest common prefix.                           *)
THEOREM AgreementSurvives == Spec => []AgreementIsKept
BY Inductive, AgreedIsKept, PTL

(* The summary is known exactly: whatever the backends have and whichever  *)
(* fail, it is the longest common prefix of the answers' lists, producer   *)
(* by producer; the order in which the producers are taken does not show.  *)
THEOREM SummaryIsTheCommonPrefix == Spec => []SummaryIsExact
BY Inductive, ExactlyThePrefix, PTL

(* A request for a summary cannot go on for ever: each query that ends,    *)
(* each response collected and each step of the merge leaves less to do,   *)
(* for any number of backends, producers and records.                      *)
THEOREM SummaryIsReached == Spec => SummaryComes
<1>1. IInv /\ [Next]_vars => [phase # "received" /\ phase' # "received" => ClosingIn]_vars
  <2> SUFFICES ASSUME IInv, Next, phase # "received", phase' # "received"
               PROVE  ClosingIn
    OBVIOUS
  <2>1. ~RequestBackendInfoSummary /\ ~Respond
    BY DEF RequestBackendInfoSummary, Respond
  <2> QED
    BY <2>1, QuerySettled, ResponseCollected, MergeClosesIn DEF Next
<1> QED  BY <1>1, Inductive, PTL DEF Spec, SummaryComes
=============================================================================
