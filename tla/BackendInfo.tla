------------------------------- MODULE BackendInfo -------------------------------
(***************************************************************************)
(* The summary of what the backends offer: requestBackendInfoSummary asks  *)
(* every backend that serves the request, leaves out those that fail, and  *)
(* merges the others' records into those that all of them have.            *)
(*                                                                         *)
(* The merge is modelled by its loops, down to the cursors of              *)
(* std::set_intersection, since it depends on an order of the records that *)
(* is not the one they are sorted by.  Of a record there is what           *)
(* operator< compares and what the filter looks up; producers, hosts,      *)
(* paths and parameters are opaque, or numbers where their order counts.   *)
(***************************************************************************)
EXTENDS Naturals, FiniteSets, Sequences, Functions

CONSTANTS
  Backends,     \* a sequence: by host and port, each once
  Records,      \* of QEngineInfoRec and of GridGenerationsInfoRec
  Requests,     \* [what, producer, parameters]
  NoProducer    \* the request names no producer

VARIABLES
  phase,        \* "received", "refused", "querying", "merging", "intersecting", "done"
  request,
  \* the queries and their results
  query,        \* of each backend: "none", "pending", "failed" or "answered"
  held,         \* external: the backend's records of the kind asked for
  records,      \* BackendInfoResponse::records of its answer, by producer
  responses,    \* the backends whose responses are merged
  next,         \* the backend, then the response, that the loop comes to next
  \* the merge
  commonProducers,   \* those that are left
  producer,
  mergedRecords, tempRecords,
  first1, first2,    \* the cursors of std::set_intersection
  summary            \* the merged records of each producer

queryVars == <<query, held, records>>
mergeVars == <<producer, mergedRecords, tempRecords, first1, first2>>
vars == <<phase, request, queryVars, responses, next, commonProducers, mergeVars, summary>>

BackendSet == Range(Backends)
Nothing == [p \in {} |-> <<>>]

-----------------------------------------------------------------------------
(* Records.                                                                *)

IsGrid(r) == "geometryId" \in DOMAIN r

(* What the two operators < compare, in this order; the producers are the  *)
(* same wherever they are used.                                            *)
QEngineKey(r) == <<r.originTime, r.path>>
GridKey(r) == <<r.geometryId, r.analysisTime>>

Key(r) == IF IsGrid(r) THEN GridKey(r) ELSE QEngineKey(r)

Less(a, b) == \/ Key(a)[1] < Key(b)[1]
              \/ Key(a)[1] = Key(b)[1] /\ Key(a)[2] < Key(b)[2]

Parameters(r) == IF IsGrid(r) THEN r.fmiParameter \cup r.parameterAliases
                 ELSE r.parameters

(* Mutant: one of the parameters is enough. *)
RecordFilterOfAny(r) ==
  /\ request.producer \in {NoProducer, r.producer}
  /\ request.parameters # {} => request.parameters \cap Parameters(r) # {}

RecordFilter(r) ==
  /\ request.producer \in {NoProducer, r.producer}
  /\ request.parameters \subseteq Parameters(r)

(* A backend has one record of a producer for a key; two backends may      *)
(* differ in what they say of it.                                          *)
Offer == {offered \in SUBSET {r \in Records : IsGrid(r) <=> request.what # "qengine"} :
            \A r, s \in offered : r.producer = s.producer /\ Key(r) = Key(s) => r = s}

(* Mutant: the oldest record comes first. *)
SortedAscending(offered) ==
  {s \in [1..Cardinality(offered) -> offered] :
     \A m, n \in DOMAIN s : m < n => Less(s[m], s[n])}

Sorted(offered) ==
  {s \in [1..Cardinality(offered) -> offered] :
     Range(s) = offered /\ \A m, n \in DOMAIN s : m < n => Less(s[n], s[m])}

(* A producer is there only if a record of it has passed the filter. *)
BackendInfoResponse(offered) ==
  LET Passed(p) == {r \in offered : RecordFilter(r) /\ r.producer = p}
      producers == {r.producer : r \in {s \in offered : RecordFilter(s)}}
  IN  {f \in [producers -> UNION {Sorted(Passed(p)) : p \in producers}] :
         \A p \in producers : f[p] \in Sorted(Passed(p))}

ASSUME BackendInfoAssumption ==
  /\ Backends \in Seq(BackendSet)
  /\ IsFiniteSet(Records)
  /\ \A r \in Records : Key(r) \in Nat \X Nat /\ r.producer # NoProducer

-----------------------------------------------------------------------------
Init ==
  /\ phase = "received" /\ request \in Requests
  /\ query = [b \in BackendSet |-> "none"]
  /\ held = [b \in BackendSet |-> {}] /\ records = [b \in BackendSet |-> Nothing]
  /\ responses = <<>> /\ next = 1
  /\ commonProducers = {} /\ producer = NoProducer
  /\ mergedRecords = <<>> /\ tempRecords = <<>> /\ first1 = 1 /\ first2 = 1
  /\ summary = Nothing

Supported == {"qengine", "gridgenerations", "gridgenerationsqd"}

(* Sputnik names the backends that serve the request. *)
RequestBackendInfoSummary ==
  /\ phase = "received"
  /\ \/ /\ request.what \in Supported
        /\ \E asked \in SUBSET BackendSet :
             query' = [b \in BackendSet |-> IF b \in asked THEN "pending" ELSE "none"]
        /\ phase' = "querying"
     \/ /\ request.what \notin Supported
        /\ phase' = "refused" /\ UNCHANGED query
  /\ UNCHANGED <<request, held, records, responses, next, commonProducers, mergeVars, summary>>

BackendAnswers(b) ==
  /\ phase = "querying" /\ query[b] = "pending"
  /\ query' = [query EXCEPT ![b] = "answered"]
  /\ \E offered \in Offer : /\ held' = [held EXCEPT ![b] = offered]
                            /\ \E f \in BackendInfoResponse(offered) :
                                 records' = [records EXCEPT ![b] = f]
  /\ UNCHANGED <<phase, request, responses, next, commonProducers, mergeVars, summary>>

(* Mutant: a query that has failed is made again. *)
BackendFailsRetried(b) ==
  /\ phase = "querying" /\ query[b] = "pending"
  /\ UNCHANGED vars

(* An error, ten seconds without an answer, a status that is not ok, or    *)
(* content of which one record cannot be parsed.                           *)
BackendFails(b) ==
  /\ phase = "querying" /\ query[b] = "pending"
  /\ query' = [query EXCEPT ![b] = "failed"]
  /\ UNCHANGED <<phase, request, held, records, responses, next, commonProducers, mergeVars,
                 summary>>

Executed == \A b \in BackendSet : query[b] # "pending"

(* Mutant: what a failed backend has not said counts as no records. *)
CollectFailedToo ==
  /\ phase = "querying" /\ Executed /\ next <= Len(Backends)
  /\ responses' = (IF query[Backends[next]] # "none" THEN Append(responses, Backends[next])
                   ELSE responses)
  /\ next' = next + 1
  /\ UNCHANGED <<phase, request, queryVars, commonProducers, mergeVars, summary>>

Collect ==
  /\ phase = "querying" /\ Executed /\ next <= Len(Backends)
  /\ responses' = (IF query[Backends[next]] = "answered"
                   THEN Append(responses, Backends[next]) ELSE responses)
  /\ next' = next + 1
  /\ UNCHANGED <<phase, request, queryVars, commonProducers, mergeVars, summary>>

-----------------------------------------------------------------------------
(* The merge of the responses.                                             *)

RecordsOf(n, p) == records[responses[n]][p]

CommonProducers ==
  {p \in DOMAIN records[responses[1]] :
     \A n \in DOMAIN responses : p \in DOMAIN records[responses[n]]}

(* Without a response there is no summary ("no data"). *)
BeginMerge ==
  /\ phase = "querying" /\ Executed /\ next > Len(Backends)
  /\ \/ /\ responses = <<>>
        /\ phase' = "done" /\ UNCHANGED commonProducers
     \/ /\ responses # <<>>
        /\ phase' = "merging" /\ commonProducers' = CommonProducers
  /\ UNCHANGED <<request, queryVars, responses, next, mergeVars, summary>>

(* The first response's records, with which those of the others are        *)
(* intersected.                                                            *)
NextProducer ==
  /\ phase = "merging"
  /\ \E p \in commonProducers :
       /\ producer' = p /\ commonProducers' = commonProducers \ {p}
       /\ mergedRecords' = RecordsOf(1, p)
  /\ next' = 2 /\ phase' = "intersecting"
  /\ UNCHANGED <<request, queryVars, responses, tempRecords, first1, first2, summary>>

Others == RecordsOf(next, producer)
More == first1 <= Len(mergedRecords) /\ first2 <= Len(Others)

(* One step of std::set_intersection, with the comparison it is given. *)
SetIntersection ==
  /\ phase = "intersecting" /\ next <= Len(responses) /\ More
  /\ \/ /\ Less(mergedRecords[first1], Others[first2])
        /\ first1' = first1 + 1 /\ UNCHANGED <<tempRecords, first2>>
     \/ /\ Less(Others[first2], mergedRecords[first1])
        /\ first2' = first2 + 1 /\ UNCHANGED <<tempRecords, first1>>
     \/ /\ ~Less(mergedRecords[first1], Others[first2])
        /\ ~Less(Others[first2], mergedRecords[first1])
        /\ tempRecords' = Append(tempRecords, mergedRecords[first1])
        /\ first1' = first1 + 1 /\ first2' = first2 + 1
  /\ UNCHANGED <<phase, request, queryVars, responses, next, commonProducers, producer,
                 mergedRecords, summary>>

NextResponse ==
  /\ phase = "intersecting" /\ next <= Len(responses) /\ ~More
  /\ mergedRecords' = tempRecords /\ tempRecords' = <<>>
  /\ first1' = 1 /\ first2' = 1 /\ next' = next + 1
  /\ UNCHANGED <<phase, request, queryVars, responses, commonProducers, producer, summary>>

ProducerMerged ==
  /\ phase = "intersecting" /\ next > Len(responses)
  /\ summary' = (IF mergedRecords = <<>> THEN summary
                 ELSE [p \in DOMAIN summary \cup {producer} |->
                         IF p = producer THEN mergedRecords ELSE summary[p]])
  /\ phase' = "merging" /\ producer' = NoProducer /\ mergedRecords' = <<>>
  /\ UNCHANGED <<request, queryVars, responses, next, commonProducers, tempRecords,
                 first1, first2>>

EndMerge ==
  /\ phase = "merging" /\ commonProducers = {}
  /\ phase' = "done"
  /\ UNCHANGED <<request, queryVars, responses, next, commonProducers, mergeVars, summary>>

(* The answer is sent, and another request comes. *)
Respond ==
  /\ phase \in {"done", "refused"}
  /\ phase' = "received" /\ request' \in Requests
  /\ query' = [b \in BackendSet |-> "none"]
  /\ held' = [b \in BackendSet |-> {}] /\ records' = [b \in BackendSet |-> Nothing]
  /\ responses' = <<>> /\ next' = 1 /\ summary' = Nothing
  /\ UNCHANGED <<commonProducers, mergeVars>>

Merge == \/ BeginMerge \/ NextProducer \/ SetIntersection \/ NextResponse
         \/ ProducerMerged \/ EndMerge

Next ==
  \/ RequestBackendInfoSummary
  \/ \E b \in BackendSet : BackendAnswers(b) \/ BackendFails(b)
  \/ Collect \/ Merge
  \/ Respond

Spec == Init /\ [][Next]_vars

(* The thread runs, and TcpMultiQuery ends a query after ten seconds; no   *)
(* backend is assumed to answer.                                           *)
FairSpec ==
  /\ Spec
  /\ WF_vars(Collect \/ Merge)
  /\ \A b \in BackendSet : WF_vars(BackendFails(b))

-----------------------------------------------------------------------------
(* Properties.                                                             *)

(* The types, and that records are listed in descending order, also after  *)
(* any number of merges.                                                   *)
Descending(s) == \A m, n \in DOMAIN s : m < n => Less(s[n], s[m])

TypeOK ==
  /\ phase \in {"received", "refused", "querying", "merging", "intersecting", "done"}
  /\ request \in Requests
  /\ query \in [BackendSet -> {"none", "pending", "failed", "answered"}]
  /\ held \in [BackendSet -> SUBSET Records]
  /\ responses \in Seq(BackendSet) /\ next \in Nat \ {0}
  /\ \A b \in BackendSet : \A p \in DOMAIN records[b] :
       records[b][p] \in Seq(Records) /\ Descending(records[b][p])
  /\ mergedRecords \in Seq(Records) /\ Descending(mergedRecords)
  /\ tempRecords \in Seq(Records) /\ Descending(tempRecords)
  /\ first1 \in Nat \ {0} /\ first2 \in Nat \ {0}
  /\ \A p \in DOMAIN summary :
       summary[p] \in Seq(Records) /\ summary[p] # <<>> /\ Descending(summary[p])

(* The records of b that are asked for, and the backends that answered. *)
Wanted(b) == {r \in held[b] : /\ request.producer \in {NoProducer, r.producer}
                              /\ \A x \in request.parameters : x \in Parameters(r)}
Answering == {b \in BackendSet : query[b] = "answered"}

(* b has a record of the same producer with the same key as r, and it is   *)
(* asked for.                                                              *)
Has(b, r) == \E s \in Wanted(b) : s.producer = r.producer /\ Key(s) = Key(r)

Common(r) == \A b \in Answering : Has(b, r)

Summarised == UNION {Range(summary[p]) : p \in DOMAIN summary}

(* "Keeping only common records for all responses": whatever backends fail *)
(* and however the others differ, a record in the summary is one that was  *)
(* asked for, as some backend tells it, and that every backend that        *)
(* answered has.                                                           *)
SummaryIsCommon ==
  phase = "done" => \A r \in Summarised :
    Common(r) /\ \E b \in Answering : r \in Wanted(b)

(* A common record is in the summary at least if the backends that         *)
(* answered agree on the records of its producer that come before it: a    *)
(* backend that fails takes nothing out of it.                             *)
AgreementIsKept ==
  phase = "done" => \A b \in Answering : \A r \in Wanted(b) :
    /\ Common(r)
    /\ \A c \in Answering : \A s \in Wanted(c) :
         s.producer = r.producer /\ Less(r, s) => Common(s)
    => \E s \in Summarised : s.producer = r.producer /\ Key(s) = Key(r)

(* Every request for a summary gets one, whatever backends answer.         *)
SummaryGiven == phase = "querying" ~> phase = "done"

(* "One can use std::set_intersection to find common records": the summary *)
(* has every common record.                                                *)
AllCommonFound ==
  phase = "done" => \A b \in Answering : \A r \in Wanted(b) :
    Common(r) => \E s \in Summarised : s.producer = r.producer /\ Key(s) = Key(r)
=============================================================================
