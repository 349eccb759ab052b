------------------------------ MODULE MCBackendInfo ------------------------------
(***************************************************************************)
(* Three backends, so that a merge is merged again.  Four files of         *)
(* querydata, one of which two backends may describe differently, so that  *)
(* backends can differ on the newest or between two that they share; and   *)
(* generations of two producers, one of them with two geometries.          *)
(***************************************************************************)
EXTENDS BackendInfo

CONSTANTS b1, b2, b3, p, q, x, y, noProducer

MCBackends == <<b1, b2, b3>>

QEngineInfoRec(originTime, path, parameters) ==
  [producer |-> p, originTime |-> originTime, path |-> path, parameters |-> parameters]

GridGenerationsInfoRec(name, geometryId, analysisTime) ==
  [producer |-> name, geometryId |-> geometryId, analysisTime |-> analysisTime,
   fmiParameter |-> {x}, parameterAliases |-> {y}]

MCRecords ==
  {QEngineInfoRec(1, 1, {x, y}), QEngineInfoRec(1, 2, {x}),
   QEngineInfoRec(2, 1, {x, y}), QEngineInfoRec(2, 1, {x}), QEngineInfoRec(2, 2, {x, y}),
   GridGenerationsInfoRec(p, 1, 2), GridGenerationsInfoRec(p, 2, 1),
   GridGenerationsInfoRec(q, 1, 1)}

Request(what, name, parameters) ==
  [what |-> what, producer |-> name, parameters |-> parameters]

MCRequests ==
  {Request("qengine", noProducer, {}), Request("qengine", noProducer, {x, y}),
   Request("gridgenerations", noProducer, {y}), Request("gridgenerationsqd", p, {}),
   Request("observations", noProducer, {})}
=============================================================================
