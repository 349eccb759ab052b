---------------------------- MODULE MCResponseCache ----------------------------
(***************************************************************************)
(* Two threads; one ETag with two encodings; two bodies, either of which   *)
(* may have been stored under either key, so that one body is shared by    *)
(* two entries and an entry may change its body.  The threads are alike.   *)
(***************************************************************************)
EXTENDS ResponseCache, TLC

CONSTANTS t1, t2, nothing

MCThreads  == {t1, t2}
MCSymmetry == Permutations(MCThreads)

MCHashOf  == [b \in {"b1", "b2"} |-> IF b = "b1" THEN 1 ELSE 2]
=============================================================================
