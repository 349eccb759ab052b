------------------------------- MODULE LossyStore -------------------------------
(***************************************************************************)
(* What the response cache promises to the streamers: a store that may     *)
(* forget, but that answers only with a product as it was stored, its      *)
(* metadata and its body together, under the ETag that is asked for and in *)
(* an encoding that the client takes.                                      *)
(***************************************************************************)
CONSTANTS
  Threads,
  Products,     \* [etag, enc, expires, body]
  Questions,    \* [etag, accepts]
  Identity,     \* the encoding every client takes
  Nothing

VARIABLES stored, asked, answer

storeVars == <<stored, asked, answer>>

Serves(p, q) == p.etag = q.etag /\ p.enc \in {q.accepts, Identity}

Init ==
  /\ stored = {}
  /\ asked = [t \in Threads |-> Nothing]
  /\ answer = [t \in Threads |-> Nothing]

Store ==
  /\ \E p \in Products : stored' = stored \cup {p}
  /\ UNCHANGED <<asked, answer>>

(* A question is asked, or done with. *)
Ask(t) ==
  /\ \E q \in Questions \cup {Nothing} : asked' = [asked EXCEPT ![t] = q]
  /\ answer' = [answer EXCEPT ![t] = Nothing]
  /\ UNCHANGED stored

Answer(t) ==
  /\ asked[t] # Nothing
  /\ \E p \in stored :
       Serves(p, asked[t]) /\ answer' = [answer EXCEPT ![t] = p]
  /\ UNCHANGED <<stored, asked>>

Next == Store \/ \E t \in Threads : Ask(t) \/ Answer(t)

Spec == Init /\ [][Next]_storeVars
=============================================================================
