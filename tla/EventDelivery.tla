--------------------------- MODULE EventDelivery ---------------------------
(***************************************************************************)
(* What the event manager promises to those who add records: each record   *)
(* added is submitted to the GPU once, in a batch, and performed once,     *)
(* after the GPU has got past its batch.  EventManager implements it.      *)
(***************************************************************************)
EXTENDS Sequences

CONSTANT Records
VARIABLES phase, performed

vars == <<phase, performed>>

Init == phase = [r \in Records |-> "new"] /\ performed = <<>>

Advance(S, from, to) ==
    /\ S # {} /\ \A r \in S : phase[r] = from
    /\ phase' = [r \in Records |-> IF r \in S THEN to ELSE phase[r]]

Add == \E r \in Records : Advance({r}, "new", "queued") /\ UNCHANGED performed
SubmitBatch ==
    \E S \in SUBSET Records : Advance(S, "queued", "submitted") /\ UNCHANGED performed
Pass == \E S \in SUBSET Records : Advance(S, "submitted", "passed") /\ UNCHANGED performed
Perform ==
    \E r \in Records :
        Advance({r}, "passed", "performed") /\ performed' = Append(performed, r)

Next == Add \/ SubmitBatch \/ Pass \/ Perform

Spec == Init /\ [][Next]_vars
=============================================================================
