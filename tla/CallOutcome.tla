----------------------------- MODULE CallOutcome -----------------------------
(***************************************************************************)
(* What a voice call promises about the session it opens at the backend.   *)
(* A session is begun at most once, it ends at most once, and it is saved  *)
(* or discarded only when the client said so: every other end is an        *)
(* interruption, which never extracts a memory.                            *)
(***************************************************************************)

VARIABLES outcome, asked

Decisions == {"save", "discard"}

\* What a decision makes of the session.
EndOf(d) == IF d = "save" THEN "saved" ELSE "discarded"

Init ==
    /\ outcome = "none"
    /\ asked = "nothing"

Begin ==
    /\ outcome = "none"
    /\ outcome' = "active"
    /\ UNCHANGED asked

\* The client decides once.
Ask(d) ==
    /\ asked = "nothing"
    /\ asked' = d
    /\ UNCHANGED outcome

Honour ==
    /\ outcome = "active"
    /\ asked \in Decisions
    /\ outcome' = EndOf(asked)
    /\ UNCHANGED asked

Interrupt ==
    /\ outcome = "active"
    /\ outcome' = "interrupted"
    /\ UNCHANGED asked

Next ==
    \/ Begin
    \/ \E d \in Decisions : Ask(d)
    \/ Honour
    \/ Interrupt

Spec == Init /\ [][Next]_<<outcome, asked>>
=============================================================================
