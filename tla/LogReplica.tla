---------------------------- MODULE LogReplica ----------------------------
(***************************************************************************)
(* What a reader of a growing log is promised: it shows a prefix of what   *)
(* was published, never goes back, and catches up as long as it may read.  *)
(***************************************************************************)
EXTENDS Naturals

VARIABLES published, shown, readable

vars == <<published, shown, readable>>

Init == published \in Nat /\ shown = 0 /\ readable \in BOOLEAN

Publish == published' > published /\ UNCHANGED <<shown, readable>>

Show ==
  /\ readable
  /\ shown' \in (shown + 1)..published
  /\ UNCHANGED <<published, readable>>

\* Access is lost or comes back.  An answer given before may still be shown.
Permit == readable' = ~readable /\ UNCHANGED <<published, shown>>
ShowLate == ~readable /\ shown' \in (shown + 1)..published /\ UNCHANGED <<published, readable>>

Next == Publish \/ Show \/ Permit \/ ShowLate

Spec == Init /\ [][Next]_vars

FairSpec == Spec /\ WF_vars(Show)
=============================================================================
