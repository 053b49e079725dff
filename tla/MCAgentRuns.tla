---------------------------- MODULE MCAgentRuns ----------------------------
(***************************************************************************)
(* Instances of AgentRuns for TLC: one process with two slots, as          *)
(* deployed, two processes with a slot each, or one slot.                  *)
(***************************************************************************)
EXTENDS AgentRuns, TLC

CONSTANTS k1, k2, w1, w2

OneProcess == [k \in {k1, k2} |-> w1]
TwoProcesses == (k1 :> w1) @@ (k2 :> w2)
Lonely == (k1 :> w1)

\* Nothing distinguishes one identifier of a run, or of a session, from another.
RowSymmetry == Permutations(Runs) \cup Permutations(Sessions)
=============================================================================
