------------------------- MODULE MCSessionCommands -------------------------
(* An instance of SessionCommands for TLC. *)
EXTENDS SessionCommands, TLC

CONSTANTS t1, t2, s1, s2, w1, w2, c1, c2, m1

Symmetry == Permutations(Txn) \cup Permutations(WorkspaceKey) \cup Permutations(CommandKey)
              \cup Permutations(MessageId) \cup Permutations(Session)
=============================================================================
