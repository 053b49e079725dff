-------------------------- MODULE MCSchedulePlans --------------------------
(***************************************************************************)
(* Instances of SchedulePlans for TLC.                                     *)
(***************************************************************************)
EXTENDS SchedulePlans, TLC

CONSTANTS film, coated, pe, p1

OrderSpec(width) ==
  [product |-> p1, width |-> width, metre |-> FALSE, material |-> pe, pattern |-> NoPattern]

Config(active) ==
  [active |-> active, min |-> 2, max |-> 4, categories |-> {film}, patterns |-> {}]

OneSpec == {OrderSpec(2)}
OneConfig == {Config(TRUE)}

SessionSymmetry == Permutations(Orders) \cup Permutations(Plans) \cup Permutations(Sessions)
=============================================================================
