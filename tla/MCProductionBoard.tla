------------------------- MODULE MCProductionBoard -------------------------
(***************************************************************************)
(* Instances of ProductionBoard and Planner for TLC.                       *)
(***************************************************************************)
EXTENDS Planner, TLC

CONSTANTS film, coated, pe, pp, p1

OrderSpec(width, metre, material) ==
  [product |-> p1, width |-> width, metre |-> metre,
   material |-> material, pattern |-> NoPattern]

Config(active, min, max) ==
  [active |-> active, min |-> min, max |-> max, categories |-> {film}, patterns |-> {}]

\* Any one to three of these orders fit together on the machine.
QueueSpecs == {OrderSpec(2, FALSE, pe)}
QueueConfigs == {Config(TRUE, 2, 6)}

\* A wide order, and narrow ones by weight and in metres: the machine makes the
\* wide one alone, and two or three narrow ones of a kind together.
BatchSpecs == {OrderSpec(3, FALSE, pe), OrderSpec(1, FALSE, pe), OrderSpec(1, TRUE, pe)}
BatchConfigs == {Config(TRUE, 2, 3), Config(FALSE, 2, 3)}

Symmetry == Permutations(Orders) \cup Permutations(Machines)
=============================================================================
