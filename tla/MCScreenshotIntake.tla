------------------------- MODULE MCScreenshotIntake -------------------------
(***************************************************************************)
(* Instances of ScreenshotIntake for TLC.                                  *)
(***************************************************************************)
EXTENDS ScreenshotIntake

TwoAndOne == <<2, 1>>
=============================================================================
