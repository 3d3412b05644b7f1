-------------------------- MODULE MCAssessmentStart --------------------------
(* One form with a hint, posted until it is answered. *)
EXTENDS AssessmentStart, TLC

CONSTANT hint

Meanings == hint :> {"diagnostic"}
==============================================================================
