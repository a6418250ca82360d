------------------------- MODULE MCAutomationTurns -------------------------
(* Instances of AutomationTurns for TLC.                                   *)
EXTENDS AutomationTurns, TLC

\* The events of a rule are alike.
Symmetry == Permutations(Events)
=============================================================================
