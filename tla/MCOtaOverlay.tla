---------------------------- MODULE MCOtaOverlay ----------------------------
(* Instances of OtaOverlay for TLC.                                        *)
EXTENDS OtaOverlay

\* Version 3 needs a shell of at least version 2; the others load anywhere.
MCMinBase == [v \in Versions |-> IF v = 3 THEN 2 ELSE 1]
=============================================================================
