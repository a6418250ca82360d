--------------------------- MODULE MCRacedAnswers ---------------------------
(* Instances of RacedAnswers for TLC.                                      *)
EXTENDS RacedAnswers, TLC

CONSTANTS q1, q2

QuestionSymmetry == Permutations(Questions)

\* Of a Stop, a failure and an expiry, two in one behaviour.
TwoDisturbances == stops + failures + expiries <= 2
=============================================================================
