---------------------------- MODULE MCOtaStaging ----------------------------
(* Instances of OtaStaging for TLC.                                        *)
EXTENDS OtaStaging, TLC

CONSTANTS d1, d2

DownloadSymmetry == Permutations(Downloads)
=============================================================================
