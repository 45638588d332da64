------------------------ MODULE MCThresholdRelease ------------------------
(***************************************************************************)
(* ThresholdRelease with small sets, for TLC, and the field of the code:   *)
(* TLC checks the assumptions of SecretSharing about it, that 3 is a       *)
(* generator among them, so what is proved of shares holds of the code's.  *)
(***************************************************************************)
EXTENDS ThresholdRelease, SecretSharing, TLC

Symmetry == Permutations(Custodians) \union Permutations(Centres)

===========================================================================
