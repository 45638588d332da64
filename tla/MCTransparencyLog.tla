------------------------- MODULE MCTransparencyLog -------------------------
(***************************************************************************)
(* TransparencyLog with small sets, for TLC.                               *)
(***************************************************************************)
EXTENDS TransparencyLog, TLC

=============================================================================
