----------------------- MODULE MCCertificateAuthority -----------------------
(***************************************************************************)
(* CertificateAuthority with small sets, for TLC.                          *)
(***************************************************************************)
EXTENDS CertificateAuthority, TLC

Symmetry == Permutations(Commands)

=============================================================================
