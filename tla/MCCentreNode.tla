--------------------------- MODULE MCCentreNode ---------------------------
(***************************************************************************)
(* CentreNode with small sets, for TLC.                                    *)
(***************************************************************************)
EXTENDS CentreNode, TLC

CONSTANTS s1, s2, k1, k2, k3

TwoSeats == (k1 :> s1) @@ (k2 :> s2)
\* k3 is a second token for the seat of k1.
SharedSeat == TwoSeats @@ (k3 :> s1)
Symmetry == Permutations(Hosts)
OneSeat == (k1 :> s1)

===========================================================================
