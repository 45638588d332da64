--------------------------- MODULE MCProvisioning ---------------------------
(***************************************************************************)
(* Provisioning with small sets, for TLC: three custodians, the first of   *)
(* whom still makes his keys, with two programs on his machine; the field  *)
(* with 8 elements, whose generator is 3 as well.                          *)
(***************************************************************************)
EXTENDS Provisioning, TLC

CONSTANTS identity, node, right, wrong

MCHomeOf == identity :> 1 @@ node :> 1
MCWants  == identity :> <<"box">> @@ node :> <<"sign", "box">>

Enrolment(seed) == [salt |-> seed, entries |->
  <<[name |-> "box", seed |-> seed, under |-> <<seed, right>>]>>]

\* Seeds and salts of the ready machines are above those the run draws.
MCFirstFiles == 1 :> NoFile @@ 2 :> Enrolment(102) @@ 3 :> Enrolment(103)
MCEnrolled   == 1 :> None @@ 2 :> 102 @@ 3 :> 103

\* Begun twice, it collides with itself on both seats.
MCRosters == {<<[who |-> "ann", seat |-> 1], [who |-> "bob", seat |-> 2]>>}

Symmetry == Permutations(Commands)

=============================================================================
