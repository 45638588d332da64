-------------------------- MODULE ReleaseCeremony --------------------------
(***************************************************************************)
(* What a threshold release promises, whoever runs it: the key of a bundle *)
(* goes to a centre only after its T-0 has fallen due and a quorum of      *)
(* custodians has approved (header of authority/src/release.ts).           *)
(***************************************************************************)
CONSTANTS
  Custodians, Centres,
  Quorums      \* the sets of custodians who may open a bundle together

VARIABLES
  approved,   \* custodians whose approval is on record
  due,        \* a signed T-0 has passed
  opened      \* centres that can obtain the key

Init == approved = {} /\ due = FALSE /\ opened = {}

Approve(c) ==
  /\ approved' = approved \union {c}
  /\ UNCHANGED <<due, opened>>

FallDue == due' = TRUE /\ UNCHANGED <<approved, opened>>

Open(c) ==
  /\ due
  /\ \E Q \in Quorums : Q \subseteq approved
  /\ opened' = opened \union {c}
  /\ UNCHANGED <<approved, due>>

Next ==
  \/ \E c \in Custodians : Approve(c)
  \/ FallDue
  \/ \E c \in Centres : Open(c)

Spec == Init /\ [][Next]_<<approved, due, opened>>

=============================================================================
