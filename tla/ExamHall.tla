------------------------------ MODULE ExamHall ------------------------------
(***************************************************************************)
(* What the centre promises about a hall: a candidate takes one seat and   *)
(* nobody else does, a seat is bound to a paper once, and only a seat that *)
(* has been bound is served (T4 and T7).                                   *)
(***************************************************************************)
EXTENDS Integers

CONSTANTS Tokens, Seats

VARIABLES
  seating,   \* token -> seat, for candidates who took theirs
  bound,     \* seats whose paper is on record
  served     \* seats for which paper came out

Init == seating = [k \in {} |-> k] /\ bound = {} /\ served = {}

Taken == {seating[k] : k \in DOMAIN seating}

Take(k, s) ==
  /\ k \notin DOMAIN seating /\ s \notin Taken
  /\ seating' = [j \in DOMAIN seating \union {k} |-> IF j = k THEN s ELSE seating[j]]
  /\ UNCHANGED <<bound, served>>

Bind(s) ==
  /\ s \in Taken /\ s \notin bound
  /\ bound' = bound \union {s}
  /\ UNCHANGED <<seating, served>>

Serve(s) ==
  /\ s \in bound
  /\ served' = served \union {s}
  /\ UNCHANGED <<seating, bound>>

Next ==
  \/ \E k \in Tokens, s \in Seats : Take(k, s)
  \/ \E s \in Seats : Bind(s) \/ Serve(s)

Spec == Init /\ [][Next]_<<seating, bound, served>>

=============================================================================
