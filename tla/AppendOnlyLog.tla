--------------------------- MODULE AppendOnlyLog ---------------------------
(***************************************************************************)
(* What a transparency log promises, with no database, hash or writer in   *)
(* sight: a sequence of events that only ever grows, and a set of          *)
(* published commitments, each of them to a non-empty prefix of the        *)
(* sequence.  TransparencyLog.tla is shown to implement this module.       *)
(***************************************************************************)
EXTENDS Integers, Sequences

CONSTANT Events

VARIABLES
  log,        \* the events, in the order of their sequence numbers
  published   \* the prefixes of log that a checkpoint commits to

vars == <<log, published>>

\* The first n elements of s.
Prefix(s, n) == [i \in 1..n |-> s[i]]

Init ==
  /\ log = <<>>
  /\ published = {}

Add(e) ==
  /\ log' = Append(log, e)
  /\ UNCHANGED published

\* A commitment may be late: it covers the log as it was at some earlier time.
Publish(n) ==
  /\ published' = published \union {Prefix(log, n)}
  /\ UNCHANGED log

Next ==
  \/ \E e \in Events : Add(e)
  \/ \E n \in 1..Len(log) : Publish(n)

Spec == Init /\ [][Next]_vars

=============================================================================
