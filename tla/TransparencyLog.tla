-------------------------- MODULE TransparencyLog --------------------------
(***************************************************************************)
(* class TransparencyLog of log/src/store.ts over its SQLite file, used by *)
(* several tasks at once: the request handlers of one daemon, which take   *)
(* turns wherever a method awaits the key provider, and the processes that *)
(* open the same file (the daemon and every CLI command started beside     *)
(* it), which interleave between any two SQL statements.                   *)
(*                                                                         *)
(*  - append reads the head in an IMMEDIATE transaction, awaits the        *)
(*    signature and inserts the row in another one: Reserve, then Insert   *)
(*    or InsertRefused (the PRIMARY KEY or UNIQUE constraint fires and the *)
(*    promise is rejected);                                                *)
(*  - createCheckpoint reads every hash, awaits the signature and inserts: *)
(*    ReadHashes, then StoreCheckpoint;                                    *)
(*  - attachAnchors and evidence are two statements each, between which    *)
(*    only another process can act;                                        *)
(*  - a task may stop at any point in between (Abandon): the provider      *)
(*    rejects, or the process dies.  Committed rows survive (WAL,          *)
(*    synchronous = FULL).                                                 *)
(*                                                                         *)
(* Payloads are Events, one log has one actor and one signing key (Key).   *)
(* acked and answers are what callers were told: history variables, never  *)
(* read by an action.  MaxEntries and MaxAnchors only bound the model.     *)
(***************************************************************************)
EXTENDS LogVerify, FiniteSets

CONSTANTS
  Tasks,        \* callers of the log's methods
  Events,       \* what may be appended
  Tsas,         \* time-stamping authorities
  Key,          \* the log's signing key
  MaxEntries,   \* appends are started only below this size
  MaxAnchors    \* anchors are attached only below this number

ASSUME BoundsAreNat == MaxEntries \in Nat /\ MaxAnchors \in Nat

VARIABLES
  entries,      \* table entries: seq -> row
  checkpoints,  \* table checkpoints: size -> row
  task,         \* what each task has in hand between two statements
  acked,        \* rows append returned
  answers       \* findings of exported bundles

vars == <<entries, checkpoints, task, acked, answers>>

Hashes == Seq(Nat \X Events)
Roots  == Seq(Hashes)

EntryRows ==
  [seq: Nat, event: Events, prev: Hashes, hash: Hashes,
   signer: {Key}, sig: [key: {Key}, over: Hashes]]

Anchors == [tsa: Tsas, imprint: Roots]

CheckpointRows ==
  [size: Nat, root: Roots, head: Hashes, signer: {Key},
   sig: [key: {Key}, over: Nat \X Roots \X Hashes], anchors: Seq(Anchors)]

Idle == [op |-> "idle"]

TaskStates ==
  {Idle}
    \union [op: {"append"}, row: EntryRows]
    \union [op: {"checkpoint"}, row: CheckpointRows]
    \union [op: {"attach"}, size: Nat, anchors: Seq(Anchors)]
    \union [op: {"evidence"}, rows: Seq(EntryRows)]

-----------------------------------------------------------------------------
\* The table after a row is stored under a key.
Put(table, key, row) ==
  [k \in DOMAIN table \union {key} |-> IF k = key THEN row ELSE table[k]]

\* size(): SELECT COUNT(*).
Size == Cardinality(DOMAIN entries)

\* head(): ORDER BY seq DESC LIMIT 1.
HeadSeq == CHOOSE s \in DOMAIN entries : \A r \in DOMAIN entries : r <= s

\* Mutant: the first entry is numbered below zero.
BadNextSeq == IF DOMAIN entries = {} THEN -1 ELSE HeadSeq + 1

NextSeq  == IF DOMAIN entries = {} THEN 0 ELSE HeadSeq + 1
HeadHash == IF DOMAIN entries = {} THEN ZeroHash ELSE entries[HeadSeq].hash

\* Rows in seq order; there is no gap between them (Dense).
AllRows    == [i \in 1..Size |-> entries[i - 1]]
EntryHashes == [i \in 1..Size |-> entries[i - 1].hash]

\* The row append builds from what it reserved: hashed, then signed.
EntryRow(seq, event, prev) ==
  [seq |-> seq, event |-> event, prev |-> prev,
   hash |-> HashOf(seq, event, prev),
   signer |-> Key, sig |-> Sign(Key, HashOf(seq, event, prev))]

\* The row createCheckpoint builds from the hashes it read.
CheckpointRow(hashes) ==
  [size |-> Len(hashes), root |-> MerkleRoot(hashes), head |-> hashes[Len(hashes)],
   signer |-> Key,
   sig |-> Sign(Key, <<Len(hashes), MerkleRoot(hashes), hashes[Len(hashes)]>>),
   anchors |-> <<>>]

\* UPDATE checkpoints SET anchors: every other column stays.
WithAnchors(row, anchors) ==
  [size |-> row.size, root |-> row.root, head |-> row.head,
   signer |-> row.signer, sig |-> row.sig, anchors |-> anchors]

Start(t, state) ==
  /\ task[t] = Idle
  /\ task' = [task EXCEPT ![t] = state]

Finish(t, op) ==
  /\ task[t].op = op
  /\ task' = [task EXCEPT ![t] = Idle]

-----------------------------------------------------------------------------
Init ==
  /\ entries = [s \in {} |-> Idle]
  /\ checkpoints = [n \in {} |-> Idle]
  /\ task = [t \in Tasks |-> Idle]
  /\ acked = {}
  /\ answers = {}

\* append, up to the await: the head is read, the entry built on top of it.
Reserve(t, e) ==
  /\ Size < MaxEntries
  /\ Start(t, [op |-> "append", row |-> EntryRow(NextSeq, e, HeadHash)])
  /\ UNCHANGED <<entries, checkpoints, acked, answers>>

\* Mutant: INSERT OR REPLACE, no constraint ever fires.
NoConflicts(row) == FALSE

Conflicts(row) ==
  \/ row.seq \in DOMAIN entries
  \/ \E s \in DOMAIN entries : entries[s].hash = row.hash

\* Mutant: the row takes the next free number when it is inserted, and keeps
\* the hash and the link it was built with.
InsertRenumbered(t) ==
  LET row == [task[t].row EXCEPT !.seq = NextSeq]
  IN  /\ Finish(t, "append")
      /\ entries' = Put(entries, row.seq, row)
      /\ acked' = acked \union {row}
      /\ UNCHANGED <<checkpoints, answers>>

\* append, after the await: INSERT INTO entries.
Insert(t) ==
  LET row == task[t].row
  IN  /\ Finish(t, "append")
      /\ ~Conflicts(row)
      /\ entries' = Put(entries, row.seq, row)
      /\ acked' = acked \union {row}
      /\ UNCHANGED <<checkpoints, answers>>

InsertRefused(t) ==
  LET row == task[t].row
  IN  /\ Finish(t, "append")
      /\ Conflicts(row)
      /\ UNCHANGED <<entries, checkpoints, acked, answers>>

\* createCheckpoint, up to the await; it throws when the log is empty.
ReadHashes(t) ==
  /\ Size > 0
  /\ Start(t, [op |-> "checkpoint", row |-> CheckpointRow(EntryHashes)])
  /\ UNCHANGED <<entries, checkpoints, acked, answers>>

\* Mutant: the size is read again after the await, the root is not.
StoreAtCurrentSize(t) ==
  LET row == [task[t].row EXCEPT !.size = Size]
  IN  /\ Finish(t, "checkpoint")
      /\ checkpoints' = IF row.size \in DOMAIN checkpoints
                        THEN checkpoints
                        ELSE Put(checkpoints, row.size, row)
      /\ UNCHANGED <<entries, acked, answers>>

\* createCheckpoint, after the await: ON CONFLICT(size) DO NOTHING.
StoreCheckpoint(t) ==
  LET row == task[t].row
  IN  /\ Finish(t, "checkpoint")
      /\ checkpoints' = IF row.size \in DOMAIN checkpoints
                        THEN checkpoints
                        ELSE Put(checkpoints, row.size, row)
      /\ UNCHANGED <<entries, acked, answers>>

(***************************************************************************)
(* attachAnchors: SELECT the checkpoint, refuse an anchor whose imprint is *)
(* not its root, and UPDATE with the merged list.  The anchor is one some  *)
(* authority issued for the root of a stored checkpoint, not necessarily   *)
(* of this one.                                                            *)
(***************************************************************************)
ReadAnchors(t, n, tsa, issuedFor) ==
  LET row    == checkpoints[n]
      anchor == [tsa |-> tsa, imprint |-> checkpoints[issuedFor].root]
  IN  /\ Len(row.anchors) < MaxAnchors
      /\ anchor.imprint = row.root
      /\ Start(t, [op |-> "attach", size |-> n,
                   anchors |-> Append(row.anchors, anchor)])
      /\ UNCHANGED <<entries, checkpoints, acked, answers>>

WriteAnchors(t) ==
  LET w == task[t]
  IN  /\ Finish(t, "attach")
      /\ checkpoints' = [checkpoints EXCEPT
                            ![w.size] = WithAnchors(checkpoints[w.size], w.anchors)]
      /\ UNCHANGED <<entries, acked, answers>>

\* evidence(): first the entries, then the checkpoints, no transaction.
ReadEvidence(t) ==
  /\ Start(t, [op |-> "evidence", rows |-> AllRows])
  /\ UNCHANGED <<entries, checkpoints, acked, answers>>

\* The bundle leaves with the checkpoints of now and the auditor verifies it.
ExportEvidence(t) ==
  /\ Finish(t, "evidence")
  /\ answers' = answers \union
       EvidenceFindings(task[t].rows,
                        {checkpoints[n] : n \in DOMAIN checkpoints}, Key)
  /\ UNCHANGED <<entries, checkpoints, acked>>

\* The provider rejects, or the task's process dies.
Abandon(t) ==
  /\ task[t] # Idle
  /\ task' = [task EXCEPT ![t] = Idle]
  /\ UNCHANGED <<entries, checkpoints, acked, answers>>

TaskStep(t) ==
  \/ \E e \in Events : Reserve(t, e)
  \/ Insert(t)
  \/ InsertRefused(t)
  \/ ReadHashes(t)
  \/ StoreCheckpoint(t)
  \/ \E n, m \in DOMAIN checkpoints, tsa \in Tsas : ReadAnchors(t, n, tsa, m)
  \/ WriteAnchors(t)
  \/ ReadEvidence(t)
  \/ ExportEvidence(t)
  \/ Abandon(t)

Next == \E t \in Tasks : TaskStep(t)

Spec == Init /\ [][Next]_vars

-----------------------------------------------------------------------------
(* Every variable holds a value of its type; what a task holds is one of   *)
(* the intermediate results of the method it is in.                        *)
TypeOK ==
  /\ DOMAIN entries \subseteq Nat
  /\ \A s \in DOMAIN entries : entries[s] \in EntryRows
  /\ DOMAIN checkpoints \subseteq Nat
  /\ \A n \in DOMAIN checkpoints : checkpoints[n] \in CheckpointRows
  /\ task \in [Tasks -> TaskStates]
  /\ acked \subseteq EntryRows

\* No sequence number is skipped or used twice (the seq of the table).
Dense == DOMAIN entries = 0..(Size - 1)

\* The hash the entry with sequence number s has to name as its predecessor.
PrevHash(s) == IF s = 0 THEN ZeroHash ELSE entries[s - 1].hash

Linked ==
  \A s \in DOMAIN entries :
    entries[s] = EntryRow(s, entries[s].event, PrevHash(s))

(* I-LOG-3: whatever the writers do between reading the head and inserting *)
(* on top of it, the stored rows are dense from 0, each one is hashed,     *)
(* signed and linked to the row before it.                                 *)
ChainIntact == Dense /\ Linked

(* An entry whose append resolved is in the log for good, at the sequence  *)
(* number and with the hash its caller was given.                          *)
AckedIsStored ==
  \A row \in acked : row.seq \in DOMAIN entries /\ entries[row.seq] = row

(* A stored checkpoint commits to the first size entries of the log as it  *)
(* is now, although the log may have grown, and other checkpoints may have *)
(* been taken, between the moment its hashes were read and the moment it   *)
(* was stored.                                                             *)
CheckpointsCoverPrefix ==
  \A n \in DOMAIN checkpoints :
    /\ n \in 1..Size
    /\ checkpoints[n].size = n
    /\ checkpoints[n].root = MerkleRoot(SubSeq(EntryHashes, 1, n))
    /\ checkpoints[n].head = entries[n - 1].hash
    /\ CheckpointSelfOk(checkpoints[n])

(* The only thing an auditor can hold against a log that nobody tampered   *)
(* with is a checkpoint newer than the entries of the bundle, because      *)
(* evidence() reads the two tables one after the other.                    *)
OnlyOverrunOfHonestLog == answers \subseteq {"CHECKPOINT_OVERRUN"}

-----------------------------------------------------------------------------
\* The mapping to AppendOnlyLog: the events of the rows, and of the entries
\* behind the leaves of each stored root.
LogBar       == [i \in 1..Size |-> entries[i - 1].event]
EventsOf(hs) == [i \in 1..Len(hs) |-> hs[i][Len(hs[i])][2]]
PublishedBar == {EventsOf(checkpoints[n].root) : n \in DOMAIN checkpoints}

A == INSTANCE AppendOnlyLog WITH log <- LogBar, published <- PublishedBar

(* The database log implements the abstract one: every step of every task  *)
(* appends one event, publishes one prefix, or changes neither.            *)
ImplementsAppendOnlyLog == A!Spec

=============================================================================
