----------------------- MODULE TransparencyLogProofs -----------------------
(***************************************************************************)
(* What holds of the transparency log for any number of tasks, events and  *)
(* time-stamping authorities.  LogInv is the inductive invariant: besides  *)
(* the invariants of TransparencyLog it says what a task that is between   *)
(* two statements may have in hand, which is what makes them inductive: a  *)
(* reserved entry links to the row before its sequence number even when    *)
(* that sequence number has been taken since.                              *)
(***************************************************************************)
EXTENDS TransparencyLog, FiniteSetTheorems, SequenceTheorems, TLAPS

\* What createCheckpoint may hold or store: a commitment to a prefix.
CoversPrefix(c, n) ==
  /\ n \in 1..Size
  /\ c.size = n
  /\ c.root = [i \in 1..n |-> entries[i - 1].hash]
  /\ c.head = entries[n - 1].hash
  /\ c.signer = Key
  /\ c.sig = Sign(Key, <<n, c.root, c.head>>)

\* What a task may have in hand.
InHandOK(w) ==
  /\ w.op = "append" =>
       /\ w.row.seq \in 0..Size
       /\ w.row = EntryRow(w.row.seq, w.row.event, PrevHash(w.row.seq))
  /\ w.op = "checkpoint" => CoversPrefix(w.row, w.row.size)
  /\ w.op = "attach" => w.size \in DOMAIN checkpoints
  /\ w.op = "evidence" =>
       /\ Len(w.rows) <= Size
       /\ \A i \in 1..Len(w.rows) : w.rows[i] = entries[i - 1]

Tables ==
  /\ IsFiniteSet(DOMAIN entries)
  /\ entries = [s \in DOMAIN entries |-> entries[s]]
  /\ checkpoints = [n \in DOMAIN checkpoints |-> checkpoints[n]]

Covered == \A n \in DOMAIN checkpoints : CoversPrefix(checkpoints[n], n)

InHand == \A t \in Tasks : InHandOK(task[t])

LogInv ==
  /\ TypeOK
  /\ Tables
  /\ ChainIntact
  /\ Covered
  /\ InHand
  /\ AckedIsStored

-----------------------------------------------------------------------------
\* A function on 1..n is a sequence of length n.
LEMMA FunctionIsSeq ==
  ASSUME NEW S, NEW n \in Nat, NEW f \in [1..n -> S]
  PROVE  f \in Seq(S) /\ Len(f) = n /\ DOMAIN f = 1..n
<1>1. f \in Seq(S)
  BY SeqDef
<1>2. Len(f) \in Nat /\ DOMAIN f = 1..Len(f)
  BY <1>1, LenProperties
<1>3. QED
  BY <1>1, <1>2

\* size() is the number of rows, and in a dense table the next free number.
LEMMA SizeFacts ==
  ASSUME LogInv
  PROVE  /\ Size \in Nat
         /\ DOMAIN entries = 0..(Size - 1)
         /\ \A s \in DOMAIN entries :
              /\ entries[s] \in EntryRows
              /\ entries[s] = EntryRow(s, entries[s].event, PrevHash(s))
<1>1. Size \in Nat
  BY FS_CardinalityType DEF LogInv, Tables, Size
<1>2. QED
  BY <1>1 DEF LogInv, TypeOK, ChainIntact, Dense, Linked

\* append reserves the first free number and the hash of the row before it.
LEMMA ReservedPlace ==
  ASSUME LogInv
  PROVE  NextSeq = Size /\ HeadHash = PrevHash(Size) /\ HeadHash \in Hashes
<1>1. CASE DOMAIN entries = {}
  <2>1. Size = 0
    BY <1>1, FS_EmptySet DEF Size
  <2>2. QED
    BY <1>1, <2>1, EmptySeq DEF NextSeq, HeadHash, PrevHash, ZeroHash, Hashes
<1>2. CASE DOMAIN entries # {}
  <2>1. Size \in Nat \ {0} /\ DOMAIN entries = 0..(Size - 1)
    BY <1>2, SizeFacts
  <2>2. HeadSeq = Size - 1
    BY <2>1 DEF HeadSeq
  <2>3. entries[Size - 1].hash \in Hashes
    BY <2>1, SizeFacts DEF EntryRows
  <2>4. QED
    BY <1>2, <2>1, <2>2, <2>3 DEF NextSeq, HeadHash, PrevHash
<1>3. QED
  BY <1>1, <1>2

\* The row built from a hash that is one, and its parts.
LEMMA EntryRowType ==
  ASSUME NEW seq \in Nat, NEW e \in Events, NEW prev \in Hashes
  PROVE  /\ EntryRow(seq, e, prev) \in EntryRows
         /\ EntryRow(seq, e, prev).seq = seq
         /\ EntryRow(seq, e, prev).event = e
         /\ EntryRow(seq, e, prev).prev = prev
<1>1. HashOf(seq, e, prev) \in Hashes
  BY DEF HashOf, Hashes
<1>2. QED
  BY <1>1 DEF EntryRow, EntryRows, Sign

\* A stored row links to the row before it, so PrevHash is a hash up to Size.
LEMMA PrevHashType ==
  ASSUME LogInv, NEW s \in 0..Size
  PROVE  PrevHash(s) \in Hashes
<1>1. CASE s = 0
  BY <1>1, EmptySeq DEF PrevHash, ZeroHash, Hashes
<1>2. CASE s # 0
  BY <1>2, SizeFacts DEF PrevHash, EntryRows
<1>3. QED
  BY <1>1, <1>2

-----------------------------------------------------------------------------
\* A step that keeps the rows there are and does not shrink the table.
Grows ==
  /\ Size' \in Nat
  /\ Size <= Size'
  /\ \A s \in 0..(Size - 1) : entries'[s] = entries[s]

\* A successful INSERT adds exactly the row with the first free number.
LEMMA InsertAtEnd ==
  ASSUME LogInv, NEW t \in Tasks, Insert(t)
  PROVE  LET row == task[t].row
         IN  /\ row \in EntryRows
             /\ row.seq = Size
             /\ row = EntryRow(Size, row.event, PrevHash(Size))
             /\ entries' = [s \in 0..Size |-> IF s = Size THEN row ELSE entries[s]]
             /\ Size' = Size + 1
             /\ IsFiniteSet(DOMAIN entries')
<1> DEFINE row == task[t].row
<1>1. Size \in Nat /\ DOMAIN entries = 0..(Size - 1)
  BY SizeFacts
<1>2. task[t] \in TaskStates /\ task[t].op = "append"
  BY DEF LogInv, TypeOK, Insert, Finish
<1>3. row \in EntryRows
  BY <1>2 DEF TaskStates, Idle
<1>4. row.seq \in 0..Size /\ row = EntryRow(row.seq, row.event, PrevHash(row.seq))
  BY <1>2 DEF LogInv, InHand, InHandOK
<1>5. row.seq = Size
  BY <1>1, <1>4 DEF Insert, Conflicts
<1>6. DOMAIN entries \union {Size} = 0..Size
  BY <1>1
<1>7. entries' = [s \in 0..Size |-> IF s = Size THEN row ELSE entries[s]]
  BY <1>5, <1>6 DEF Insert, Put
<1>8. DOMAIN entries' = 0..Size
  BY <1>7
<1>9. IsFiniteSet(0..Size) /\ Cardinality(0..Size) = Size + 1
  BY <1>1, FS_Interval
<1>10. QED
  BY <1>3, <1>4, <1>5, <1>7, <1>8, <1>9 DEF Size

\* The rows a task reads are a sequence of rows, and their hashes of hashes.
LEMMA ReadTypes ==
  ASSUME LogInv
  PROVE  /\ AllRows \in Seq(EntryRows) /\ Len(AllRows) = Size
         /\ EntryHashes \in Seq(Hashes) /\ Len(EntryHashes) = Size
<1>1. AllRows \in [1..Size -> EntryRows]
  BY SizeFacts DEF AllRows
<1>2. EntryHashes \in [1..Size -> Hashes]
  BY SizeFacts DEF EntryHashes, EntryRows
<1>3. QED
  BY <1>1, <1>2, SizeFacts, FunctionIsSeq

\* Every action but Insert leaves the entries alone, so every step grows.
LEMMA StepGrows ==
  ASSUME LogInv, [Next]_vars
  PROVE  Grows
<1>1. ASSUME NEW t \in Tasks, Insert(t)
      PROVE  Grows
  BY <1>1, InsertAtEnd, SizeFacts DEF Grows
<1>2. CASE UNCHANGED entries
  BY <1>2, SizeFacts DEF Grows, Size
<1>3. QED
  BY <1>1, <1>2 DEF Next, TaskStep, vars, Reserve, InsertRefused, ReadHashes,
     StoreCheckpoint, ReadAnchors, WriteAnchors, ReadEvidence, ExportEvidence,
     Abandon

-----------------------------------------------------------------------------
\* The row a new checkpoint is stored with commits to the whole log.
LEMMA CheckpointRowFacts ==
  ASSUME LogInv, Size > 0
  PROVE  /\ CheckpointRow(EntryHashes) \in CheckpointRows
         /\ CoversPrefix(CheckpointRow(EntryHashes), Size)
<1> DEFINE n == Len(EntryHashes)
<1>1. EntryHashes \in Roots /\ n = Size /\ n \in Nat \ {0}
  BY ReadTypes, SizeFacts DEF Roots
<1>2. EntryHashes[n] \in Hashes /\ EntryHashes[n] = entries[n - 1].hash
  <2>1. EntryHashes[n] \in Hashes
    BY <1>1, ElementOfSeq DEF Roots
  <2>2. EntryHashes[Size] = entries[Size - 1].hash
    BY SizeFacts DEF EntryHashes
  <2>3. QED
    BY <1>1, <2>1, <2>2
<1>3. <<>> \in Seq(Anchors)
  BY EmptySeq
<1>4. <<n, EntryHashes, EntryHashes[n]>> \in Nat \X Roots \X Hashes
  BY <1>1, <1>2
<1>5. CheckpointRow(EntryHashes) \in CheckpointRows
  BY <1>1, <1>2, <1>3, <1>4 DEF CheckpointRow, CheckpointRows, MerkleRoot, Sign
<1>6. CoversPrefix(CheckpointRow(EntryHashes), Size)
  <2> DEFINE c == CheckpointRow(EntryHashes)
  <2>1. /\ c.size = n /\ c.root = EntryHashes /\ c.head = EntryHashes[n]
        /\ c.signer = Key /\ c.sig = Sign(Key, <<n, EntryHashes, EntryHashes[n]>>)
    BY DEF CheckpointRow, MerkleRoot
  <2>2. EntryHashes = [i \in 1..Size |-> entries[i - 1].hash]
    BY DEF EntryHashes
  <2> HIDE DEF c, n
  <2>3. CoversPrefix(c, Size)
    BY <1>1, <1>2, <2>1, <2>2 DEF CoversPrefix
  <2>4. QED
    BY <2>3 DEF c
<1>7. QED
  BY <1>5, <1>6

\* Every step keeps the types.
LEMMA TypeStep ==
  ASSUME LogInv, [Next]_vars
  PROVE  TypeOK'
<1> USE DEF TypeOK
<1>1. TypeOK /\ Idle \in TaskStates
  BY DEF LogInv, TaskStates
<1>2. ASSUME NEW t \in Tasks, NEW e \in Events, Reserve(t, e)
      PROVE  TypeOK'
  <2>1. NextSeq \in Nat /\ HeadHash \in Hashes
    BY ReservedPlace, SizeFacts
  <2>2. [op |-> "append", row |-> EntryRow(NextSeq, e, HeadHash)] \in TaskStates
    BY <2>1, EntryRowType DEF TaskStates
  <2>3. QED
    BY <1>1, <1>2, <2>2 DEF Reserve, Start
<1>3. ASSUME NEW t \in Tasks, Insert(t)
      PROVE  TypeOK'
  <2>1. task[t].row \in EntryRows
    BY <1>3, InsertAtEnd
  <2>2. task[t].row.seq \in Nat
    BY <2>1 DEF EntryRows
  <2>3. QED
    BY <1>1, <1>3, <2>1, <2>2 DEF Insert, Finish, Put
<1>4. ASSUME NEW t \in Tasks, InsertRefused(t)
      PROVE  TypeOK'
  <2>1. task[t].row \in EntryRows
    BY <1>1, <1>4 DEF InsertRefused, Finish, TaskStates, Idle
  <2>2. task[t].row.event \in Events
    BY <2>1 DEF EntryRows
  <2>3. QED
    BY <1>1, <1>4, <2>2 DEF InsertRefused, Finish
<1>5. ASSUME NEW t \in Tasks, ReadHashes(t)
      PROVE  TypeOK'
  <2>1. [op |-> "checkpoint", row |-> CheckpointRow(EntryHashes)] \in TaskStates
    BY <1>5, CheckpointRowFacts, SizeFacts DEF ReadHashes, TaskStates
  <2>2. QED
    BY <1>1, <1>5, <2>1 DEF ReadHashes, Start
<1>6. ASSUME NEW t \in Tasks, StoreCheckpoint(t)
      PROVE  TypeOK'
  <2>1. task[t].row \in CheckpointRows
    BY <1>1, <1>6 DEF StoreCheckpoint, Finish, TaskStates, Idle
  <2>2. task[t].row.size \in Nat
    BY <2>1 DEF CheckpointRows
  <2>3. QED
    BY <1>1, <1>6, <2>1, <2>2 DEF StoreCheckpoint, Finish, Put
<1>7. ASSUME NEW t \in Tasks, NEW n \in DOMAIN checkpoints,
             NEW m \in DOMAIN checkpoints, NEW tsa \in Tsas,
             ReadAnchors(t, n, tsa, m)
      PROVE  TypeOK'
  <2>1. [tsa |-> tsa, imprint |-> checkpoints[m].root] \in Anchors
    BY <1>1 DEF Anchors, CheckpointRows
  <2>2. checkpoints[n].anchors \in Seq(Anchors) /\ n \in Nat
    BY <1>1 DEF CheckpointRows
  <2>3. [op |-> "attach", size |-> n,
         anchors |-> Append(checkpoints[n].anchors,
                            [tsa |-> tsa, imprint |-> checkpoints[m].root])]
          \in TaskStates
    BY <2>1, <2>2 DEF TaskStates
  <2>4. QED
    BY <1>1, <1>7, <2>3 DEF ReadAnchors, Start
<1>8. ASSUME NEW t \in Tasks, WriteAnchors(t)
      PROVE  TypeOK'
  <2>1. task[t].anchors \in Seq(Anchors) /\ task[t].size \in DOMAIN checkpoints
    BY <1>1, <1>8 DEF WriteAnchors, Finish, TaskStates, Idle, LogInv, InHand, InHandOK
  <2>2. WithAnchors(checkpoints[task[t].size], task[t].anchors) \in CheckpointRows
    BY <1>1, <2>1 DEF WithAnchors, CheckpointRows
  <2>3. QED
    BY <1>1, <1>8, <2>1, <2>2 DEF WriteAnchors, Finish
<1>9. ASSUME NEW t \in Tasks, ReadEvidence(t)
      PROVE  TypeOK'
  <2>1. [op |-> "evidence", rows |-> AllRows] \in TaskStates
    BY ReadTypes DEF TaskStates
  <2>2. QED
    BY <1>1, <1>9, <2>1 DEF ReadEvidence, Start
<1>10. ASSUME NEW t \in Tasks, ExportEvidence(t) \/ Abandon(t)
       PROVE  TypeOK'
  BY <1>1, <1>10 DEF ExportEvidence, Abandon, Finish
<1>11. CASE UNCHANGED vars
  BY <1>1, <1>11 DEF vars
<1>12. QED
  BY <1>2, <1>3, <1>4, <1>5, <1>6, <1>7, <1>8, <1>9, <1>10, <1>11
     DEF Next, TaskStep

\* Every step leaves the table dense and linked, and its domains finite.
LEMMA ChainStep ==
  ASSUME LogInv, [Next]_vars
  PROVE  Tables' /\ ChainIntact'
<1>1. ASSUME NEW t \in Tasks, Insert(t)
      PROVE  Tables' /\ ChainIntact'
  <2> DEFINE row == task[t].row
  <2>1. /\ row \in EntryRows
        /\ row = EntryRow(Size, row.event, PrevHash(Size))
        /\ entries' = [s \in 0..Size |-> IF s = Size THEN row ELSE entries[s]]
        /\ Size' = Size + 1
        /\ IsFiniteSet(DOMAIN entries')
        /\ Size \in Nat
    BY <1>1, InsertAtEnd, SizeFacts
  <2> HIDE DEF row
  <2>2. Dense'
    BY <2>1 DEF Dense
  <2>3. Tables'
    BY <1>1, <2>1 DEF Tables, LogInv, Insert
  <2>4. ASSUME NEW s \in 0..Size
        PROVE  PrevHash(s)' = PrevHash(s)
    BY <2>1, <2>4 DEF PrevHash
  <2>5. ASSUME NEW s \in 0..Size
        PROVE  entries'[s] = EntryRow(s, entries'[s].event, PrevHash(s)')
    <3>1. CASE s = Size
      BY <2>1, <2>4, <3>1
    <3>2. CASE s # Size
      <4>1. s \in DOMAIN entries /\ entries'[s] = entries[s]
        BY <2>1, <3>2, SizeFacts
      <4>2. QED
        BY <2>4, <4>1, SizeFacts
    <3>3. QED
      BY <3>1, <3>2
  <2>6. Linked'
    BY <2>1, <2>5 DEF Linked
  <2>7. QED
    BY <2>2, <2>3, <2>6 DEF ChainIntact
<1>2. ASSUME NEW t \in Tasks, StoreCheckpoint(t)
      PROVE  Tables' /\ ChainIntact'
  BY <1>2 DEF StoreCheckpoint, Put, LogInv, Tables, ChainIntact, Dense, Linked,
     Size, PrevHash
<1>3. ASSUME NEW t \in Tasks, WriteAnchors(t)
      PROVE  Tables' /\ ChainIntact'
  <2>1. checkpoints' = [n \in DOMAIN checkpoints' |-> checkpoints'[n]]
    BY <1>3 DEF WriteAnchors
  <2>2. QED
    BY <1>3, <2>1 DEF WriteAnchors, LogInv, Tables, ChainIntact, Dense, Linked,
       Size, PrevHash
<1>4. CASE UNCHANGED <<entries, checkpoints>>
  BY <1>4 DEF LogInv, Tables, ChainIntact, Dense, Linked, Size, PrevHash
<1>5. QED
  BY <1>1, <1>2, <1>3, <1>4 DEF Next, TaskStep, vars, Reserve, InsertRefused,
     ReadHashes, ReadAnchors, ReadEvidence, ExportEvidence, Abandon

\* A commitment to a prefix stays one while the table grows.
LEMMA CoversStable ==
  ASSUME LogInv, Grows, NEW n, NEW c, CoversPrefix(c, n)
  PROVE  CoversPrefix(c, n)'
<1>1. n \in 1..Size /\ n \in 1..Size' /\ Size \in Nat
  BY SizeFacts DEF CoversPrefix, Grows
<1>2. entries'[n - 1] = entries[n - 1]
  BY <1>1 DEF Grows
<1>3. [i \in 1..n |-> entries[i - 1].hash] = [i \in 1..n |-> entries'[i - 1].hash]
  BY <1>1 DEF Grows
<1>4. QED
  BY <1>1, <1>2, <1>3 DEF CoversPrefix

\* What a task has in hand stays in order while it waits.
LEMMA InHandStable ==
  ASSUME LogInv, Grows, DOMAIN checkpoints \subseteq DOMAIN checkpoints',
         NEW w \in TaskStates, InHandOK(w)
  PROVE  InHandOK(w)'
<1>1. Size \in Nat /\ Size' \in Nat /\ Size <= Size'
  BY SizeFacts DEF Grows
<1>2. ASSUME w.op = "append"
      PROVE  /\ w.row.seq \in 0..Size'
             /\ w.row = EntryRow(w.row.seq, w.row.event, PrevHash(w.row.seq)')
  <2>1. w.row.seq \in 0..Size /\ w.row = EntryRow(w.row.seq, w.row.event, PrevHash(w.row.seq))
    BY <1>2 DEF InHandOK
  <2>2. PrevHash(w.row.seq)' = PrevHash(w.row.seq)
    BY <1>1, <2>1 DEF PrevHash, Grows
  <2>3. QED
    BY <1>1, <2>1, <2>2
<1>3. ASSUME w.op = "checkpoint"
      PROVE  CoversPrefix(w.row, w.row.size)'
  BY <1>3, CoversStable DEF InHandOK
<1>4. ASSUME w.op = "evidence"
      PROVE  /\ Len(w.rows) <= Size'
             /\ \A i \in 1..Len(w.rows) : w.rows[i] = entries'[i - 1]
  <2>1. /\ Len(w.rows) <= Size
        /\ \A i \in 1..Len(w.rows) : w.rows[i] = entries[i - 1]
    BY <1>4 DEF InHandOK
  <2>2. Len(w.rows) \in Nat
    BY <1>4, LenProperties DEF TaskStates, Idle
  <2>3. QED
    BY <1>1, <2>1, <2>2 DEF Grows
<1>5. QED
  BY <1>2, <1>3, <1>4 DEF InHandOK

\* Stored checkpoints go on covering a prefix of the growing table.
LEMMA CoveredStep ==
  ASSUME LogInv, [Next]_vars
  PROVE  Covered' /\ DOMAIN checkpoints \subseteq DOMAIN checkpoints'
<1>1. Grows
  BY StepGrows
<1>2. ASSUME NEW n \in DOMAIN checkpoints
      PROVE  CoversPrefix(checkpoints[n], n)'
             \/ checkpoints'[n] # checkpoints[n]
  <2>1. PICK c : c = checkpoints[n]
    OBVIOUS
  <2>2. CoversPrefix(c, n)
    BY <2>1 DEF LogInv, Covered
  <2>3. CoversPrefix(c, n)'
    BY <1>1, <2>2, CoversStable
  <2>4. QED
    BY <2>1, <2>3 DEF CoversPrefix
<1>3. ASSUME NEW t \in Tasks, StoreCheckpoint(t)
      PROVE  Covered' /\ DOMAIN checkpoints \subseteq DOMAIN checkpoints'
  <2> DEFINE row == task[t].row
  <2>1. CoversPrefix(row, row.size)
    BY <1>3 DEF StoreCheckpoint, Finish, LogInv, InHand, InHandOK
  <2>2. checkpoints' = IF row.size \in DOMAIN checkpoints THEN checkpoints
                       ELSE Put(checkpoints, row.size, row)
    BY <1>3 DEF StoreCheckpoint
  <2> HIDE DEF row
  <2>3. DOMAIN checkpoints \subseteq DOMAIN checkpoints'
    BY <2>2 DEF Put
  <2>4. ASSUME NEW n \in DOMAIN checkpoints'
        PROVE  CoversPrefix(checkpoints[n], n)'
    <3>1. CASE n \in DOMAIN checkpoints
      <4>1. checkpoints'[n] = checkpoints[n]
        BY <2>2, <3>1 DEF Put
      <4>2. QED
        BY <1>2, <3>1, <4>1
    <3>2. CASE n \notin DOMAIN checkpoints
      <4>1. n = row.size /\ checkpoints'[n] = row
        BY <2>2, <2>4, <3>2 DEF Put
      <4>2. QED
        BY <1>1, <2>1, <4>1, CoversStable DEF CoversPrefix
    <3>3. QED
      BY <3>1, <3>2
  <2>5. QED
    BY <2>3, <2>4 DEF Covered
<1>4. ASSUME NEW t \in Tasks, WriteAnchors(t)
      PROVE  Covered' /\ DOMAIN checkpoints \subseteq DOMAIN checkpoints'
  <2> DEFINE k == task[t].size
             row == WithAnchors(checkpoints[k], task[t].anchors)
  <2>1. k \in DOMAIN checkpoints /\ checkpoints' = [checkpoints EXCEPT ![k] = row]
    BY <1>4 DEF WriteAnchors, Finish, LogInv, InHand, InHandOK
  <2>2. CoversPrefix(row, k)
    BY <2>1 DEF WithAnchors, CoversPrefix, LogInv, Covered
  <2> HIDE DEF k, row
  <2>3. ASSUME NEW n \in DOMAIN checkpoints
        PROVE  CoversPrefix(checkpoints[n], n)'
    <3>1. CASE n = k
      BY <1>1, <2>1, <2>2, <3>1, CoversStable DEF CoversPrefix
    <3>2. CASE n # k
      BY <1>2, <2>1, <3>2
    <3>3. QED
      BY <3>1, <3>2
  <2>4. QED
    BY <2>1, <2>3 DEF Covered
<1>5. CASE UNCHANGED checkpoints
  BY <1>2, <1>5 DEF Covered
<1>6. QED
  BY <1>3, <1>4, <1>5 DEF Next, TaskStep, vars, Reserve, Insert, InsertRefused,
     ReadHashes, ReadAnchors, ReadEvidence, ExportEvidence, Abandon

\* A task takes up only what is in order, and what it has stays in order.
LEMMA InHandStep ==
  ASSUME LogInv, [Next]_vars
  PROVE  InHand'
<1>1. Grows /\ DOMAIN checkpoints \subseteq DOMAIN checkpoints'
  BY StepGrows, CoveredStep
<1>2. TypeOK /\ Size \in Nat /\ task \in [Tasks -> TaskStates]
  BY SizeFacts DEF LogInv, TypeOK
<1>3. \A t \in Tasks : task'[t] = task[t] => InHandOK(task[t])'
  BY <1>1, <1>2, InHandStable DEF LogInv, InHand, InHandOK
<1>4. \A t \in Tasks : task'[t] = Idle => InHandOK(task[t])'
  BY DEF InHandOK, Idle
<1>5. ASSUME NEW t \in Tasks, NEW e \in Events, Reserve(t, e)
      PROVE  InHand'
  <2>1. HeadHash \in Hashes /\ HeadHash = PrevHash(Size) /\ NextSeq = Size
    BY ReservedPlace
  <2>2. task'[t] = [op |-> "append", row |-> EntryRow(Size, e, PrevHash(Size))]
    BY <1>2, <1>5, <2>1 DEF Reserve, Start
  <2>3. UNCHANGED <<entries, checkpoints>>
    BY <1>5 DEF Reserve
  <2>4. PrevHash(Size)' = PrevHash(Size) /\ Size' = Size
    BY <2>3 DEF PrevHash, Size
  <2>5. InHandOK(task[t])'
    BY <1>2, <2>1, <2>2, <2>3, <2>4, EntryRowType DEF InHandOK, PrevHash, Size
  <2>6. QED
    BY <1>2, <1>3, <1>5, <2>5 DEF InHand, Reserve, Start
<1>6. ASSUME NEW t \in Tasks, ReadHashes(t)
      PROVE  InHand'
  <2> DEFINE row == CheckpointRow(EntryHashes)
  <2>1. CoversPrefix(row, Size) /\ row.size = Size
    BY <1>2, <1>6, CheckpointRowFacts DEF ReadHashes, CoversPrefix
  <2>2. task'[t] = [op |-> "checkpoint", row |-> row]
    BY <1>2, <1>6 DEF ReadHashes, Start
  <2> HIDE DEF row
  <2>3. PICK c : c = row
    OBVIOUS
  <2>4. CoversPrefix(c, c.size)'
    BY <1>1, <2>1, <2>3, CoversStable
  <2>5. task'[t] = [op |-> "checkpoint", row |-> c]
    BY <2>2, <2>3
  <2>6. CoversPrefix(task[t].row, task[t].row.size)'
    BY <2>4, <2>5 DEF CoversPrefix
  <2>7. InHandOK(task[t])'
    BY <2>5, <2>6 DEF InHandOK
  <2>8. QED
    BY <1>2, <1>3, <1>6, <2>7 DEF InHand, ReadHashes, Start
<1>7. ASSUME NEW t \in Tasks, NEW n \in DOMAIN checkpoints,
             NEW m \in DOMAIN checkpoints, NEW tsa \in Tsas,
             ReadAnchors(t, n, tsa, m)
      PROVE  InHand'
  <2>1. InHandOK(task[t])'
    BY <1>2, <1>7 DEF ReadAnchors, Start, InHandOK
  <2>2. QED
    BY <1>2, <1>3, <1>7, <2>1 DEF InHand, ReadAnchors, Start
<1>8. ASSUME NEW t \in Tasks, ReadEvidence(t)
      PROVE  InHand'
  <2>1. Len(AllRows) = Size /\ UNCHANGED entries
    BY <1>8, ReadTypes DEF ReadEvidence
  <2>2. task'[t] = [op |-> "evidence", rows |-> AllRows]
    BY <1>2, <1>8 DEF ReadEvidence, Start
  <2>3. \A i \in 1..Size : AllRows[i] = entries[i - 1]
    BY DEF AllRows
  <2>4. InHandOK(task[t])'
    BY <1>2, <2>1, <2>2, <2>3 DEF InHandOK, Size
  <2>5. QED
    BY <1>2, <1>3, <1>8, <2>4 DEF InHand, ReadEvidence, Start
<1>9. ASSUME NEW t \in Tasks, task' = [task EXCEPT ![t] = Idle]
      PROVE  InHand'
  BY <1>2, <1>3, <1>4, <1>9 DEF InHand
<1>10. CASE UNCHANGED task
  BY <1>3, <1>10 DEF InHand
<1>11. QED
  BY <1>5, <1>6, <1>7, <1>8, <1>9, <1>10 DEF Next, TaskStep, vars, Finish, Insert,
     InsertRefused, StoreCheckpoint, WriteAnchors, ExportEvidence, Abandon

\* What a caller was given is not touched by any later step.
LEMMA AckedStep ==
  ASSUME LogInv, [Next]_vars
  PROVE  AckedIsStored'
<1>1. Size \in Nat /\ DOMAIN entries = 0..(Size - 1) /\ AckedIsStored
  BY SizeFacts DEF LogInv
<1>2. ASSUME NEW t \in Tasks, Insert(t)
      PROVE  AckedIsStored'
  <2> DEFINE row == task[t].row
  <2>1. /\ row.seq = Size
        /\ entries' = [s \in 0..Size |-> IF s = Size THEN row ELSE entries[s]]
    BY <1>2, InsertAtEnd
  <2>2. acked' = acked \union {row}
    BY <1>2 DEF Insert
  <2> HIDE DEF row
  <2>3. QED
    BY <1>1, <2>1, <2>2 DEF AckedIsStored
<1>3. CASE UNCHANGED <<entries, acked>>
  BY <1>1, <1>3 DEF AckedIsStored
<1>4. QED
  BY <1>2, <1>3 DEF Next, TaskStep, vars, Reserve, InsertRefused, ReadHashes,
     StoreCheckpoint, ReadAnchors, WriteAnchors, ReadEvidence, ExportEvidence,
     Abandon

-----------------------------------------------------------------------------
(* LogInv is an invariant of the log, whoever uses it and however their    *)
(* statements interleave (class TransparencyLog, log/src/store.ts).        *)
THEOREM LogInvariant == Spec => []LogInv
<1>1. Init => LogInv
  <2> SUFFICES ASSUME Init
               PROVE  LogInv
    OBVIOUS
  <2>1. DOMAIN entries = {} /\ DOMAIN checkpoints = {} /\ acked = {}
    BY DEF Init
  <2>2. Size = 0 /\ IsFiniteSet(DOMAIN entries)
    BY <2>1, FS_EmptySet DEF Size
  <2>3. TypeOK
    BY <2>1 DEF Init, TypeOK, TaskStates
  <2>4. Tables
    BY <2>1, <2>2 DEF Init, Tables
  <2>5. ChainIntact /\ Covered /\ AckedIsStored
    BY <2>1, <2>2 DEF ChainIntact, Dense, Linked, Covered, AckedIsStored
  <2>6. InHand
    BY DEF Init, InHand, InHandOK, Idle
  <2>7. QED
    BY <2>3, <2>4, <2>5, <2>6 DEF LogInv
<1>2. LogInv /\ [Next]_vars => LogInv'
  BY TypeStep, ChainStep, CoveredStep, InHandStep, AckedStep DEF LogInv
<1>3. QED
  BY <1>1, <1>2, PTL DEF Spec

(* Every variable keeps its type.                                          *)
THEOREM TypeCorrect == Spec => []TypeOK
<1>1. LogInv => TypeOK
  BY DEF LogInv
<1>2. QED
  BY <1>1, LogInvariant, PTL

(* I-LOG-3 for every value of the constants: the chain never breaks and no *)
(* sequence number is used twice, although append reads the head and       *)
(* inserts in two separate transactions.                                   *)
THEOREM ChainNeverBreaks == Spec => []ChainIntact
<1>1. LogInv => ChainIntact
  BY DEF LogInv
<1>2. QED
  BY <1>1, LogInvariant, PTL

(* What append resolved with stays in the log.                             *)
THEOREM AckedStays == Spec => []AckedIsStored
<1>1. LogInv => AckedIsStored
  BY DEF LogInv
<1>2. QED
  BY <1>1, LogInvariant, PTL

(* Every stored checkpoint commits to a prefix of the log, whatever was    *)
(* appended while it was being signed (createCheckpoint).                  *)
THEOREM CheckpointsCover == Spec => []CheckpointsCoverPrefix
<1>1. LogInv => CheckpointsCoverPrefix
  <2> SUFFICES ASSUME LogInv, NEW n \in DOMAIN checkpoints
               PROVE  /\ n \in 1..Size
                      /\ checkpoints[n].size = n
                      /\ checkpoints[n].root = MerkleRoot(SubSeq(EntryHashes, 1, n))
                      /\ checkpoints[n].head = entries[n - 1].hash
                      /\ CheckpointSelfOk(checkpoints[n])
    BY DEF CheckpointsCoverPrefix
  <2>1. CoversPrefix(checkpoints[n], n) /\ Size \in Nat
    BY SizeFacts DEF LogInv, Covered
  <2>2. SubSeq(EntryHashes, 1, n) = [i \in 1..n |-> entries[i - 1].hash]
    BY <2>1 DEF EntryHashes, CoversPrefix
  <2>3. QED
    BY <2>1, <2>2 DEF CoversPrefix, MerkleRoot, CheckpointSelfOk
<1>2. QED
  BY <1>1, LogInvariant, PTL

-----------------------------------------------------------------------------
\* A prefix of the stored rows, with any later set of the checkpoints, passes
\* every check of the auditor but the one on the reach of a checkpoint.
LEMMA HonestEvidence ==
  ASSUME LogInv, NEW rows \in Seq(EntryRows), Len(rows) <= Size,
         \A i \in 1..Len(rows) : rows[i] = entries[i - 1]
  PROVE  EvidenceFindings(rows, {checkpoints[n] : n \in DOMAIN checkpoints}, Key)
           \subseteq {"CHECKPOINT_OVERRUN"}
<1> DEFINE cps == {checkpoints[n] : n \in DOMAIN checkpoints}
<1>1. Len(rows) \in Nat /\ DOMAIN rows = 1..Len(rows) /\ Size \in Nat
  BY LenProperties, SizeFacts
<1>2. ASSUME NEW i \in DOMAIN rows
      PROVE  /\ i - 1 \in DOMAIN entries
             /\ rows[i] = EntryRow(i - 1, rows[i].event, PrevHash(i - 1))
  BY <1>1, SizeFacts
<1>3. ASSUME NEW i \in DOMAIN rows
      PROVE  /\ rows[i].seq = i - 1
             /\ EntrySelfOk(rows[i])
             /\ rows[i].signer = Key
             /\ i = 1 => rows[i].prev = ZeroHash
             /\ i > 1 => rows[i].prev = rows[i - 1].hash
  <2>1. /\ rows[i].seq = i - 1
        /\ EntrySelfOk(rows[i])
        /\ rows[i].signer = Key
        /\ rows[i].prev = PrevHash(i - 1)
    BY <1>2 DEF EntryRow, EntrySelfOk
  <2>2. i > 1 => rows[i - 1] = entries[i - 2]
    BY <1>1
  <2>3. QED
    BY <1>1, <2>1, <2>2 DEF PrevHash
<1>4. ChainFindings(rows, Key) = {}
  BY <1>1, <1>3 DEF ChainFindings, Raise
<1>5. ASSUME NEW c \in cps
      PROVE  /\ CheckpointSelfOk(c)
             /\ c.signer = Key
             /\ c.size <= Len(rows) => /\ c.root = RootOf(rows, c.size)
                                       /\ c.head = rows[c.size].hash
             /\ c.root = [i \in 1..c.size |-> entries[i - 1].hash]
  <2>1. PICK n \in DOMAIN checkpoints : c = checkpoints[n]
    OBVIOUS
  <2>2. CoversPrefix(c, n)
    BY <2>1 DEF LogInv, Covered
  <2>3. c.size \in 1..Size /\ CoversPrefix(c, c.size)
    BY <2>2 DEF CoversPrefix
  <2>4. ASSUME c.size <= Len(rows)
        PROVE  \A i \in 1..c.size : rows[i] = entries[i - 1]
    BY <1>1, <2>3, <2>4
  <2>5. c.size <= Len(rows) => c.root = RootOf(rows, c.size)
    BY <2>3, <2>4 DEF CoversPrefix, RootOf, MerkleRoot
  <2>6. c.size <= Len(rows) => c.head = rows[c.size].hash
    BY <1>1, <2>3, <2>4 DEF CoversPrefix
  <2>7. QED
    BY <2>3, <2>5, <2>6 DEF CoversPrefix, CheckpointSelfOk
<1> HIDE DEF cps
<1>6. CheckpointFindings(rows, cps, Key) \subseteq {"CHECKPOINT_OVERRUN"}
  <2>1. {c \in cps : CheckpointSelfOk(c)} = cps
    BY <1>5
  <2>2. ~ \E c, d \in cps : c.size = d.size /\ c.root # d.root
    BY <1>5
  <2>3. QED
    BY <1>1, <1>5, <2>1, <2>2 DEF CheckpointFindings, Raise
<1>7. QED
  BY <1>4, <1>6 DEF EvidenceFindings, cps

(* A log that only these methods ever touched is cleared by the auditor of *)
(* everything except a checkpoint newer than the exported entries          *)
(* (evidence in log/src/store.ts, verifyEvidence in log/src/verify.ts).    *)
THEOREM HonestLogIsCleared == Spec => []OnlyOverrunOfHonestLog
<1>1. Init => OnlyOverrunOfHonestLog
  BY DEF Init, OnlyOverrunOfHonestLog
<1>2. LogInv /\ OnlyOverrunOfHonestLog /\ [Next]_vars => OnlyOverrunOfHonestLog'
  <2> SUFFICES ASSUME LogInv, OnlyOverrunOfHonestLog, [Next]_vars
               PROVE  OnlyOverrunOfHonestLog'
    OBVIOUS
  <2>1. ASSUME NEW t \in Tasks, ExportEvidence(t)
        PROVE  OnlyOverrunOfHonestLog'
    <3>1. task[t] \in TaskStates /\ task[t].op = "evidence" /\ InHandOK(task[t])
      BY <2>1 DEF ExportEvidence, Finish, LogInv, TypeOK, InHand
    <3>2. task[t].rows \in Seq(EntryRows)
      BY <3>1 DEF TaskStates, Idle
    <3>3. /\ Len(task[t].rows) <= Size
          /\ \A i \in 1..Len(task[t].rows) : task[t].rows[i] = entries[i - 1]
      BY <3>1 DEF InHandOK
    <3>4. QED
      BY <2>1, <3>2, <3>3, HonestEvidence DEF ExportEvidence, OnlyOverrunOfHonestLog
  <2>2. CASE UNCHANGED answers
    BY <2>2 DEF OnlyOverrunOfHonestLog
  <2>3. QED
    BY <2>1, <2>2 DEF Next, TaskStep, vars, Reserve, Insert, InsertRefused,
       ReadHashes, StoreCheckpoint, ReadAnchors, WriteAnchors, ReadEvidence, Abandon
<1>3. QED
  BY <1>1, <1>2, LogInvariant, PTL DEF Spec

-----------------------------------------------------------------------------
\* The abstract log is the sequence of the events of the rows.
LEMMA LogBarType ==
  ASSUME LogInv
  PROVE  LogBar \in Seq(Events) /\ Len(LogBar) = Size
<1>1. LogBar \in [1..Size -> Events]
  BY SizeFacts DEF LogBar, EntryRows
<1>2. QED
  BY <1>1, SizeFacts, FunctionIsSeq

\* The events a checkpoint's root stands for are a prefix of the abstract log.
LEMMA RootIsPrefix ==
  ASSUME LogInv, NEW c, NEW n, CoversPrefix(c, n)
  PROVE  EventsOf(c.root) = A!Prefix(LogBar, n)
<1>1. n \in 1..Size /\ Size \in Nat /\ c.root = [i \in 1..n |-> entries[i - 1].hash]
  BY SizeFacts DEF CoversPrefix
<1>2. c.root \in [1..n -> Hashes]
  <2>1. ASSUME NEW i \in 1..n
        PROVE  entries[i - 1].hash \in Hashes
    <3>1. entries[i - 1] \in EntryRows
      BY <1>1, SizeFacts
    <3>2. QED
      BY <3>1 DEF EntryRows
  <2>2. QED
    BY <1>1, <2>1
<1>3. Len(c.root) = n
  BY <1>1, <1>2, FunctionIsSeq
<1>4. ASSUME NEW i \in 1..n
      PROVE  c.root[i][Len(c.root[i])][2] = LogBar[i]
  <2> DEFINE s == i - 1
  <2>1. s \in DOMAIN entries /\ c.root[i] = entries[s].hash
    BY <1>1, SizeFacts
  <2>2. /\ entries[s].hash = Append(PrevHash(s), <<s, entries[s].event>>)
        /\ PrevHash(s) \in Hashes
    <3>1. entries[s] = EntryRow(s, entries[s].event, PrevHash(s)) /\ s \in 0..Size
      BY <1>1, <2>1, SizeFacts
    <3> HIDE DEF s
    <3>2. EntryRow(s, entries[s].event, PrevHash(s)).hash
            = Append(PrevHash(s), <<s, entries[s].event>>)
      BY DEF EntryRow, HashOf
    <3>3. QED
      BY <3>1, <3>2, PrevHashType
  <2>3. entries[s].hash[Len(entries[s].hash)] = <<s, entries[s].event>>
    <3>1. Len(Append(PrevHash(s), <<s, entries[s].event>>)) = Len(PrevHash(s)) + 1
      BY <2>2 DEF Hashes
    <3>2. Append(PrevHash(s), <<s, entries[s].event>>)[Len(PrevHash(s)) + 1]
            = <<s, entries[s].event>>
      BY <2>2 DEF Hashes
    <3>3. QED
      BY <2>2, <3>1, <3>2
  <2>4. LogBar[i] = entries[s].event
    BY <1>1 DEF LogBar
  <2>5. QED
    BY <2>1, <2>3, <2>4
<1>5. EventsOf(c.root) = [i \in 1..n |-> LogBar[i]]
  BY <1>3, <1>4 DEF EventsOf
<1>6. QED
  BY <1>5 DEF A!Prefix

(* The database log implements the abstract append-only log.               *)
THEOREM LogRefinement == Spec => ImplementsAppendOnlyLog
<1>1. Init => A!Init
  <2> SUFFICES ASSUME Init
               PROVE  A!Init
    OBVIOUS
  <2>1. DOMAIN entries = {} /\ DOMAIN checkpoints = {}
    BY DEF Init
  <2>2. Size = 0
    BY <2>1, FS_EmptySet DEF Size
  <2>3. LogBar = <<>> /\ PublishedBar = {}
    BY <2>1, <2>2 DEF LogBar, PublishedBar
  <2>4. QED
    BY <2>3 DEF A!Init
<1>2. LogInv /\ [Next]_vars => [A!Next]_<<LogBar, PublishedBar>>
  <2> SUFFICES ASSUME LogInv, [Next]_vars
               PROVE  [A!Next]_<<LogBar, PublishedBar>>
    OBVIOUS
  <2>1. ASSUME NEW t \in Tasks, Insert(t)
        PROVE  \E e \in Events : A!Add(e)
    <3> DEFINE e == task[t].row.event
    <3>1. e \in Events
      BY <2>1, InsertAtEnd DEF EntryRows
    <3>2. /\ Size \in Nat /\ Size' = Size + 1
          /\ entries' = [s \in 0..Size |-> IF s = Size THEN task[t].row ELSE entries[s]]
      BY <2>1, InsertAtEnd, SizeFacts
    <3>3. LogBar' = [i \in 1..(Size + 1) |-> IF i = Size + 1 THEN e ELSE LogBar[i]]
      BY <3>2 DEF LogBar
    <3>4. LogBar' = Append(LogBar, e)
      BY <3>1, <3>2, <3>3, LogBarType
    <3>5. PublishedBar' = PublishedBar
      BY <2>1 DEF Insert, PublishedBar, EventsOf
    <3>6. QED
      BY <3>1, <3>4, <3>5 DEF A!Add
  <2>2. ASSUME NEW t \in Tasks, StoreCheckpoint(t), UNCHANGED entries
        PROVE  [A!Next]_<<LogBar, PublishedBar>>
    <3> DEFINE row == task[t].row
    <3>1. LogBar' = LogBar
      BY <2>2 DEF LogBar, Size
    <3>2. CoversPrefix(row, row.size)
      BY <2>2 DEF StoreCheckpoint, Finish, LogInv, InHand, InHandOK
    <3>3. EventsOf(row.root) = A!Prefix(LogBar, row.size) /\ row.size \in 1..Len(LogBar)
      BY <3>2, RootIsPrefix, LogBarType DEF CoversPrefix
    <3>4. CASE row.size \in DOMAIN checkpoints
      BY <2>2, <3>1, <3>4 DEF StoreCheckpoint, PublishedBar, EventsOf
    <3>5. CASE row.size \notin DOMAIN checkpoints
      <4>1. checkpoints' = Put(checkpoints, row.size, row)
        BY <2>2, <3>5 DEF StoreCheckpoint
      <4> HIDE DEF row
      <4>2. PublishedBar' = PublishedBar \union {EventsOf(row.root)}
        <5>1. /\ DOMAIN checkpoints' = DOMAIN checkpoints \union {row.size}
              /\ checkpoints'[row.size] = row
              /\ \A n \in DOMAIN checkpoints : checkpoints'[n] = checkpoints[n]
          BY <3>5, <4>1 DEF Put
        <5>2. PublishedBar' = {EventsOf(checkpoints'[n].root) : n \in DOMAIN checkpoints'}
          BY DEF PublishedBar, EventsOf
        <5>3. QED
          BY <5>1, <5>2 DEF PublishedBar
      <4>3. A!Publish(row.size)
        BY <3>1, <3>3, <4>2 DEF A!Publish
      <4>4. QED
        BY <3>3, <4>3 DEF A!Next
    <3>6. QED
      BY <3>4, <3>5
  <2>3. ASSUME NEW t \in Tasks, WriteAnchors(t)
        PROVE  UNCHANGED <<LogBar, PublishedBar>>
    <3>1. /\ task[t].size \in DOMAIN checkpoints
          /\ UNCHANGED entries
          /\ checkpoints' = [checkpoints EXCEPT ![task[t].size] =
                               WithAnchors(checkpoints[task[t].size], task[t].anchors)]
      BY <2>3 DEF WriteAnchors, Finish, LogInv, InHand, InHandOK
    <3>2. /\ DOMAIN checkpoints' = DOMAIN checkpoints
          /\ \A n \in DOMAIN checkpoints : checkpoints'[n].root = checkpoints[n].root
      BY <3>1 DEF WithAnchors
    <3>3. PublishedBar' = PublishedBar
      BY <3>2 DEF PublishedBar, EventsOf
    <3>4. QED
      BY <3>1, <3>3 DEF LogBar, Size
  <2>4. CASE UNCHANGED <<entries, checkpoints>>
    BY <2>4 DEF LogBar, PublishedBar, Size, EventsOf
  <2>5. QED
    BY <2>1, <2>2, <2>3, <2>4 DEF Next, TaskStep, vars, A!Next, Reserve,
       InsertRefused, ReadHashes, StoreCheckpoint, ReadAnchors, ReadEvidence,
       ExportEvidence, Abandon
<1>3. QED
  BY <1>1, <1>2, LogInvariant, PTL DEF Spec, ImplementsAppendOnlyLog, A!Spec, A!vars
=============================================================================
