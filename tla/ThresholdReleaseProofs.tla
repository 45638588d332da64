----------------------- MODULE ThresholdReleaseProofs -----------------------
(***************************************************************************)
(* What holds of the threshold release for any custodians, centres,        *)
(* threshold, processes and bounds.  RelInv is the inductive invariant: a  *)
(* release writes from what it read before its first await, so it has to   *)
(* say what a task may have in hand (InHandOK), and that stays true while  *)
(* other processes act because tables, log and clock only grow.            *)
(***************************************************************************)
EXTENDS ThresholdRelease, FiniteSetTheorems, TLAPS

\* What a release that is under way has decided on.
Begun(w) ==
  /\ DOMAIN w.to \subseteq distributed
  /\ \E at \in signed : at <= w.at
  /\ w.at <= clock
  /\ DOMAIN w.shares \subseteq Custodians
  /\ Cardinality(DOMAIN w.shares) >= Threshold

\* Some KEK_RELEASED entry accounts for medium m.
Announced(m) ==
  \E f \in log : f.type = "KEK_RELEASED" /\ f.to = DOMAIN m.to /\ f.at <= m.at

CommandTypes == {"CENTRE_ENROLLED", "BUNDLE_DISTRIBUTED", "RELEASE_SCHEDULED"}

InHandOK(w) ==
  /\ w.op = "append" => w.fact.type \in CommandTypes
  /\ w.op \in {"approve", "record"} => Begun(w)
  /\ w.op = "approve" =>
       /\ w.left \subseteq DOMAIN w.shares
       /\ \A n \in DOMAIN w.shares \ w.left : ApprovedFact(n, w.shares[n]) \in log
  /\ w.op = "record" =>
       /\ w.left \subseteq DOMAIN w.to
       /\ Quorate(w.shares)
       /\ OnRecord(w.shares)
       /\ DOMAIN w.to \ w.left \subseteq DOMAIN rows
  /\ w.op = "deliver" => Announced(w.medium)

InHand == \A t \in Tasks : InHandOK(task[t])

\* How the tables relate.
Enrolled  == \A c \in distributed : keys[c] # 0
Scheduled == schedule # Unset => schedule \in signed

RelInv ==
  /\ TypeOK
  /\ Enrolled
  /\ Scheduled
  /\ InHand
  /\ OpenedByQuorum
  /\ ReleasesAreEvidenced
  /\ OutcomesAreEvidenced
  /\ FullBoxWasEarly

-----------------------------------------------------------------------------
\* What a task has in hand, by the operation it is in.
LEMMA TaskKinds ==
  ASSUME NEW w \in TaskStates
  PROVE  /\ w.op = "append" => w \in [op: {"append"}, fact: Facts]
         /\ w.op \in {"approve", "record"} => w \in Releases
         /\ w.op = "deliver" => w \in [op: {"deliver"}, medium: Media]
BY DEF TaskStates, Idle, Releases

LEMMA ReleaseFields ==
  ASSUME NEW w \in Releases
  PROVE  /\ w.shares \in Submissions /\ w.to \in Recipients
         /\ w.at \in 0..MaxTime /\ w.left \in SUBSET (Names \union Centres)
BY DEF Releases

\* The box stays a set of labelled shares when one is put into it.
LEMMA PutShare ==
  ASSUME NEW box0 \in Submissions, NEW n \in Names, NEW s \in Shares
  PROVE  Put(box0, n, s) \in Submissions
<1>1. PICK N \in SUBSET Names : box0 \in [N -> Shares]
  BY DEF Submissions
<1>2. Put(box0, n, s) \in [N \union {n} -> Shares]
  BY <1>1 DEF Put
<1>3. QED
  BY <1>2 DEF Submissions

LEMMA SubmissionFacts ==
  ASSUME NEW shares \in Submissions
  PROVE  /\ DOMAIN shares \subseteq Names
         /\ \A n \in DOMAIN shares : shares[n] \in Shares
         /\ shares = [n \in DOMAIN shares |-> shares[n]]
BY DEF Submissions

LEMMA SubmissionSize ==
  ASSUME NEW shares \in Submissions
  PROVE  Cardinality(DOMAIN shares) \in Nat
<1>1. IsFiniteSet(DOMAIN shares)
  BY SubmissionFacts, FS_Subset, CeremonyAssumption
<1>2. QED
  BY <1>1, FS_CardinalityType

LEMMA RecipientFacts ==
  ASSUME NEW to \in Recipients
  PROVE  /\ DOMAIN to \subseteq Centres
         /\ \A c \in DOMAIN to : to[c] \in 1..MaxKeys
BY DEF Recipients

LEMMA NoSharesFacts == NoShares \in Submissions /\ Cardinality(DOMAIN NoShares) = 0
<1>1. NoShares \in [{} -> Shares] /\ DOMAIN NoShares = {}
  BY DEF NoShares
<1>2. QED
  BY <1>1, FS_EmptySet DEF Submissions

\* What combines is a quorum's, once the labels and the count were checked.
LEMMA CombinedIsQuorate ==
  ASSUME NEW shares \in Submissions, Combine(shares),
         DOMAIN shares \subseteq Custodians,
         Cardinality(DOMAIN shares) >= Threshold
  PROVE  Quorate(shares)
BY SubmissionFacts DEF Combine, Quorate, Shares

\* What a release starts from, unless it is refused.
LEMMA StartedFacts ==
  ASSUME RelInv, NEW shares \in Submissions, Early \/ ~Refused(shares)
  PROVE  /\ Started(shares) \in TaskStates
         /\ InHandOK(Started(shares))
         /\ Started(shares) # Idle
<1>1. CASE Early
  BY <1>1 DEF Started, TaskStates, Idle, InHandOK
<1>2. CASE ~Early
  <2> DEFINE to == [c \in distributed |-> keys[c]]
             w  == Release("approve", shares, to, clock, DOMAIN shares)
  <2>1. Started(shares) = w
    BY <1>2 DEF Started
  <2>2. to \in Recipients /\ DOMAIN to = distributed
    <3>1. \A c \in distributed : keys[c] \in 1..MaxKeys
      BY CeremonyAssumption DEF RelInv, TypeOK, Enrolled
    <3>2. to \in [distributed -> 1..MaxKeys] /\ distributed \in SUBSET Centres
      BY <3>1 DEF RelInv, TypeOK
    <3>3. QED
      BY <3>2 DEF Recipients
  <2>3. DOMAIN shares \in SUBSET (Names \union Centres)
    BY SubmissionFacts
  <2>4. clock \in 0..MaxTime
    BY DEF RelInv, TypeOK
  <2>5. \E at \in signed : at <= clock
    BY <1>2 DEF RelInv, Scheduled, Early, Refused, TypeOK, Unset
  <2>6. Cardinality(DOMAIN shares) >= Threshold /\ DOMAIN shares \subseteq Custodians
    <3>1. Cardinality(DOMAIN shares) \in Nat
      BY SubmissionSize
    <3>2. QED
      BY <1>2, <3>1, CeremonyAssumption DEF Refused
  <2> HIDE DEF to
  <2>7. w \in TaskStates
    BY <2>2, <2>3, <2>4 DEF Release, TaskStates, Releases
  <2>8. w.op = "approve" /\ w.shares = shares /\ w.to = to /\ w.at = clock
        /\ w.left = DOMAIN shares
    BY DEF Release
  <2> HIDE DEF w
  <2>9. InHandOK(w)
    BY <2>2, <2>4, <2>5, <2>6, <2>8 DEF InHandOK, Begun
  <2>10. QED
    BY <2>1, <2>7, <2>8, <2>9 DEF Idle
<1>3. QED
  BY <1>1, <1>2

-----------------------------------------------------------------------------
\* Nothing is ever taken back: the rows, the log and the clock only grow.
LEMMA StepGrows ==
  ASSUME RelInv, [Next]_vars
  PROVE  /\ log \subseteq log'
         /\ distributed \subseteq distributed'
         /\ signed \subseteq signed'
         /\ DOMAIN rows \subseteq DOMAIN rows'
         /\ clock \in Nat /\ clock' \in Nat /\ clock <= clock'
<1>1. clock \in Nat
  BY CeremonyAssumption DEF RelInv, TypeOK
<1>2. CASE Tick
  BY <1>1, <1>2 DEF Tick, Db, Ledger
<1>3. CASE \E t \in Clis : Command(t)
  <2> SUFFICES ASSUME NEW t \in Clis, Command(t)
               PROVE  /\ log \subseteq log' /\ distributed \subseteq distributed'
                      /\ signed \subseteq signed' /\ rows' = rows /\ clock' = clock
    BY <1>1, <1>3
  <2>1. ASSUME NEW c \in Centres, EnrolCentre(t, c) \/ Distribute(t, c)
        PROVE  /\ log' = log /\ distributed \subseteq distributed'
               /\ signed' = signed /\ rows' = rows /\ clock' = clock
    BY <2>1 DEF EnrolCentre, Distribute, Ledger
  <2>2. ASSUME NEW at \in 0..MaxTime, ScheduleRelease(t, at)
        PROVE  /\ log' = log /\ distributed' = distributed
               /\ signed \subseteq signed' /\ rows' = rows /\ clock' = clock
    BY <2>2 DEF ScheduleRelease, Ledger
  <2>3. LogCommand(t) => /\ log \subseteq log' /\ distributed' = distributed
                         /\ signed' = signed /\ rows' = rows /\ clock' = clock
    BY DEF LogCommand, Db
  <2>4. QED
    BY <2>1, <2>2, <2>3 DEF Command
<1>4. CASE \E n \in Names, s \in Shares : PostShare(n, s)
  BY <1>1, <1>4 DEF PostShare, Db, Ledger
<1>5. CASE \E t \in Clis, shares \in Submissions : CliRelease(t, shares)
  BY <1>1, <1>5 DEF CliRelease, Db, Ledger
<1>6. CASE \E t \in Clis : DeliverMedium(t)
  BY <1>1, <1>6 DEF DeliverMedium, Db
<1>7. CASE \E t \in Tasks : ReleaseStep(t) \/ Fail(t)
  <2> SUFFICES ASSUME NEW t \in Tasks, ReleaseStep(t) \/ Fail(t)
               PROVE  /\ log \subseteq log' /\ distributed \subseteq distributed'
                      /\ signed \subseteq signed' /\ DOMAIN rows \subseteq DOMAIN rows'
                      /\ clock' = clock
    BY <1>1, <1>7
  <2>1. CASE \E c \in Centres : RecordRelease(t, c)
    BY <2>1 DEF RecordRelease, Put, Db
  <2>2. CASE ~\E c \in Centres : RecordRelease(t, c)
    BY <2>2 DEF ReleaseStep, RefuseEarly, Approve, Reconstruct, ReconstructFails,
       Announce, Fail, Db, Ledger
  <2>3. QED
    BY <2>1, <2>2
<1>8. CASE UNCHANGED vars
  BY <1>1, <1>8 DEF vars
<1>9. QED
  BY <1>2, <1>3, <1>4, <1>5, <1>6, <1>7, <1>8 DEF Next

\* What a task had in hand stays right, whoever takes the step.
LEMMA InHandStable ==
  ASSUME RelInv, [Next]_vars, NEW w \in TaskStates, InHandOK(w)
  PROVE  InHandOK(w)'
<1>1. w.op \in {"approve", "record"} => Begun(w)'
  <2> SUFFICES ASSUME w.op \in {"approve", "record"}
               PROVE  Begun(w)'
    OBVIOUS
  <2>1. w.at \in Nat /\ Begun(w)
    BY TaskKinds, ReleaseFields, CeremonyAssumption DEF InHandOK
  <2>2. QED
    BY <2>1, StepGrows DEF Begun
<1>2. w.op = "deliver" => Announced(w.medium)'
  BY StepGrows DEF InHandOK, Announced
<1>3. w.op = "record" => OnRecord(w.shares)' /\ DOMAIN w.to \ w.left \subseteq DOMAIN rows'
  BY StepGrows DEF InHandOK, OnRecord
<1>4. w.op = "approve" =>
        \A n \in DOMAIN w.shares \ w.left : ApprovedFact(n, w.shares[n]) \in log'
  BY StepGrows DEF InHandOK
<1>5. QED
  BY <1>1, <1>2, <1>3, <1>4 DEF InHandOK

-----------------------------------------------------------------------------
\* A step of task t that leaves it with w keeps what every task has in hand.
LEMMA Handed ==
  ASSUME RelInv, [Next]_vars, NEW t \in Tasks, NEW w \in TaskStates,
         InHandOK(w)', Become(t, w)
  PROVE  InHand' /\ task' \in [Tasks -> TaskStates]
<1>1. task \in [Tasks -> TaskStates]
  BY DEF RelInv, TypeOK
<1>2. ASSUME NEW u \in Tasks
      PROVE  InHandOK(task[u])'
  <2>1. CASE u = t
    BY <1>1, <2>1 DEF Become
  <2>2. CASE u # t
    <3>1. task'[u] = task[u] /\ task[u] \in TaskStates /\ InHandOK(task[u])
      BY <1>1, <2>2 DEF Become, RelInv, InHand
    <3>2. PICK v \in TaskStates : v = task[u] /\ InHandOK(v)
      BY <3>1
    <3>3. InHandOK(v)'
      BY <3>2, InHandStable
    <3>4. QED
      BY <3>1, <3>2, <3>3
  <2>3. QED
    BY <2>1, <2>2
<1>3. QED
  BY <1>1, <1>2 DEF InHand, Become

\* A step that takes up or drops no work does so too.
LEMMA NothingHanded ==
  ASSUME RelInv, [Next]_vars, UNCHANGED task
  PROVE  InHand' /\ task' \in [Tasks -> TaskStates]
<1>1. task \in [Tasks -> TaskStates] /\ task' = task
  BY DEF RelInv, TypeOK
<1>2. ASSUME NEW u \in Tasks
      PROVE  InHandOK(task[u])'
  <2>1. PICK v \in TaskStates : v = task[u] /\ InHandOK(v)
    BY <1>1 DEF RelInv, InHand
  <2>2. InHandOK(v)'
    BY <2>1, InHandStable
  <2>3. QED
    BY <1>1, <2>1, <2>2
<1>3. QED
  BY <1>1, <1>2 DEF InHand

LEMMA IdleIsFree == Idle \in TaskStates /\ InHandOK(Idle) /\ InHandOK(Idle)'
BY DEF TaskStates, Idle, InHandOK

\* Handing over to a task that gives up is no harm; the rest is by the action.
LEMMA StopHands ==
  ASSUME RelInv, [Next]_vars, NEW t \in Tasks, Become(t, Idle)
  PROVE  InHand' /\ task' \in [Tasks -> TaskStates]
BY IdleIsFree, Handed

\* A command of an operator waits to append the fact it has stored.
LEMMA CommandHands ==
  ASSUME RelInv, [Next]_vars, NEW t \in Tasks, NEW f \in Facts,
         f.type \in CommandTypes, Become(t, [op |-> "append", fact |-> f])
  PROVE  InHand' /\ task' \in [Tasks -> TaskStates]
<1> DEFINE w == [op |-> "append", fact |-> f]
<1>1. w \in TaskStates
  BY DEF TaskStates
<1>2. InHandOK(w)'
  BY DEF InHandOK
<1>3. QED
  BY <1>1, <1>2, Handed

\* A release that starts holds what it has just read.
LEMMA StartHands ==
  ASSUME RelInv, [Next]_vars, NEW t \in Tasks, NEW shares \in Submissions,
         Early \/ ~Refused(shares), Become(t, Started(shares))
  PROVE  InHand' /\ task' \in [Tasks -> TaskStates]
<1>1. PICK w \in TaskStates : w = Started(shares) /\ InHandOK(w)
  BY StartedFacts
<1>2. InHandOK(w)'
  BY <1>1, InHandStable
<1>3. QED
  BY <1>1, <1>2, Handed

LEMMA ApproveHands ==
  ASSUME RelInv, [Next]_vars, NEW t \in Tasks, NEW n \in Names, Approve(t, n)
  PROVE  InHand' /\ task' \in [Tasks -> TaskStates]
<1>1. PICK r \in TaskStates : r = task[t]
  BY DEF RelInv, TypeOK
<1>2. r.op = "approve" /\ r \in Releases /\ InHandOK(r) /\ InHandOK(r)'
  BY <1>1, TaskKinds, InHandStable DEF Approve, RelInv, InHand
<1> DEFINE w == Release("approve", r.shares, r.to, r.at, r.left \ {n})
<1>3. /\ w.op = "approve" /\ w.shares = r.shares /\ w.to = r.to /\ w.at = r.at
      /\ w.left = r.left \ {n} /\ w \in TaskStates
  BY <1>2, ReleaseFields DEF Release, TaskStates, Releases
<1>4. log' = log \union {ApprovedFact(n, r.shares[n])} /\ Become(t, w)
  BY <1>1 DEF Approve
<1> HIDE DEF w
<1>5. Begun(w)'
  BY <1>2, <1>3 DEF InHandOK, Begun
<1>6. \A m \in DOMAIN w.shares \ w.left : ApprovedFact(m, w.shares[m]) \in log'
  BY <1>2, <1>3, <1>4 DEF InHandOK
<1>7. InHandOK(w)'
  BY <1>2, <1>3, <1>5, <1>6 DEF InHandOK
<1>8. QED
  BY <1>3, <1>4, <1>7, Handed

LEMMA ReconstructHands ==
  ASSUME RelInv, [Next]_vars, NEW t \in Tasks, Reconstruct(t)
  PROVE  InHand' /\ task' \in [Tasks -> TaskStates]
<1>1. PICK r \in TaskStates : r = task[t]
  BY DEF RelInv, TypeOK
<1>2. r.op = "approve" /\ r \in Releases /\ InHandOK(r) /\ InHandOK(r)'
  BY <1>1, TaskKinds, InHandStable DEF Reconstruct, RelInv, InHand
<1> DEFINE w == Release("record", r.shares, r.to, r.at, DOMAIN r.to)
<1>3. DOMAIN r.to \subseteq Centres
  BY <1>2, ReleaseFields, RecipientFacts
<1>4. /\ w.op = "record" /\ w.shares = r.shares /\ w.to = r.to /\ w.at = r.at
      /\ w.left = DOMAIN r.to /\ w \in TaskStates
  BY <1>2, <1>3, ReleaseFields DEF Release, TaskStates, Releases
<1>5. Become(t, w) /\ Combine(r.shares) /\ r.left = {}
  BY <1>1 DEF Reconstruct
<1> HIDE DEF w
<1>6. Begun(w)'
  BY <1>2, <1>4 DEF InHandOK, Begun
<1>7. Quorate(w.shares)
  BY <1>2, <1>4, <1>5, CombinedIsQuorate, ReleaseFields DEF InHandOK, Begun
<1>8. OnRecord(w.shares)'
  BY <1>2, <1>4, <1>5 DEF InHandOK, OnRecord
<1>9. InHandOK(w)'
  BY <1>4, <1>6, <1>7, <1>8 DEF InHandOK, Quorate
<1>10. QED
  BY <1>4, <1>5, <1>9, Handed

LEMMA RecordHands ==
  ASSUME RelInv, [Next]_vars, NEW t \in Tasks, NEW c \in Centres, RecordRelease(t, c)
  PROVE  InHand' /\ task' \in [Tasks -> TaskStates]
<1>1. PICK r \in TaskStates : r = task[t]
  BY DEF RelInv, TypeOK
<1>2. r.op = "record" /\ r \in Releases /\ InHandOK(r) /\ InHandOK(r)'
  BY <1>1, TaskKinds, InHandStable DEF RecordRelease, RelInv, InHand
<1> DEFINE w == Release("record", r.shares, r.to, r.at, r.left \ {c})
<1>3. /\ w.op = "record" /\ w.shares = r.shares /\ w.to = r.to /\ w.at = r.at
      /\ w.left = r.left \ {c} /\ w \in TaskStates
  BY <1>2, ReleaseFields DEF Release, TaskStates, Releases
<1>4. Become(t, w) /\ DOMAIN rows' = DOMAIN rows \union {c}
  BY <1>1 DEF RecordRelease, Put
<1> HIDE DEF w
<1>5. Begun(w)' /\ Quorate(w.shares) /\ OnRecord(w.shares)'
  BY <1>2, <1>3 DEF InHandOK, Begun
<1>6. DOMAIN w.to \ w.left \subseteq DOMAIN rows'
  BY <1>2, <1>3, <1>4 DEF InHandOK
<1>7. InHandOK(w)'
  BY <1>2, <1>3, <1>5, <1>6 DEF InHandOK, Quorate
<1>8. QED
  BY <1>3, <1>4, <1>7, Handed

LEMMA AnnounceHands ==
  ASSUME RelInv, [Next]_vars, NEW t \in Tasks, Announce(t)
  PROVE  InHand' /\ task' \in [Tasks -> TaskStates]
<1>1. PICK r \in TaskStates : r = task[t]
  BY DEF RelInv, TypeOK
<1>2. r.op = "record" /\ r \in Releases /\ InHandOK(r)
  BY <1>1, TaskKinds DEF Announce, RelInv, InHand
<1>3. CASE Stop(t)
  BY <1>3, StopHands DEF Stop
<1>4. CASE Become(t, [op |-> "deliver", medium |-> [to |-> r.to, at |-> clock]])
  <2>1. PICK m \in Media : m = [to |-> r.to, at |-> clock]
    BY <1>2, ReleaseFields DEF Media, RelInv, TypeOK
  <2> DEFINE w == [op |-> "deliver", medium |-> m]
  <2>2. w \in TaskStates
    BY DEF TaskStates
  <2>3. ReleasedFact(r) \in log'
    BY <1>1 DEF Announce
  <2>4. ReleasedFact(r).type = "KEK_RELEASED" /\ ReleasedFact(r).to = DOMAIN r.to
        /\ ReleasedFact(r).at = r.at
    BY DEF ReleasedFact
  <2>5. Announced(m)'
    BY <1>2, <2>1, <2>3, <2>4 DEF Announced, InHandOK, Begun
  <2>6. InHandOK(w)'
    BY <2>5 DEF InHandOK
  <2>7. QED
    BY <1>4, <2>1, <2>2, <2>6, Handed
<1>5. QED
  BY <1>1, <1>3, <1>4 DEF Announce

-----------------------------------------------------------------------------
\* Every step keeps what the tasks have in hand.
LEMMA HandStep ==
  ASSUME RelInv, [Next]_vars
  PROVE  InHand' /\ task' \in [Tasks -> TaskStates]
<1>1. CASE Tick \/ UNCHANGED vars
  BY <1>1, NothingHanded DEF Tick, vars
<1>2. ASSUME NEW t \in Clis, Command(t)
      PROVE  InHand' /\ task' \in [Tasks -> TaskStates]
  <2>1. t \in Tasks
    BY DEF Tasks
  <2>2. ASSUME NEW c \in Centres, EnrolCentre(t, c)
        PROVE  InHand' /\ task' \in [Tasks -> TaskStates]
    <3>1. keys[c] + 1 \in 1..MaxKeys
      BY <2>2, CeremonyAssumption DEF EnrolCentre, RelInv, TypeOK
    <3>2. EnrolledFact(c, keys[c] + 1) \in Facts
          /\ EnrolledFact(c, keys[c] + 1).type \in CommandTypes
      BY <3>1 DEF Facts, EnrolledFact, CommandTypes
    <3>3. QED
      BY <2>1, <2>2, <3>2, CommandHands DEF EnrolCentre
  <2>3. ASSUME NEW c \in Centres, Distribute(t, c)
        PROVE  InHand' /\ task' \in [Tasks -> TaskStates]
    <3>1. DistributedFact(c) \in Facts /\ DistributedFact(c).type \in CommandTypes
      BY DEF Facts, DistributedFact, CommandTypes
    <3>2. QED
      BY <2>1, <2>3, <3>1, CommandHands DEF Distribute
  <2>4. ASSUME NEW at \in 0..MaxTime, ScheduleRelease(t, at)
        PROVE  InHand' /\ task' \in [Tasks -> TaskStates]
    <3>1. ScheduledFact(at) \in Facts /\ ScheduledFact(at).type \in CommandTypes
      BY DEF Facts, ScheduledFact, CommandTypes
    <3>2. QED
      BY <2>1, <2>4, <3>1, CommandHands DEF ScheduleRelease
  <2>5. LogCommand(t) => InHand' /\ task' \in [Tasks -> TaskStates]
    BY <2>1, StopHands DEF LogCommand
  <2>6. QED
    BY <1>2, <2>2, <2>3, <2>4, <2>5 DEF Command
<1>3. ASSUME NEW n \in Names, NEW s \in Shares, PostShare(n, s)
      PROVE  InHand' /\ task' \in [Tasks -> TaskStates]
  <2>1. Put(box, n, s) \in Submissions /\ Daemon \in Tasks
    BY PutShare DEF RelInv, TypeOK, Tasks
  <2>2. \/ UNCHANGED task
        \/ /\ Early \/ ~Refused(Put(box, n, s))
           /\ Become(Daemon, Started(Put(box, n, s)))
    BY <1>3 DEF PostShare
  <2>3. QED
    BY <2>1, <2>2, NothingHanded, StartHands
<1>4. ASSUME NEW t \in Clis, NEW shares \in Submissions, CliRelease(t, shares)
      PROVE  InHand' /\ task' \in [Tasks -> TaskStates]
  BY <1>4, StartHands DEF CliRelease, Tasks
<1>5. ASSUME NEW t \in Clis, DeliverMedium(t)
      PROVE  InHand' /\ task' \in [Tasks -> TaskStates]
  BY <1>5, StopHands DEF DeliverMedium, Tasks
<1>6. ASSUME NEW t \in Tasks, ReleaseStep(t) \/ Fail(t)
      PROVE  InHand' /\ task' \in [Tasks -> TaskStates]
  <2>1. RefuseEarly(t) \/ ReconstructFails(t) \/ Fail(t)
          => InHand' /\ task' \in [Tasks -> TaskStates]
    BY StopHands DEF RefuseEarly, ReconstructFails, Fail, Stop
  <2>2. QED
    BY <1>6, <2>1, ApproveHands, ReconstructHands, RecordHands, AnnounceHands
       DEF ReleaseStep
<1>7. QED
  BY <1>1, <1>2, <1>3, <1>4, <1>5, <1>6 DEF Next

-----------------------------------------------------------------------------
\* The types of everything but the tasks.
Stored ==
  /\ clock \in 0..MaxTime
  /\ keys \in [Centres -> 0..MaxKeys]
  /\ distributed \in SUBSET Centres
  /\ schedule \in {Unset} \union 0..MaxTime
  /\ DOMAIN rows \subseteq Centres
  /\ \A c \in DOMAIN rows : rows[c] \in [key: 1..MaxKeys, at: 0..MaxTime]
  /\ log \subseteq Facts
  /\ box \in Submissions
  /\ media \subseteq Media
  /\ signed \in SUBSET (0..MaxTime)
  /\ told \in SUBSET {"TOO_EARLY", "RELEASED"}
  /\ faults \in 0..MaxFaults

LEMMA CommandStores ==
  ASSUME RelInv, NEW t \in Clis, Command(t)
  PROVE  Stored' /\ Enrolled' /\ Scheduled'
<1> USE CeremonyAssumption DEF Stored, Enrolled, Scheduled
<1>0. Stored /\ Enrolled /\ Scheduled /\ t \in Tasks
  BY DEF RelInv, TypeOK, Tasks
<1>1. ASSUME NEW c \in Centres, EnrolCentre(t, c)
      PROVE  Stored' /\ Enrolled' /\ Scheduled'
  <2>1. keys[c] + 1 \in 1..MaxKeys
    BY <1>0, <1>1 DEF EnrolCentre
  <2>2. keys' \in [Centres -> 0..MaxKeys]
    BY <1>0, <1>1, <2>1 DEF EnrolCentre
  <2>3. \A d \in distributed : keys'[d] # 0
    BY <1>0, <1>1, <2>1 DEF EnrolCentre
  <2>4. QED
    BY <1>0, <1>1, <2>2, <2>3 DEF EnrolCentre, Ledger
<1>2. ASSUME NEW c \in Centres, Distribute(t, c)
      PROVE  Stored' /\ Enrolled' /\ Scheduled'
  BY <1>0, <1>2 DEF Distribute, Ledger
<1>3. ASSUME NEW at \in 0..MaxTime, ScheduleRelease(t, at)
      PROVE  Stored' /\ Enrolled' /\ Scheduled'
  BY <1>0, <1>3 DEF ScheduleRelease, Ledger
<1>4. ASSUME LogCommand(t)
      PROVE  Stored' /\ Enrolled' /\ Scheduled'
  <2>1. task[t].fact \in Facts
    BY <1>0, <1>4, TaskKinds DEF LogCommand, RelInv, TypeOK
  <2>2. QED
    BY <1>0, <1>4, <2>1 DEF LogCommand, Db
<1>5. QED
  BY <1>1, <1>2, <1>3, <1>4 DEF Command

\* What clearing, or the end of a task, leaves of the box and the faults.
LEMMA StopStores ==
  ASSUME RelInv, NEW t \in Tasks, Stop(t)
  PROVE  box' \in Submissions
BY NoSharesFacts DEF Stop, Cleared, RelInv, TypeOK

LEMMA BlameCounts ==
  ASSUME RelInv, NEW mistaken \in BOOLEAN, Blame(mistaken)
  PROVE  faults' \in 0..MaxFaults
BY CeremonyAssumption DEF Blame, RelInv, TypeOK

LEMMA ReleaseStores ==
  ASSUME RelInv, NEW t \in Tasks, ReleaseStep(t)
  PROVE  Stored'
<1> USE DEF Stored
<1>0. Stored /\ task[t] \in TaskStates
  BY DEF RelInv, TypeOK
<1>1. CASE RefuseEarly(t)
  BY <1>0, <1>1 DEF RefuseEarly, Db, Facts
<1>2. ASSUME NEW n \in Names, Approve(t, n)
      PROVE  Stored'
  <2>1. task[t].shares \in Submissions /\ n \in DOMAIN task[t].shares
    BY <1>0, <1>2, TaskKinds, ReleaseFields DEF Approve, RelInv, InHand, InHandOK
  <2>2. ApprovedFact(n, task[t].shares[n]) \in Facts
    BY <2>1, SubmissionFacts DEF Facts
  <2>3. QED
    BY <1>0, <1>2, <2>2 DEF Approve, Db
<1>3. CASE Reconstruct(t)
  BY <1>0, <1>3 DEF Reconstruct, Db, Ledger
<1>4. CASE ReconstructFails(t)
  BY <1>0, <1>4, StopStores DEF ReconstructFails, Db, Ledger
<1>5. ASSUME NEW c \in Centres, RecordRelease(t, c)
      PROVE  Stored'
  <2>1. task[t] \in Releases /\ c \in DOMAIN task[t].to
    BY <1>0, <1>5, TaskKinds DEF RecordRelease, RelInv, InHand, InHandOK
  <2>2. [key |-> task[t].to[c], at |-> task[t].at] \in [key: 1..MaxKeys, at: 0..MaxTime]
    BY <2>1, ReleaseFields, RecipientFacts
  <2>3. QED
    BY <1>0, <1>5, <2>2 DEF RecordRelease, Put, Db
<1>6. CASE Announce(t)
  <2>1. task[t] \in Releases
    BY <1>0, <1>6, TaskKinds DEF Announce
  <2>2. ReleasedFact(task[t]) \in Facts
    BY <2>1, ReleaseFields, RecipientFacts, SubmissionFacts DEF ReleasedFact, Facts
  <2>3. box' \in Submissions
    BY <1>0, <1>6, StopStores DEF Announce
  <2>4. QED
    BY <1>0, <1>6, <2>2, <2>3 DEF Announce, Db
<1>7. QED
  BY <1>1, <1>2, <1>3, <1>4, <1>5, <1>6 DEF ReleaseStep

\* Every step keeps the types, and how the tables relate.
LEMMA StoreStep ==
  ASSUME RelInv, [Next]_vars
  PROVE  Stored' /\ Enrolled' /\ Scheduled'
<1>0. Stored /\ Enrolled /\ Scheduled
  BY DEF RelInv, TypeOK, Stored
<1>1. CASE Tick
  BY <1>0, <1>1, CeremonyAssumption DEF Tick, Db, Ledger, Stored, Enrolled, Scheduled
<1>2. ASSUME NEW t \in Clis, Command(t)
      PROVE  Stored' /\ Enrolled' /\ Scheduled'
  BY <1>2, CommandStores
<1>3. ASSUME NEW n \in Names, NEW s \in Shares, PostShare(n, s)
      PROVE  Stored' /\ Enrolled' /\ Scheduled'
  <2>1. box' \in Submissions
    BY <1>0, <1>3, PutShare, NoSharesFacts DEF PostShare, Cleared, Stored
  <2>2. faults' \in 0..MaxFaults
    BY <1>3, BlameCounts DEF PostShare, Mistaken
  <2>3. QED
    BY <1>0, <1>3, <2>1, <2>2 DEF PostShare, Db, Ledger, Stored, Enrolled, Scheduled
<1>4. ASSUME NEW t \in Clis, NEW shares \in Submissions, CliRelease(t, shares)
      PROVE  Stored' /\ Enrolled' /\ Scheduled'
  <2>1. faults' \in 0..MaxFaults
    BY <1>4, BlameCounts DEF CliRelease
  <2>2. QED
    BY <1>0, <1>4, <2>1 DEF CliRelease, Db, Ledger, Stored, Enrolled, Scheduled
<1>5. ASSUME NEW t \in Clis, DeliverMedium(t)
      PROVE  Stored' /\ Enrolled' /\ Scheduled'
  <2>1. task[t].medium \in Media
    BY <1>5, TaskKinds DEF DeliverMedium, RelInv, TypeOK, Tasks
  <2>2. QED
    BY <1>0, <1>5, <2>1 DEF DeliverMedium, Db, Stored, Enrolled, Scheduled
<1>6. ASSUME NEW t \in Tasks, ReleaseStep(t)
      PROVE  Stored' /\ Enrolled' /\ Scheduled'
  <2>1. UNCHANGED Db
    BY <1>6 DEF ReleaseStep, RefuseEarly, Approve, Reconstruct, ReconstructFails,
       RecordRelease, Announce
  <2>2. QED
    BY <1>0, <1>6, <2>1, ReleaseStores DEF Db, Enrolled, Scheduled
<1>7. ASSUME NEW t \in Tasks, Fail(t)
      PROVE  Stored' /\ Enrolled' /\ Scheduled'
  <2>1. faults' \in 0..MaxFaults
    BY <1>0, <1>7, CeremonyAssumption DEF Fail, Stored
  <2>2. box' \in Submissions
    BY <1>7, StopStores DEF Fail
  <2>3. QED
    BY <1>0, <1>7, <2>1, <2>2 DEF Fail, Db, Ledger, Stored, Enrolled, Scheduled
<1>8. CASE UNCHANGED vars
  BY <1>0, <1>8 DEF vars, Stored, Enrolled, Scheduled
<1>9. QED
  BY <1>1, <1>2, <1>3, <1>4, <1>5, <1>6, <1>7, <1>8 DEF Next

-----------------------------------------------------------------------------
\* Only a release that has its quorum, T-0 and recipients adds a row.
LEMMA OpenedStep ==
  ASSUME RelInv, [Next]_vars
  PROVE  OpenedByQuorum'
<1> DEFINE Fine(c, row) ==
             /\ c \in distributed
             /\ \E at \in signed : at <= row.at
             /\ \E shares \in Submissions : Quorate(shares) /\ OnRecord(shares)
<1>1. ASSUME NEW c, NEW row, Fine(c, row)
      PROVE  /\ c \in distributed'
             /\ \E at \in signed' : at <= row.at
             /\ \E shares \in Submissions : Quorate(shares) /\ OnRecord(shares)'
  BY <1>1, StepGrows DEF OnRecord
<1>2. \A c \in DOMAIN rows : Fine(c, rows[c])
  BY DEF RelInv, OpenedByQuorum
<1>3. ASSUME NEW c \in DOMAIN rows', NEW row, row = rows'[c], Fine(c, row)
      PROVE  /\ c \in distributed'
             /\ \E at \in signed' : at <= rows'[c].at
             /\ \E shares \in Submissions : Quorate(shares)' /\ OnRecord(shares)'
  BY <1>1, <1>3 DEF Quorate
<1> HIDE DEF Fine
<1>4. ASSUME NEW t \in Tasks, NEW c \in Centres, RecordRelease(t, c)
      PROVE  OpenedByQuorum'
  <2>1. PICK r \in TaskStates : r = task[t]
    BY DEF RelInv, TypeOK
  <2>2. r.op = "record" /\ r \in Releases /\ InHandOK(r) /\ c \in r.left
        /\ rows' = Put(rows, c, [key |-> r.to[c], at |-> r.at])
    BY <1>4, <2>1, TaskKinds DEF RecordRelease, RelInv, InHand
  <2>3. Fine(c, [key |-> r.to[c], at |-> r.at])
    BY <2>2, ReleaseFields DEF Fine, InHandOK, Begun
  <2>4. \A d \in DOMAIN rows' : Fine(d, rows'[d])
    BY <1>2, <2>2, <2>3 DEF Put
  <2>5. QED
    BY <1>3, <2>4 DEF OpenedByQuorum
<1>5. CASE rows' = rows
  BY <1>2, <1>3, <1>5 DEF OpenedByQuorum
<1>6. QED
  BY <1>4, <1>5 DEF Next, vars, Tick, Command, EnrolCentre, Distribute,
     ScheduleRelease, LogCommand, PostShare, CliRelease, DeliverMedium,
     ReleaseStep, RefuseEarly, Approve, Reconstruct, ReconstructFails, Announce,
     Fail, Ledger

-----------------------------------------------------------------------------
\* Who appends the two kinds of entries that the invariants are about.
LEMMA WhoAppends ==
  ASSUME RelInv, [Next]_vars, NEW f \in log' \ log
  PROVE  /\ f.type = "KEK_RELEASED" =>
              \E t \in Tasks : Announce(t) /\ f = ReleasedFact(task[t])
         /\ f.type = "CUSTODIAN_APPROVED" =>
              \E t \in Tasks, n \in Names :
                Approve(t, n) /\ f = ApprovedFact(n, task[t].shares[n])
<1>1. ASSUME NEW t \in Clis, LogCommand(t)
      PROVE  f.type \in CommandTypes
  BY <1>1 DEF LogCommand, RelInv, InHand, InHandOK, Tasks
<1>2. ASSUME NEW t \in Tasks, RefuseEarly(t)
      PROVE  f.type = "EARLY_RELEASE_ATTEMPT"
  BY <1>2 DEF RefuseEarly, EarlyFact
<1>3. ASSUME NEW t \in Tasks, NEW n \in Names, Approve(t, n)
      PROVE  f = ApprovedFact(n, task[t].shares[n]) /\ f.type = "CUSTODIAN_APPROVED"
  BY <1>3 DEF Approve, ApprovedFact
<1>4. ASSUME NEW t \in Tasks, Announce(t)
      PROVE  f = ReleasedFact(task[t]) /\ f.type = "KEK_RELEASED"
  BY <1>4 DEF Announce, ReleasedFact
<1>5. \/ \E t \in Clis : LogCommand(t)
      \/ \E t \in Tasks : RefuseEarly(t) \/ Announce(t)
      \/ \E t \in Tasks, n \in Names : Approve(t, n)
  BY DEF Next, vars, Tick, Command, EnrolCentre, Distribute, ScheduleRelease,
     PostShare, CliRelease, DeliverMedium, ReleaseStep, Reconstruct,
     ReconstructFails, RecordRelease, Fail, Ledger
<1>6. QED
  BY <1>1, <1>2, <1>3, <1>4, <1>5 DEF CommandTypes

\* What a finished release has in hand accounts for the entry it appends.
LEMMA EvidencedStep ==
  ASSUME RelInv, [Next]_vars
  PROVE  ReleasesAreEvidenced'
<1> SUFFICES ASSUME NEW f \in log', f.type = "KEK_RELEASED"
             PROVE  /\ Cardinality(f.by) >= Threshold
                    /\ \A n \in f.by : \E s \in Shares : ApprovedFact(n, s) \in log'
                    /\ f.to \subseteq DOMAIN rows'
  BY DEF ReleasesAreEvidenced
<1>1. CASE f \in log
  BY <1>1, StepGrows DEF RelInv, ReleasesAreEvidenced
<1>2. CASE f \notin log
  <2>1. PICK t \in Tasks : Announce(t) /\ f = ReleasedFact(task[t])
    BY <1>2, WhoAppends
  <2>2. PICK r \in TaskStates : r = task[t]
    BY DEF RelInv, TypeOK
  <2>3. r.op = "record" /\ r.left = {} /\ r \in Releases /\ InHandOK(r)
    BY <2>1, <2>2, TaskKinds DEF Announce, RelInv, InHand
  <2>4. f.by = DOMAIN r.shares /\ f.to = DOMAIN r.to
    BY <2>1, <2>2 DEF ReleasedFact
  <2>5. \A n \in DOMAIN r.shares : r.shares[n] \in Shares
    BY <2>3, ReleaseFields, SubmissionFacts
  <2>6. QED
    BY <2>3, <2>4, <2>5, StepGrows DEF InHandOK, Quorate, OnRecord
<1>3. QED
  BY <1>1, <1>2

\* An early answer follows its entry, and a medium its release.
LEMMA OutcomesStep ==
  ASSUME RelInv, [Next]_vars
  PROVE  OutcomesAreEvidenced'
<1>1. "TOO_EARLY" \in told' \ told => EarlyFact \in log'
  <2>1. ASSUME NEW t \in Tasks, RefuseEarly(t)
        PROVE  EarlyFact \in log'
    BY <2>1 DEF RefuseEarly
  <2>2. ASSUME NEW t \in Tasks, Announce(t)
        PROVE  "TOO_EARLY" \notin told' \ told
    BY <2>2 DEF Announce
  <2>3. (\E t \in Tasks : RefuseEarly(t) \/ Announce(t)) \/ told' = told
    BY DEF Next, vars, Tick, Command, EnrolCentre, Distribute, ScheduleRelease,
       LogCommand, PostShare, CliRelease, DeliverMedium, ReleaseStep, Approve,
       Reconstruct, ReconstructFails, RecordRelease, Fail, Ledger
  <2>4. QED
    BY <2>1, <2>2, <2>3
<1>2. ASSUME NEW m \in media' \ media
      PROVE  Announced(m)
  <2>1. PICK t \in Clis : DeliverMedium(t)
    BY DEF Next, vars, Tick, Command, EnrolCentre, Distribute, ScheduleRelease,
       LogCommand, PostShare, CliRelease, ReleaseStep, RefuseEarly, Approve,
       Reconstruct, ReconstructFails, RecordRelease, Announce, Fail, Ledger
  <2>2. QED
    BY <2>1 DEF DeliverMedium, RelInv, InHand, InHandOK, Tasks
<1>3. \A m \in media : Announced(m)
  BY DEF RelInv, OutcomesAreEvidenced, Announced
<1>4. ASSUME NEW m \in media'
      PROVE  \E f \in log' : f.type = "KEK_RELEASED" /\ f.to = DOMAIN m.to /\ f.at <= m.at
  BY <1>2, <1>3, StepGrows DEF Announced
<1>5. QED
  BY <1>1, <1>4, StepGrows DEF OutcomesAreEvidenced, RelInv

\* The daemon is left idle with a full box only by RefuseEarly.
LEMMA FullBoxStep ==
  ASSUME RelInv, [Next]_vars
  PROVE  FullBoxWasEarly'
<1> DEFINE Full(b) == Cardinality(DOMAIN b) >= Threshold
<1>0. ~Full(NoShares)
  BY NoSharesFacts, CeremonyAssumption
<1> HIDE DEF Full
<1>1. CASE box' = box /\ task'[Daemon] = task[Daemon]
  BY <1>1, StepGrows DEF RelInv, FullBoxWasEarly
<1>2. CASE box' = NoShares
  BY <1>0, <1>2 DEF FullBoxWasEarly, Full
<1>3. CASE EarlyFact \in log'
  BY <1>3 DEF FullBoxWasEarly
<1>4. CASE task'[Daemon] # Idle
  BY <1>4 DEF FullBoxWasEarly
<1>5. ASSUME NEW n \in Names, NEW s \in Shares, PostShare(n, s)
      PROVE  FullBoxWasEarly'
  <2> DEFINE filled == Put(box, n, s)
  <2>1. filled \in Submissions
    BY PutShare DEF RelInv, TypeOK
  <2>2. CASE box' = filled /\ Cardinality(DOMAIN filled) < Threshold
    BY <2>1, <2>2, SubmissionSize, CeremonyAssumption DEF FullBoxWasEarly
  <2>3. CASE Early \/ ~Refused(filled)
    <3>1. Started(filled) # Idle
      BY <2>1, <2>3, StartedFacts
    <3>2. task \in [Tasks -> TaskStates] /\ Daemon \in Tasks
      BY DEF RelInv, TypeOK, Tasks
    <3>3. Become(Daemon, Started(filled)) => FullBoxWasEarly'
      BY <1>4, <3>1, <3>2 DEF Become
    <3>4. QED
      BY <1>2, <1>5, <2>2, <3>3 DEF PostShare, Cleared
  <2>4. CASE box' = NoShares
    BY <1>2, <2>4
  <2>5. QED
    BY <1>5, <2>2, <2>3, <2>4 DEF PostShare, Cleared
<1>6. ASSUME NEW t \in Tasks \ {Daemon}, NEW w, Become(t, w), box' = box
      PROVE  FullBoxWasEarly'
  BY <1>1, <1>6 DEF Become, RelInv, TypeOK, Tasks
<1>7. ASSUME NEW t \in Tasks, Stop(t)
      PROVE  FullBoxWasEarly'
  BY <1>2, <1>6, <1>7 DEF Stop, Cleared
<1>8. ASSUME NEW t \in Tasks, NEW w, Become(t, w), w.op # "idle", box' = box
      PROVE  FullBoxWasEarly'
  <2>1. task \in [Tasks -> TaskStates] /\ w # Idle
    BY <1>8 DEF Idle, RelInv, TypeOK
  <2>2. CASE t = Daemon
    BY <1>4, <1>8, <2>1, <2>2 DEF Become
  <2>3. CASE t # Daemon
    BY <1>6, <1>8, <2>3
  <2>4. QED
    BY <2>2, <2>3
<1>9. CASE Tick \/ UNCHANGED vars
  BY <1>1, <1>9 DEF Tick, vars
<1>10. ASSUME NEW t \in Clis, Command(t) \/ DeliverMedium(t)
               \/ \E shares \in Submissions : CliRelease(t, shares)
       PROVE  FullBoxWasEarly'
  <2>1. t \in Tasks \ {Daemon}
    BY CeremonyAssumption DEF Tasks
  <2>2. QED
    BY <1>6, <1>10, <2>1 DEF Command, EnrolCentre, Distribute, ScheduleRelease,
       LogCommand, DeliverMedium, CliRelease
<1>11. ASSUME NEW t \in Tasks, ReleaseStep(t) \/ Fail(t)
       PROVE  FullBoxWasEarly'
  <2>1. RefuseEarly(t) => FullBoxWasEarly'
    BY <1>3 DEF RefuseEarly
  <2>2. ASSUME NEW n \in Names, Approve(t, n)
        PROVE  FullBoxWasEarly'
    BY <1>8, <2>2 DEF Approve, Release
  <2>3. ASSUME NEW c \in Centres, RecordRelease(t, c)
        PROVE  FullBoxWasEarly'
    BY <1>8, <2>3 DEF RecordRelease, Release
  <2>4. Reconstruct(t) => FullBoxWasEarly'
    BY <1>8 DEF Reconstruct, Release
  <2>5. ReconstructFails(t) \/ Fail(t) => FullBoxWasEarly'
    BY <1>7 DEF ReconstructFails, Fail
  <2>6. Announce(t) => FullBoxWasEarly'
    BY <1>6, <1>7 DEF Announce
  <2>7. QED
    BY <1>11, <2>1, <2>2, <2>3, <2>4, <2>5, <2>6 DEF ReleaseStep
<1>12. QED
  BY <1>5, <1>9, <1>10, <1>11 DEF Next

-----------------------------------------------------------------------------
(* RelInv is an invariant of the release, whoever runs it (release.ts, the  *)
(* shares route of server.ts, the commands of authority.ts).                *)
THEOREM ReleaseInvariant == Spec => []RelInv
<1>1. Init => RelInv
  <2> SUFFICES ASSUME Init
               PROVE  RelInv
    OBVIOUS
  <2>1. TypeOK
    <3>1. DOMAIN rows = {} /\ box \in Submissions
      BY NoSharesFacts DEF Init, NoRows
    <3>2. task \in [Tasks -> TaskStates]
      BY IdleIsFree DEF Init
    <3>3. QED
      BY <3>1, <3>2, CeremonyAssumption DEF Init, TypeOK
  <2>2. Enrolled /\ Scheduled
    BY DEF Init, Enrolled, Scheduled
  <2>3. InHand
    BY IdleIsFree DEF Init, InHand
  <2>4. OpenedByQuorum /\ ReleasesAreEvidenced /\ OutcomesAreEvidenced
    BY DEF Init, NoRows, OpenedByQuorum, ReleasesAreEvidenced, OutcomesAreEvidenced
  <2>5. FullBoxWasEarly
    BY NoSharesFacts, CeremonyAssumption DEF Init, FullBoxWasEarly
  <2>6. QED
    BY <2>1, <2>2, <2>3, <2>4, <2>5 DEF RelInv
<1>2. RelInv /\ [Next]_vars => RelInv'
  <2> SUFFICES ASSUME RelInv, [Next]_vars
               PROVE  RelInv'
    OBVIOUS
  <2>1. TypeOK' /\ InHand' /\ Enrolled' /\ Scheduled'
    BY HandStep, StoreStep DEF TypeOK, Stored
  <2>2. QED
    BY <2>1, OpenedStep, EvidencedStep, OutcomesStep, FullBoxStep DEF RelInv
<1>3. QED
  BY <1>1, <1>2, PTL DEF Spec

(* Every variable keeps its type.                                          *)
THEOREM ReleaseTypes == Spec => []TypeOK
<1>1. RelInv => TypeOK
  BY DEF RelInv
<1>2. QED
  BY <1>1, ReleaseInvariant, PTL

(* The threshold and I-REL-1 for every number of custodians, whatever the  *)
(* threshold: a centre's key was released by a quorum with shares of its   *)
(* own, after a T-0 that had been signed (performRelease).                 *)
THEOREM NoKeyWithoutQuorum == Spec => []OpenedByQuorum
<1>1. RelInv => OpenedByQuorum
  BY DEF RelInv
<1>2. QED
  BY <1>1, ReleaseInvariant, PTL

(* Every KEK_RELEASED entry is backed by approvals and rows.               *)
THEOREM ReleasesEvidenced == Spec => []ReleasesAreEvidenced
<1>1. RelInv => ReleasesAreEvidenced
  BY DEF RelInv
<1>2. QED
  BY <1>1, ReleaseInvariant, PTL

(* Early answers and offline media are in the log (I-REL-3).               *)
THEOREM OutcomesEvidenced == Spec => []OutcomesAreEvidenced
<1>1. RelInv => OutcomesAreEvidenced
  BY DEF RelInv
<1>2. QED
  BY <1>1, ReleaseInvariant, PTL

(* An idle daemon keeps a full box only for T-0 (server.ts).               *)
THEOREM BoxIsEmptied == Spec => []FullBoxWasEarly
<1>1. RelInv => FullBoxWasEarly
  BY DEF RelInv
<1>2. QED
  BY <1>1, ReleaseInvariant, PTL

-----------------------------------------------------------------------------
\* An approval on record is a custodian's.
LEMMA ApprovalsGrow ==
  ASSUME RelInv, [Next]_vars
  PROVE  /\ ApprovedBar \subseteq ApprovedBar'
         /\ DueBar => DueBar'
BY StepGrows, CeremonyAssumption DEF ApprovedBar, DueBar, RelInv, TypeOK

\* What is approved in a step is approved by one custodian.
LEMMA ApprovalStep ==
  ASSUME RelInv, [Next]_vars, NEW c \in ApprovedBar' \ ApprovedBar
  PROVE  \E t \in Tasks : Approve(t, c)
<1>1. PICK s \in Shares : c \in Custodians /\ ApprovedFact(c, s) \in log' \ log
  BY DEF ApprovedBar
<1>2. PICK t \in Tasks, n \in Names :
        Approve(t, n) /\ ApprovedFact(c, s) = ApprovedFact(n, task[t].shares[n])
  BY <1>1, WhoAppends DEF ApprovedFact
<1>3. n = c
  BY <1>2 DEF ApprovedFact
<1>4. QED
  BY <1>2, <1>3

(* The refinement of the ceremony: approving, falling due and recording a  *)
(* release are its three actions, everything else is a stutter.            *)
THEOREM CeremonyRefinement == Spec => ImplementsCeremony
<1>1. Init => R!Init
  <2> SUFFICES ASSUME Init
               PROVE  R!Init
    OBVIOUS
  <2>1. ApprovedBar = {} /\ DueBar = FALSE /\ DOMAIN rows = {}
    BY DEF Init, ApprovedBar, DueBar, NoRows
  <2>2. QED
    BY <2>1 DEF R!Init
<1>2. RelInv /\ [Next]_vars => [R!Next]_<<ApprovedBar, DueBar, DOMAIN rows>>
  <2> SUFFICES ASSUME RelInv, [Next]_vars
               PROVE  [R!Next]_<<ApprovedBar, DueBar, DOMAIN rows>>
    OBVIOUS
  <2>1. ASSUME NEW t \in Tasks, NEW n \in Names, Approve(t, n)
        PROVE  [R!Next]_<<ApprovedBar, DueBar, DOMAIN rows>>
    <3>1. PICK r \in TaskStates : r = task[t]
      BY DEF RelInv, TypeOK
    <3>2. r \in Releases /\ InHandOK(r) /\ r.op = "approve" /\ n \in r.left
          /\ log' = log \union {ApprovedFact(n, r.shares[n])}
          /\ UNCHANGED <<clock, signed, rows>>
      BY <2>1, <3>1, TaskKinds DEF Approve, RelInv, InHand, Db
    <3>3. n \in Custodians /\ r.shares[n] \in Shares
      BY <3>2, ReleaseFields, SubmissionFacts DEF InHandOK, Begun
    <3>4. ApprovedBar' = ApprovedBar \union {n}
      BY <3>2, <3>3 DEF ApprovedBar, ApprovedFact
    <3>5. UNCHANGED <<DueBar, DOMAIN rows>>
      BY <3>2 DEF DueBar
    <3>6. R!Approve(n)
      BY <3>4, <3>5 DEF R!Approve
    <3>7. QED
      BY <3>3, <3>6 DEF R!Next
  <2>2. ASSUME NEW t \in Tasks, NEW c \in Centres, RecordRelease(t, c)
        PROVE  [R!Next]_<<ApprovedBar, DueBar, DOMAIN rows>>
    <3>1. PICK r \in TaskStates : r = task[t]
      BY DEF RelInv, TypeOK
    <3>2. r \in Releases /\ InHandOK(r) /\ r.op = "record"
          /\ DOMAIN rows' = DOMAIN rows \union {c}
          /\ UNCHANGED <<clock, signed, log>>
      BY <2>2, <3>1, TaskKinds DEF RecordRelease, RelInv, InHand, Db, Put
    <3>3. UNCHANGED <<ApprovedBar, DueBar>>
      BY <3>2 DEF ApprovedBar, DueBar
    <3>4. DueBar
      BY <3>2, ReleaseFields, StepGrows, CeremonyAssumption
         DEF InHandOK, Begun, DueBar, RelInv, TypeOK
    <3>5. DOMAIN r.shares \in Quorums /\ DOMAIN r.shares \subseteq ApprovedBar
      <4>1. Quorate(r.shares) /\ OnRecord(r.shares) /\ DOMAIN r.shares \subseteq Custodians
        BY <3>2 DEF InHandOK, Begun
      <4>2. \A n \in DOMAIN r.shares : r.shares[n] \in Shares
        BY <3>2, ReleaseFields, SubmissionFacts
      <4>3. DOMAIN r.shares \in Quorums
        BY <4>1 DEF Quorums, Quorate
      <4>4. \A n \in DOMAIN r.shares : n \in ApprovedBar
        BY <4>1, <4>2 DEF OnRecord, ApprovedBar
      <4>5. QED
        BY <4>3, <4>4
    <3>6. R!Open(c)
      BY <3>2, <3>3, <3>4, <3>5 DEF R!Open
    <3>7. QED
      BY <3>6 DEF R!Next
  <2>3. ASSUME ~\E t \in Tasks, n \in Names : Approve(t, n),
               ~\E t \in Tasks, c \in Centres : RecordRelease(t, c)
        PROVE  [R!Next]_<<ApprovedBar, DueBar, DOMAIN rows>>
    <3>1. ApprovedBar' = ApprovedBar
      BY <2>3, ApprovalsGrow, ApprovalStep, CeremonyAssumption DEF ApprovedBar
    <3>2. rows' = rows
      BY <2>3 DEF Next, vars, Tick, Command, EnrolCentre, Distribute,
         ScheduleRelease, LogCommand, PostShare, CliRelease, DeliverMedium,
         ReleaseStep, RefuseEarly, Reconstruct, ReconstructFails, Announce, Fail,
         Ledger
    <3>3. CASE DueBar' = DueBar
      BY <3>1, <3>2, <3>3
    <3>4. CASE DueBar' # DueBar
      <4>1. DueBar' = TRUE
        BY <3>4, ApprovalsGrow DEF DueBar
      <4>2. R!FallDue
        BY <3>1, <3>2, <4>1 DEF R!FallDue
      <4>3. QED
        BY <4>2 DEF R!Next
    <3>5. QED
      BY <3>3, <3>4
  <2>4. QED
    BY <2>1, <2>2, <2>3
<1>3. QED
  BY <1>1, <1>2, ReleaseInvariant, PTL DEF Spec, ImplementsCeremony, R!Spec

=============================================================================
