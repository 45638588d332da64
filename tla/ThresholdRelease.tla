------------------------- MODULE ThresholdRelease -------------------------
(***************************************************************************)
(* The threshold release of one provisioned bundle: performRelease of      *)
(* authority/src/release.ts, run by the authority daemon when custodians   *)
(* post their shares (authority/src/server.ts) and by CLI commands of      *)
(* operators (`release`, with --offline or without), beside the commands   *)
(* that enrol centres, distribute the bundle and schedule or reschedule    *)
(* T-0.  All of them are tasks on one SQLite file and one log.             *)
(*                                                                         *)
(*  - The key provider answers without I/O, so the daemon finishes one     *)
(*    request before it takes up the next; the tasks, being processes,     *)
(*    interleave at every write.                                           *)
(*  - performRelease reads everything it decides on before its first       *)
(*    await (Started) and uses it to the end: the time, the schedule, the  *)
(*    recipients and their keys.                                           *)
(*  - An append adds its entry or is rejected (module TransparencyLog); a  *)
(*    rejection, a provider error, a key held over budget, or the end of   *)
(*    the process is Fail.                                                 *)
(*                                                                         *)
(* A share is named by the custodian it was issued to; Unusable is one     *)
(* that is corrupted or belongs to another split, which parseShare or      *)
(* shamirCombine rejects wherever it stands in the list.                   *)
(* The log is the set of what its entries say.  The schedule's signature,  *)
(* ciphertexts and metrics are left out.  signed and told are history.     *)
(* MaxTime, MaxKeys and MaxFaults only bound the model.                    *)
(***************************************************************************)
EXTENDS Integers, FiniteSets

CONSTANTS
  Custodians,   \* enrolled, each issued one share
  Names,        \* what a submission may carry as custodianId
  Centres,
  Threshold,
  Daemon, Clis, \* processes
  Unusable,     \* a share that does not combine
  MaxTime, MaxKeys, MaxFaults

Tasks  == {Daemon} \union Clis
Shares == Custodians \union {Unusable}

ASSUME CeremonyAssumption ==
  /\ Custodians \subseteq Names /\ IsFiniteSet(Names)
  /\ Daemon \notin Clis
  /\ Unusable \notin Custodians
  /\ Threshold \in Nat \ {0}
  /\ MaxTime \in Nat /\ MaxKeys \in Nat /\ MaxFaults \in Nat

VARIABLES
  clock,        \* the host's clock
  keys,         \* table centres: the box key enrolled, 0 for none
  distributed,  \* table distributions
  schedule,     \* table schedules: release_at
  rows,         \* table releases: centre -> sealed to, released_at
  log,          \* what the log's entries say
  box,          \* the daemon's pendingShares for this bundle
  task,         \* what each process is in the middle of
  media,        \* signed offline media written
  signed,       \* every T-0 ever stored
  told,         \* outcomes reported to those who submitted shares
  faults

vars == <<clock, keys, distributed, schedule, rows, log, box, task, media,
          signed, told, faults>>

Db     == <<keys, distributed, schedule, signed>>
Ledger == <<rows, log, media, told>>

Unset    == -1                        \* no schedule
NoShares == [n \in {} |-> Unusable]
NoRows   == [c \in {} |-> Unset]
Idle     == [op |-> "idle"]

\* A release between its awaits: left is what the current loop has to do yet.
Release(op, shares, to, at, left) ==
  [op |-> op, shares |-> shares, to |-> to, at |-> at, left |-> left]

\* What an entry of the log says.
EnrolledFact(c, k)    == [type |-> "CENTRE_ENROLLED", centre |-> c, key |-> k]
DistributedFact(c)    == [type |-> "BUNDLE_DISTRIBUTED", centre |-> c]
ScheduledFact(at)     == [type |-> "RELEASE_SCHEDULED", at |-> at]
EarlyFact             == [type |-> "EARLY_RELEASE_ATTEMPT"]
ApprovedFact(n, s)    == [type |-> "CUSTODIAN_APPROVED", by |-> n, share |-> s]
ReleasedFact(r)       == [type |-> "KEK_RELEASED", by |-> DOMAIN r.shares,
                          to |-> DOMAIN r.to, at |-> r.at]

Submissions == UNION {[N -> Shares] : N \in SUBSET Names}
Recipients  == UNION {[C -> 1..MaxKeys] : C \in SUBSET Centres}

Releases == [op: {"approve", "record"}, shares: Submissions, to: Recipients,
             at: 0..MaxTime, left: SUBSET (Names \union Centres)]

Facts ==
  {EnrolledFact(c, k) : c \in Centres, k \in 1..MaxKeys}
    \union {DistributedFact(c) : c \in Centres}
    \union {ScheduledFact(at) : at \in 0..MaxTime}
    \union {EarlyFact}
    \union {ApprovedFact(n, s) : n \in Names, s \in Shares}
    \union [type: {"KEK_RELEASED"}, by: SUBSET Names, to: SUBSET Centres,
                  at: 0..MaxTime]

Media == [to: Recipients, at: 0..MaxTime]

TaskStates ==
  {Idle}
    \union [op: {"append"}, fact: Facts]
    \union [op: {"early"}]
    \union Releases
    \union [op: {"deliver"}, medium: Media]

-----------------------------------------------------------------------------
Put(table, key, row) ==
  [k \in DOMAIN table \union {key} |-> IF k = key THEN row ELSE table[k]]

Become(t, state) == task' = [task EXCEPT ![t] = state]

\* Mutant: the catch clause leaves the box as it is.
Kept(shares) == shares

\* What the catch clause, or the daemon's death, leaves of the box.
Cleared(shares) == NoShares

Stop(t) ==
  /\ Become(t, Idle)
  /\ box' = IF t = Daemon THEN Cleared(box) ELSE box

-----------------------------------------------------------------------------
Init ==
  /\ clock = 0
  /\ keys = [c \in Centres |-> 0]
  /\ distributed = {}
  /\ schedule = Unset
  /\ rows = NoRows
  /\ log = {}
  /\ box = NoShares
  /\ task = [t \in Tasks |-> Idle]
  /\ media = {}
  /\ signed = {}
  /\ told = {}
  /\ faults = 0

Tick ==
  /\ clock < MaxTime
  /\ clock' = clock + 1
  /\ UNCHANGED <<Db, Ledger, box, task, faults>>

-----------------------------------------------------------------------------
(* The commands of an operator: one upsert, then one append.               *)

\* enrolCentre; enrolling a centre again replaces its box key.
EnrolCentre(t, c) ==
  /\ task[t] = Idle
  /\ keys[c] < MaxKeys
  /\ keys' = [keys EXCEPT ![c] = @ + 1]
  /\ Become(t, [op |-> "append", fact |-> EnrolledFact(c, keys[c] + 1)])
  /\ UNCHANGED <<clock, distributed, schedule, signed, Ledger, box, faults>>

\* Mutant: an unknown centre is not refused.
DistributeUnknown(t, c) ==
  /\ task[t] = Idle
  /\ distributed' = distributed \union {c}
  /\ Become(t, [op |-> "append", fact |-> DistributedFact(c)])
  /\ UNCHANGED <<clock, keys, schedule, signed, Ledger, box, faults>>

\* recordDistribution; an unknown centre is refused.
Distribute(t, c) ==
  /\ task[t] = Idle
  /\ keys[c] # 0
  /\ distributed' = distributed \union {c}
  /\ Become(t, [op |-> "append", fact |-> DistributedFact(c)])
  /\ UNCHANGED <<clock, keys, schedule, signed, Ledger, box, faults>>

\* scheduleRelease: the signature is made first, then the row is replaced.
ScheduleRelease(t, at) ==
  /\ task[t] = Idle
  /\ schedule' = at
  /\ signed' = signed \union {at}
  /\ Become(t, [op |-> "append", fact |-> ScheduledFact(at)])
  /\ UNCHANGED <<clock, keys, distributed, Ledger, box, faults>>

LogCommand(t) ==
  /\ task[t].op = "append"
  /\ log' = log \union {task[t].fact}
  /\ Become(t, Idle)
  /\ UNCHANGED <<clock, Db, rows, media, told, box, faults>>

-----------------------------------------------------------------------------
(* performRelease.                                                         *)

Early == schedule # Unset /\ clock < schedule

\* Mutant: the count of shares is not compared with the threshold.
RefusedWithoutCount(shares) ==
  \/ schedule = Unset
  \/ ~(DOMAIN shares \subseteq Custodians)
  \/ distributed = {}

\* NO_SCHEDULE, INSUFFICIENT_SHARES, SHARE_INVALID (label), NO_RECIPIENTS.
Refused(shares) ==
  \/ schedule = Unset
  \/ Cardinality(DOMAIN shares) < Threshold
  \/ ~(DOMAIN shares \subseteq Custodians)
  \/ distributed = {}

\* Where the synchronous part leaves a release that is not refused.
Started(shares) ==
  IF Early THEN [op |-> "early"]
  ELSE Release("approve", shares, [c \in distributed |-> keys[c]], clock, DOMAIN shares)

\* A wrong share, or a label that is not one's own, is somebody's mistake.
Mistaken(n, s) == n # s

Blame(mistaken) ==
  /\ mistaken => faults < MaxFaults
  /\ faults' = IF mistaken THEN faults + 1 ELSE faults

(***************************************************************************)
(* POST .../shares: the share goes into the box, under the label given.    *)
(* The box is released when its size has reached the threshold, and is     *)
(* emptied when that fails for any reason but TOO_EARLY.                   *)
(***************************************************************************)
PostShare(n, s) ==
  LET filled == Put(box, n, s)
  IN  /\ task[Daemon] = Idle
      /\ Blame(Mistaken(n, s))
      /\ \/ /\ Cardinality(DOMAIN filled) < Threshold
            /\ box' = filled
            /\ UNCHANGED task
         \/ /\ Cardinality(DOMAIN filled) >= Threshold
            /\ Early \/ ~Refused(filled)
            /\ box' = filled
            /\ Become(Daemon, Started(filled))
         \/ /\ Cardinality(DOMAIN filled) >= Threshold
            /\ ~Early /\ Refused(filled)
            /\ box' = Cleared(filled)
            /\ UNCHANGED task
      /\ UNCHANGED <<clock, Db, Ledger>>

\* `release`: the shares of the custodians present, at most one of them wrong.
CliRelease(t, shares) ==
  /\ task[t] = Idle
  /\ t # Daemon
  /\ Blame(\E n \in DOMAIN shares : Mistaken(n, shares[n]))
  /\ Early \/ ~Refused(shares)
  /\ Become(t, Started(shares))
  /\ UNCHANGED <<clock, Db, Ledger, box>>

\* Mutant: the attempt is refused without a trace.
RefuseSilently(t) ==
  /\ task[t].op = "early"
  /\ told' = told \union {"TOO_EARLY"}
  /\ Become(t, Idle)
  /\ UNCHANGED <<clock, Db, log, rows, media, box, faults>>

\* EARLY_RELEASE_ATTEMPT is appended, then TOO_EARLY thrown: the box is kept.
RefuseEarly(t) ==
  /\ task[t].op = "early"
  /\ log' = log \union {EarlyFact}
  /\ told' = told \union {"TOO_EARLY"}
  /\ Become(t, Idle)
  /\ UNCHANGED <<clock, Db, rows, media, box, faults>>

\* One turn of the loop that appends CUSTODIAN_APPROVED.
Approve(t, n) ==
  LET r == task[t]
  IN  /\ r.op = "approve"
      /\ n \in r.left
      /\ log' = log \union {ApprovedFact(n, r.shares[n])}
      /\ Become(t, Release("approve", r.shares, r.to, r.at, r.left \ {n}))
      /\ UNCHANGED <<clock, Db, rows, media, told, box, faults>>

\* Mutant: the same share may count twice.
CombineRepeated(shares) == \A n \in DOMAIN shares : shares[n] # Unusable

\* reconstructWrapRelease: every share parses, is of this split, and no two
\* have the same index.
Combine(shares) ==
  /\ \A n \in DOMAIN shares : shares[n] # Unusable
  /\ \A m, n \in DOMAIN shares : shares[m] = shares[n] => m = n

Reconstruct(t) ==
  LET r == task[t]
  IN  /\ r.op = "approve" /\ r.left = {}
      /\ Combine(r.shares)
      /\ Become(t, Release("record", r.shares, r.to, r.at, DOMAIN r.to))
      /\ UNCHANGED <<clock, Db, Ledger, box, faults>>

ReconstructFails(t) ==
  LET r == task[t]
  IN  /\ r.op = "approve" /\ r.left = {}
      /\ ~Combine(r.shares)
      /\ Stop(t)
      /\ UNCHANGED <<clock, Db, Ledger, faults>>

\* One turn of the loop over recordRelease: from here on the centre can pick
\* its key up.
RecordRelease(t, c) ==
  LET r == task[t]
  IN  /\ r.op = "record"
      /\ c \in r.left
      /\ rows' = Put(rows, c, [key |-> r.to[c], at |-> r.at])
      /\ Become(t, Release("record", r.shares, r.to, r.at, r.left \ {c}))
      /\ UNCHANGED <<clock, Db, log, media, told, box, faults>>

\* Mutant: KEK_RELEASED is appended, and the release reported, with rows left.
AnnounceFirst(t) ==
  LET r == task[t]
  IN  /\ r.op = "record"
      /\ log' = log \union {ReleasedFact(r)}
      /\ told' = told \union {"RELEASED"}
      /\ Stop(t)
      /\ UNCHANGED <<clock, Db, rows, media, faults>>

\* KEK_RELEASED is appended and the release has succeeded: the daemon deletes
\* the box and answers, the CLI may go on to an offline medium.
Announce(t) ==
  LET r == task[t]
  IN  /\ r.op = "record" /\ r.left = {}
      /\ log' = log \union {ReleasedFact(r)}
      /\ told' = told \union {"RELEASED"}
      /\ \/ Stop(t)
         \/ /\ t # Daemon
            /\ Become(t, [op |-> "deliver", medium |-> [to |-> r.to, at |-> clock]])
            /\ UNCHANGED box
      /\ UNCHANGED <<clock, Db, rows, media, faults>>

\* releaseOffline: buildOfflineMedium signs, the CLI writes the file.
DeliverMedium(t) ==
  /\ task[t].op = "deliver"
  /\ media' = media \union {task[t].medium}
  /\ Become(t, Idle)
  /\ UNCHANGED <<clock, Db, rows, log, told, box, faults>>

\* An append or the provider rejects, the budget is exceeded, or the process
\* ends; an idle daemon may be restarted too.
Fail(t) ==
  /\ faults < MaxFaults
  /\ task[t] # Idle \/ t = Daemon
  /\ Stop(t)
  /\ faults' = faults + 1
  /\ UNCHANGED <<clock, Db, Ledger>>

-----------------------------------------------------------------------------
Command(t) ==
  \/ \E c \in Centres : EnrolCentre(t, c) \/ Distribute(t, c)
  \/ \E at \in 0..MaxTime : ScheduleRelease(t, at)
  \/ LogCommand(t)

ReleaseStep(t) ==
  \/ RefuseEarly(t)
  \/ \E n \in Names : Approve(t, n)
  \/ Reconstruct(t)
  \/ ReconstructFails(t)
  \/ \E c \in Centres : RecordRelease(t, c)
  \/ Announce(t)

Next ==
  \/ Tick
  \/ \E t \in Clis : Command(t)
  \/ \E n \in Names, s \in Shares : PostShare(n, s)
  \/ \E t \in Clis, shares \in Submissions : CliRelease(t, shares)
  \/ \E t \in Clis : DeliverMedium(t)
  \/ \E t \in Tasks : ReleaseStep(t) \/ Fail(t)

Spec == Init /\ [][Next]_vars

(* A daemon keeps scheduling what it has begun, time passes, and until they *)
(* hear of a release the custodians keep posting their own shares.          *)
Fairness ==
  /\ WF_vars(Tick)
  /\ WF_vars(ReleaseStep(Daemon))
  /\ \A c \in Custodians : WF_vars("RELEASED" \notin told /\ PostShare(c, c))

FairSpec == Spec /\ Fairness

-----------------------------------------------------------------------------
TypeOK ==
  /\ clock \in 0..MaxTime
  /\ keys \in [Centres -> 0..MaxKeys]
  /\ distributed \in SUBSET Centres
  /\ schedule \in {Unset} \union 0..MaxTime
  /\ DOMAIN rows \subseteq Centres
  /\ \A c \in DOMAIN rows : rows[c] \in [key: 1..MaxKeys, at: 0..MaxTime]
  /\ log \subseteq Facts
  /\ box \in Submissions
  /\ task \in [Tasks -> TaskStates]
  /\ media \subseteq Media
  /\ signed \in SUBSET (0..MaxTime)
  /\ told \in SUBSET {"TOO_EARLY", "RELEASED"}
  /\ faults \in 0..MaxFaults

\* Enrolled custodians with as many different shares, all fit to combine.
Quorate(shares) ==
  /\ Cardinality(DOMAIN shares) >= Threshold
  /\ DOMAIN shares \subseteq Custodians
  /\ \A m, n \in DOMAIN shares :
        shares[m] \in Custodians /\ (m # n => shares[m] # shares[n])

OnRecord(shares) == \A n \in DOMAIN shares : ApprovedFact(n, shares[n]) \in log

(* I-REL-1 and the threshold, across failed, repeated and overlapping       *)
(* attempts: a centre can pick a key up only if the bundle was distributed  *)
(* to it, a signed T-0 had fallen due at the time of the release, and a     *)
(* quorum's approvals, each with a share of its own, are in the log.        *)
OpenedByQuorum ==
  \A c \in DOMAIN rows :
    /\ c \in distributed
    /\ \E at \in signed : at <= rows[c].at
    /\ \E shares \in Submissions : Quorate(shares) /\ OnRecord(shares)

(* A KEK_RELEASED entry is never alone: the approval of each custodian it   *)
(* names is in the log, there are enough of them, and every centre it names *)
(* has its key waiting.                                                     *)
ReleasesAreEvidenced ==
  \A f \in log : f.type = "KEK_RELEASED" =>
    /\ Cardinality(f.by) >= Threshold
    /\ \A n \in f.by : \E s \in Shares : ApprovedFact(n, s) \in log
    /\ f.to \subseteq DOMAIN rows

(* What was reported or handed out is in the log: a TOO_EARLY answer (never *)
(* silently dropped, I-REL-3), and each medium a courier carries, which     *)
(* goes to the centres that some KEK_RELEASED entry of no later time names. *)
OutcomesAreEvidenced ==
  /\ "TOO_EARLY" \in told => EarlyFact \in log
  /\ \A m \in media : \E f \in log :
       f.type = "KEK_RELEASED" /\ f.to = DOMAIN m.to /\ f.at <= m.at

(* A full box is only ever kept for T-0: if an idle daemon holds a quorum   *)
(* of shares, an early attempt has been recorded.  Any other failure has    *)
(* emptied it, so no poisoned share is tried over and over (server.ts).     *)
FullBoxWasEarly ==
  task[Daemon] = Idle /\ Cardinality(DOMAIN box) >= Threshold => EarlyFact \in log

(* A poisoned share cannot wedge the ceremony: once the bundle is scheduled *)
(* and distributed, a release succeeds, although boxes are lost, attempts   *)
(* fail and wrong shares are posted (MaxFaults times), and T-0 moves.       *)
CeremonyCompletes ==
  (schedule # Unset /\ distributed # {}) ~> ("RELEASED" \in told)

-----------------------------------------------------------------------------
ApprovedBar == {c \in Custodians : \E s \in Shares : ApprovedFact(c, s) \in log}
DueBar      == \E at \in signed : at <= clock
Quorums     == {Q \in SUBSET Custodians : Cardinality(Q) >= Threshold}

R == INSTANCE ReleaseCeremony
       WITH approved <- ApprovedBar, due <- DueBar, opened <- DOMAIN rows

(* performRelease, run by several processes, implements the ceremony.       *)
ImplementsCeremony == R!Spec

=============================================================================
