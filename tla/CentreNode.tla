---------------------------- MODULE CentreNode ----------------------------
(***************************************************************************)
(* The centre node: class CentreNode of centre/src/centre.ts over its      *)
(* database (centre/src/store.ts), its log and its printers (print.ts).    *)
(* Several processes work on one state directory, each with a CentreNode   *)
(* and key provider of its own:                                            *)
(*  - the daemon (daemon.ts), whose sync loop starts a tick every few      *)
(*    seconds, whether or not the last one is over (Ticks);                *)
(*  - CLI commands (cli.ts), which open the node, call one method and      *)
(*    close it again (Clis);                                               *)
(*  - long-lived programs that call the methods, as the drills of          *)
(*    centre/test do (Hosts).                                              *)
(* A method runs on until it awaits I/O or the log; tasks interleave       *)
(* there, and processes at every write.  An append, a request or a print   *)
(* job may fail and a process may end at any of these points (Fail,        *)
(* Crash).  What a process holds in memory, the KEK, ends with it.         *)
(*                                                                         *)
(* Tokens are admit tokens that verify; SeatOf names the seat of each.     *)
(* The envelope, the KEK and the PDF are the right ones: a wrong one is    *)
(* refused before anything is stored.  log is what the entries say, twice  *)
(* what was said again of a seat or a candidate.  twice, copies and        *)
(* admitted are history: nothing reads them.                               *)
(* MaxFaults only bounds the model.                                        *)
(***************************************************************************)
EXTENDS Integers, FiniteSets

CONSTANTS
  Ticks, Clis, Hosts,   \* tasks: ticks of the daemon, commands, programs
  Daemon,               \* the process of the ticks
  Tokens, Seats, SeatOf,
  Printers,             \* how many printers are configured
  Spool,                \* whether a spool directory is
  MaxFaults

Tasks == Ticks \union Clis \union Hosts
Procs == {Daemon} \union Clis \union Hosts

ASSUME CentreAssumption ==
  /\ Ticks \intersect (Clis \union Hosts) = {} /\ Daemon \notin Tasks
  /\ SeatOf \in [Tokens -> Seats]
  /\ Printers \in Nat /\ Spool \in BOOLEAN /\ MaxFaults \in Nat
  /\ IsFiniteSet(Seats)

VARIABLES
  released,   \* the authority has released the KEK, on line and on media
  bundle,     \* table bundles: the paper bundle is in custody
  checkins,   \* table checkins: token -> seat
  papers,     \* table papers: seat -> token, printed_at set
  log,        \* what the log's entries say
  twice,      \* entries about one seat or candidate that were repeated
  held,       \* processes whose provider and heldKeks have the KEK
  syncing,    \* the daemon's timer is armed
  task,       \* what each task is in the middle of
  copies,     \* seat -> copies printed or spooled
  admitted,   \* tokens a CHECKED IN line was printed for
  faults

Db      == <<bundle, checkins, papers>>
History == <<copies, admitted>>
Log     == <<log, twice>>
vars    == <<released, Db, Log, held, syncing, task, History, faults>>

ProcOf(t) == IF t \in Ticks THEN Daemon ELSE t
TasksOf(p) == {t \in Tasks : ProcOf(t) = p}

Idle == [op |-> "idle"]

CheckedIn(k)  == [type |-> "CANDIDATE_CHECKED_IN", token |-> k]
Generated(s)  == [type |-> "PAPER_GENERATED", seat |-> s]
Printed(s)    == [type |-> "PAPER_PRINTED", seat |-> s]
Closed(n)     == [type |-> "EXAM_CLOSED", printed |-> n]
Plain(type)   == [type |-> type]

AboutOne ==
  {CheckedIn(k) : k \in Tokens}
    \union {Generated(s) : s \in Seats} \union {Printed(s) : s \in Seats}

Facts ==
  {Plain(type) : type \in {"BUNDLE_RECEIVED", "KEK_RECEIVED", "PRINTER_FAILOVER"}}
    \union AboutOne
    \union {Closed(n) : n \in 0..Cardinality(Seats)}

Put(table, key, row) ==
  [k \in DOMAIN table \union {key} |-> IF k = key THEN row ELSE table[k]]

Occupied   == {checkins[k] : k \in DOMAIN checkins}
TokenAt(s) == CHOOSE k \in DOMAIN checkins : checkins[k] = s

Become(t, state) == task' = [task EXCEPT ![t] = state]

Write(fact) ==
  /\ log' = log \union {fact}
  /\ twice' = twice \union ({fact} \intersect log \intersect AboutOne)

\* The end of a command: close() discards the key.
Finish(t) ==
  /\ Become(t, Idle)
  /\ held' = IF t \in Clis THEN held \ {t} ELSE held

-----------------------------------------------------------------------------
Init ==
  /\ released = FALSE
  /\ bundle = FALSE
  /\ checkins = [k \in {} |-> Daemon]
  /\ papers = [s \in {} |-> Daemon]
  /\ log = {}
  /\ twice = {}
  /\ held = {}
  /\ syncing = TRUE
  /\ task = [t \in Tasks |-> Idle]
  /\ copies = [s \in Seats |-> 0]
  /\ admitted = {}
  /\ faults = 0

\* The ceremony at the authority (module ThresholdRelease).
Release ==
  /\ ~released
  /\ released' = TRUE
  /\ UNCHANGED <<Db, Log, held, syncing, task, History, faults>>

-----------------------------------------------------------------------------
(* Custody and key receipt.                                                *)

\* tick: the bundle is asked for unless it is there, then the KEK.
StartTick(t) ==
  /\ t \in Ticks /\ syncing
  /\ task[t] = Idle
  /\ Become(t, [op |-> IF bundle THEN "fetchKek" ELSE "fetchBundle"])
  /\ UNCHANGED <<released, Db, Log, held, syncing, History, faults>>

\* receiveBundle: called by a tick with the response in hand, or by a command.
ReceiveBundle(t) ==
  /\ IF t \in Ticks THEN task[t].op = "fetchBundle" ELSE task[t] = Idle
  /\ bundle' = TRUE
  /\ IF bundle THEN Finish(t)
     ELSE Become(t, [op |-> "logBundle"]) /\ UNCHANGED held
  /\ UNCHANGED <<released, checkins, papers, Log, syncing, History, faults>>

LogBundle(t) ==
  /\ task[t].op = "logBundle"
  /\ Write(Plain("BUNDLE_RECEIVED"))
  /\ IF t \in Ticks THEN Become(t, [op |-> "fetchKek"]) /\ UNCHANGED held
     ELSE Finish(t)
  /\ UNCHANGED <<released, Db, syncing, History, faults>>

(***************************************************************************)
(* receiveWrappedKek: by a tick whose poll was answered, or through        *)
(* receiveOfflineMedium.  The engine refuses a KEK it already holds        *)
(* (KEK_ALREADY_EXISTS).  Until the release a tick is told 425.            *)
(***************************************************************************)
ReceiveKek(t) ==
  /\ IF t \in Ticks THEN task[t].op = "fetchKek" ELSE task[t] = Idle /\ released
  /\ IF released /\ bundle /\ ProcOf(t) \notin held
     THEN held' = held \union {ProcOf(t)} /\ Become(t, [op |-> "logKek"])
     ELSE Finish(t)
  /\ UNCHANGED <<released, Db, Log, syncing, History, faults>>

\* KEK_RECEIVED; the tick then clears the timer, the command reports success.
LogKek(t) ==
  /\ task[t].op = "logKek"
  /\ Write(Plain("KEK_RECEIVED"))
  /\ Finish(t)
  /\ syncing' = (syncing /\ t \notin Ticks)
  /\ UNCHANGED <<released, Db, History, faults>>

-----------------------------------------------------------------------------
(* Check-in.                                                               *)

\* Mutant: the seat is not looked up, and the column is not UNIQUE.
CheckInAnySeat(t, k) ==
  /\ t \notin Ticks /\ task[t] = Idle
  /\ k \notin DOMAIN checkins
  /\ checkins' = Put(checkins, k, SeatOf[k])
  /\ Become(t, [op |-> "logCheckin", token |-> k])
  /\ UNCHANGED <<released, bundle, papers, Log, held, syncing, History, faults>>

\* A card or a seat that is taken is refused and nothing changes.
CheckIn(t, k) ==
  /\ t \notin Ticks /\ task[t] = Idle
  /\ k \notin DOMAIN checkins /\ SeatOf[k] \notin Occupied
  /\ checkins' = Put(checkins, k, SeatOf[k])
  /\ Become(t, [op |-> "logCheckin", token |-> k])
  /\ UNCHANGED <<released, bundle, papers, Log, held, syncing, History, faults>>

LogCheckin(t) ==
  /\ task[t].op = "logCheckin"
  /\ Write(CheckedIn(task[t].token))
  /\ admitted' = admitted \union {task[t].token}
  /\ Finish(t)
  /\ UNCHANGED <<released, Db, syncing, copies, faults>>

-----------------------------------------------------------------------------
(* runT0: seat by seat, in any order, generatePaper and then printPaper.   *)
(* left holds the seats of the check-ins it found that are still to come.  *)

Run(op, left, seat, tried) ==
  [op |-> op, left |-> left, seat |-> seat, tried |-> tried]

NextSeat(t) == Become(t, Run("run", task[t].left, task[t].seat, 0))

StartRun(t) ==
  /\ t \notin Ticks /\ task[t] = Idle
  /\ \E s \in Occupied : Become(t, Run("run", Occupied, s, 0))
  /\ UNCHANGED <<released, Db, Log, held, syncing, History, faults>>

EndRun(t) ==
  /\ task[t].op = "run" /\ task[t].left = {}
  /\ Finish(t)
  /\ UNCHANGED <<released, Db, Log, syncing, History, faults>>

\* generatePaper up to the decryption.  A seat that has its paper, or whose
\* bundle or KEK is lacking, is reported and skipped.
Generate(t, s) ==
  LET rest  == task[t].left \ {s}
      ready == s \notin DOMAIN papers /\ bundle /\ ProcOf(t) \in held
  IN  /\ task[t].op = "run" /\ s \in task[t].left
      /\ \/ ready  /\ Become(t, Run("render", rest, s, 0))
         \/ ~ready /\ Become(t, Run("run", rest, s, 0))
      /\ UNCHANGED <<released, Db, Log, held, syncing, History, faults>>

\* Mutant: INSERT OR REPLACE.
ReplacePaper(t) ==
  LET s == task[t].seat
  IN  /\ task[t].op = "render"
      /\ papers' = Put(papers, s, [token |-> TokenAt(s), printed |-> FALSE])
      /\ Become(t, Run("logGenerated", task[t].left, s, 0))
      /\ UNCHANGED <<released, bundle, checkins, Log, held, syncing, History, faults>>

\* putPaper, after decryption and rendering; the PRIMARY KEY on seat refuses a
\* second row, and the seat fails.
StorePaper(t) ==
  LET s == task[t].seat
  IN  /\ task[t].op = "render"
      /\ IF s \in DOMAIN papers
         THEN NextSeat(t) /\ UNCHANGED papers
         ELSE /\ papers' = Put(papers, s, [token |-> TokenAt(s), printed |-> FALSE])
              /\ Become(t, Run("logGenerated", task[t].left, s, 0))
      /\ UNCHANGED <<released, bundle, checkins, Log, held, syncing, History, faults>>

\* Mutant: the rejection of the append is swallowed.
ForgetGenerated(t) ==
  /\ task[t].op = "logGenerated"
  /\ Become(t, Run("print", task[t].left, task[t].seat, 0))
  /\ UNCHANGED <<released, Db, Log, held, syncing, History, faults>>

LogGenerated(t) ==
  /\ task[t].op = "logGenerated"
  /\ Write(Generated(task[t].seat))
  /\ Become(t, Run("print", task[t].left, task[t].seat, 0))
  /\ UNCHANGED <<released, Db, held, syncing, History, faults>>

Emit(s, n) == copies' = [copies EXCEPT ![s] = @ + n]

\* The job completes, on the printer whose turn it is or in the spool.
PrintCompletes(t) ==
  LET r == task[t]
  IN  /\ r.op = "print"
      /\ r.tried < Printers \/ Spool
      /\ Emit(r.seat, 1)
      /\ Become(t, Run("mark", r.left, r.seat, r.tried))
      /\ UNCHANGED <<released, Db, Log, held, syncing, admitted, faults>>

\* Mutant: one round too many.
PrinterFailsAgain(t) ==
  LET r == task[t]
  IN  /\ r.op = "print"
      /\ Become(t, Run("failover", r.left, r.seat, r.tried + 1))
      /\ UNCHANGED <<released, Db, Log, held, syncing, History, faults>>

\* The job is refused, aborted or past its deadline, in which case a copy may
\* still come out; onFailover is awaited next.
PrinterFails(t) ==
  LET r == task[t]
  IN  /\ r.op = "print" /\ r.tried < Printers
      /\ \E n \in {0, 1} : Emit(r.seat, n)
      /\ Become(t, Run("failover", r.left, r.seat, r.tried + 1))
      /\ UNCHANGED <<released, Db, Log, held, syncing, admitted, faults>>

LogFailover(t) ==
  LET r == task[t]
  IN  /\ r.op = "failover"
      /\ Write(Plain("PRINTER_FAILOVER"))
      /\ Become(t, Run("print", r.left, r.seat, r.tried))
      /\ UNCHANGED <<released, Db, held, syncing, History, faults>>

\* Every printer has failed and there is no spool: PrintError.
PrintExhausted(t) ==
  LET r == task[t]
  IN  /\ r.op = "print" /\ r.tried = Printers /\ ~Spool
      /\ NextSeat(t)
      /\ UNCHANGED <<released, Db, Log, held, syncing, History, faults>>

MarkPrinted(t) ==
  LET r == task[t]
  IN  /\ r.op = "mark"
      /\ papers' = Put(papers, r.seat, [token |-> papers[r.seat].token, printed |-> TRUE])
      /\ Become(t, Run("logPrinted", r.left, r.seat, 0))
      /\ UNCHANGED <<released, bundle, checkins, Log, held, syncing, History, faults>>

LogPrinted(t) ==
  /\ task[t].op = "logPrinted"
  /\ Write(Printed(task[t].seat))
  /\ NextSeat(t)
  /\ UNCHANGED <<released, Db, held, syncing, History, faults>>

-----------------------------------------------------------------------------
(* Closing and failing.                                                    *)

\* Mutant: whatever was generated counts.
GeneratedSeats == DOMAIN papers

PrintedSeats == {s \in DOMAIN papers : papers[s].printed}

\* closeExam counts, then appends EXAM_CLOSED, then discards the KEK.
StartClose(t) ==
  /\ t \notin Ticks /\ task[t] = Idle
  /\ Become(t, [op |-> "logClose", printed |-> Cardinality(PrintedSeats)])
  /\ UNCHANGED <<released, Db, Log, held, syncing, History, faults>>

LogClose(t) ==
  /\ task[t].op = "logClose"
  /\ Write(Closed(task[t].printed))
  /\ Become(t, Idle)
  /\ held' = held \ {t}
  /\ UNCHANGED <<released, Db, syncing, History, faults>>

InSeat == {"render", "logGenerated", "print", "failover", "mark", "logPrinted"}

\* Where something awaited can reject; with printers left, a failed job is
\* caught, and without any, it is the spool's write that may fail.
MayReject(r) ==
  /\ r.op \notin {"idle", "run", "mark"}
  /\ r.op = "print" => r.tried = Printers /\ Spool

\* Mutant: what a tick throws is not caught, and the timer goes with it.
FailUncaught(t) ==
  /\ faults < MaxFaults /\ faults' = faults + 1
  /\ MayReject(task[t])
  /\ IF task[t].op \in InSeat
     THEN NextSeat(t) /\ UNCHANGED held
     ELSE Finish(t)
  /\ syncing' = (syncing /\ t \notin Ticks)
  /\ UNCHANGED <<released, Db, Log, History>>

\* An append, a request or the provider rejects.  runT0 goes on to the next
\* seat; every other method ends.
Fail(t) ==
  /\ faults < MaxFaults /\ faults' = faults + 1
  /\ MayReject(task[t])
  /\ IF task[t].op \in InSeat
     THEN NextSeat(t) /\ UNCHANGED held
     ELSE Finish(t)
  /\ UNCHANGED <<released, Db, Log, syncing, History>>

\* A job is submitted while there is a printer left to take it, or the spool.
Submitted(r) == r.op = "print" /\ (r.tried < Printers \/ Spool)

Printing(p) == {task[t].seat : t \in {u \in TasksOf(p) : Submitted(task[u])}}

\* The process ends; a job it submitted may still come out.  systemd starts
\* the daemon again.
Crash(p) ==
  /\ faults < MaxFaults /\ faults' = faults + 1
  /\ task' = [t \in Tasks |-> IF t \in TasksOf(p) THEN Idle ELSE task[t]]
  /\ held' = held \ {p}
  /\ syncing' = (syncing \/ p = Daemon)
  /\ \E out \in SUBSET Printing(p) :
       copies' = [s \in Seats |-> copies[s] + IF s \in out THEN 1 ELSE 0]
  /\ UNCHANGED <<released, Db, Log, admitted>>

-----------------------------------------------------------------------------
Custody(t) ==
  StartTick(t) \/ ReceiveBundle(t) \/ LogBundle(t) \/ ReceiveKek(t) \/ LogKek(t)

Hall(t) ==
  \/ \E k \in Tokens : CheckIn(t, k)
  \/ LogCheckin(t)
  \/ StartRun(t) \/ EndRun(t)
  \/ \E s \in Seats : Generate(t, s)
  \/ StorePaper(t) \/ LogGenerated(t)
  \/ PrintCompletes(t) \/ PrinterFails(t) \/ LogFailover(t) \/ PrintExhausted(t)
  \/ MarkPrinted(t) \/ LogPrinted(t)
  \/ StartClose(t) \/ LogClose(t)

Next ==
  \/ Release
  \/ \E t \in Tasks : Custody(t) \/ Hall(t) \/ Fail(t)
  \/ \E p \in Procs : Crash(p)

Spec == Init /\ [][Next]_vars

(* The daemon's timer fires and what its ticks have begun goes on.          *)
FairSpec ==
  /\ Spec
  /\ \A t \in Ticks : WF_vars(StartTick(t)) /\ WF_vars(Custody(t) /\ task[t] # Idle)

-----------------------------------------------------------------------------
TaskStates ==
  {[op |-> op] : op \in {"idle", "fetchBundle", "logBundle", "fetchKek", "logKek"}}
    \union [op: {"logCheckin"}, token: Tokens]
    \union [op: {"logClose"}, printed: 0..Cardinality(Seats)]
    \union [op: InSeat \union {"run"}, left: SUBSET Seats, seat: Seats,
            tried: 0..Printers]

TypeOK ==
  /\ released \in BOOLEAN /\ bundle \in BOOLEAN
  /\ DOMAIN checkins \subseteq Tokens
  /\ \A k \in DOMAIN checkins : checkins[k] \in Seats
  /\ DOMAIN papers \subseteq Seats
  /\ \A s \in DOMAIN papers : papers[s] \in [token: Tokens, printed: BOOLEAN]
  /\ log \subseteq Facts /\ twice \subseteq AboutOne
  /\ held \subseteq Procs
  /\ syncing \in BOOLEAN
  /\ task \in [Tasks -> TaskStates]
  /\ copies \in [Seats -> Nat]
  /\ admitted \subseteq Tokens
  /\ faults \in 0..MaxFaults

(* T7: no two candidates are checked in at one seat, the paper of a seat is *)
(* made for the candidate who sits there, and whoever was told CHECKED IN   *)
(* is in the log, once, although check-in desks, runs and crashes overlap.  *)
SeatBinding ==
  /\ \A j, k \in DOMAIN checkins : checkins[j] = checkins[k] => j = k
  /\ \A s \in DOMAIN papers :
       papers[s].token \in DOMAIN checkins /\ checkins[papers[s].token] = s
  /\ \A k \in admitted :
       k \in DOMAIN checkins /\ CheckedIn(k) \in log /\ CheckedIn(k) \notin twice

(* A seat's paper is put on record at most once, however many runs of T-0   *)
(* overlap or are repeated.                                                 *)
OneGenerationPerSeat == \A s \in Seats : Generated(s) \notin twice

(* T3 and T4: paper that came out of a printer, a late job of a printer     *)
(* that was given up included, has its hash in the log; and what the table  *)
(* and the log call printed did come out.                                   *)
PrintedIsOnRecord ==
  \A s \in Seats :
    /\ copies[s] > 0 => s \in DOMAIN papers /\ Generated(s) \in log
    /\ s \in PrintedSeats => copies[s] > 0
    /\ Printed(s) \in log => s \in PrintedSeats

(* Re-running T-0 never prints a seat again: beyond one copy there are only *)
(* those of printers that were given up on the way.                         *)
CopiesAreBounded == \A s \in Seats : copies[s] <= Printers + 1

(* T10: EXAM_CLOSED never claims more papers than came out, although it     *)
(* counts before it is appended and runs may be under way.                  *)
CloseIsHonest ==
  \A n \in 0..Cardinality(Seats) :
    Closed(n) \in log => n <= Cardinality({s \in Seats : copies[s] > 0})

(* The daemon gets the key after the release and has it from some time on,  *)
(* although ticks overlap, requests fail and the process is restarted.      *)
KeyArrives == released ~> [](Daemon \in held)

\* A run of T-0 gives seat s up before anything is made for it.
Skips(t, s) ==
  /\ task[t].op = "run" /\ task'[t].op = "run"
  /\ s \in task[t].left \ task'[t].left

(* Runbook, exam-day.md: a seat that has its paper on record and that a run *)
(* skips, has been served.                                                  *)
SkippedSeatsAreServed ==
  [][\A t \in Tasks, s \in Seats : Skips(t, s) /\ s \in DOMAIN papers => copies[s] > 0]_vars

-----------------------------------------------------------------------------
E == INSTANCE ExamHall
       WITH seating <- checkins,
            bound   <- {s \in Seats : Generated(s) \in log},
            served  <- {s \in Seats : copies[s] > 0}

(* The node's processes together keep the promises made for the hall.       *)
ImplementsExamHall == E!Spec

=============================================================================
