------------------------- MODULE CentreNodeProofs -------------------------
(***************************************************************************)
(* What holds of a centre for any number of ticks, commands and programs,  *)
(* any hall, printers and faults.  TypeInv adds to the types the seats a   *)
(* task may still work on; CheckinInv follows a token from its check-in to *)
(* its entry; HallInv says who may work on a seat and how far its paper    *)
(* can be; CloseInv bounds what a close has counted.                       *)
(***************************************************************************)
EXTENDS CentreNode, FiniteSetTheorems, TLAPS

\* From the row in papers to the entry of the print: one task at a time.
Work == {"logGenerated", "print", "failover", "mark", "logPrinted"}

Plainly == {"idle", "fetchBundle", "logBundle", "fetchKek", "logKek"}

\* What a task works on is there: its seats are taken, its seat has a paper.
InTheHall(r) ==
  /\ r.op \in InSeat \union {"run"} => r.left \subseteq Occupied
  /\ r.op = "render" => r.seat \in Occupied
  /\ r.op \in Work => r.seat \in DOMAIN papers

TypeInv ==
  /\ TypeOK
  /\ \A t \in Ticks : task[t].op \in Plainly
  /\ \A t \in Tasks : InTheHall(task[t])

-----------------------------------------------------------------------------
(* The states of a task.                                                   *)

LEMMA StateFields ==
  ASSUME NEW r \in TaskStates
  PROVE  /\ r.op \in Plainly \union {"logCheckin", "logClose"} \union InSeat \union {"run"}
         /\ r.op = "idle" => r = Idle
         /\ r.op = "logCheckin" => r.token \in Tokens
         /\ r.op = "logClose" => r.printed \in 0..Cardinality(Seats)
         /\ r.op \in InSeat \union {"run"} =>
              r.left \subseteq Seats /\ r.seat \in Seats /\ r.tried \in 0..Printers
BY DEF TaskStates, Plainly, InSeat, Idle

LEMMA PlainStates ==
  ASSUME NEW op \in Plainly
  PROVE  [op |-> op] \in TaskStates /\ [op |-> op].op = op
BY DEF TaskStates, Plainly

LEMMA IdleState == Idle \in TaskStates /\ Idle.op = "idle"
BY PlainStates DEF Idle, Plainly

LEMMA RunStates ==
  ASSUME NEW op \in InSeat \union {"run"}, NEW left \in SUBSET Seats, NEW seat \in Seats,
         NEW tried \in 0..Printers
  PROVE  LET r == Run(op, left, seat, tried)
         IN  /\ r \in TaskStates
             /\ r.op = op /\ r.left = left /\ r.seat = seat /\ r.tried = tried
BY DEF TaskStates, Run

LEMMA CheckinState ==
  ASSUME NEW k \in Tokens
  PROVE  LET r == [op |-> "logCheckin", token |-> k]
         IN  r \in TaskStates /\ r.op = "logCheckin" /\ r.token = k
BY DEF TaskStates

LEMMA CloseState ==
  ASSUME NEW n \in 0..Cardinality(Seats)
  PROVE  LET r == [op |-> "logClose", printed |-> n]
         IN  r \in TaskStates /\ r.op = "logClose" /\ r.printed = n
BY DEF TaskStates

(* What a step does to the task that takes it.                             *)
LEMMA BecomeFacts ==
  ASSUME task \in [Tasks -> TaskStates], NEW t \in Tasks, NEW r \in TaskStates, Become(t, r)
  PROVE  /\ task' \in [Tasks -> TaskStates]
         /\ task'[t] = r
         /\ \A u \in Tasks : u # t => task'[u] = task[u]
BY DEF Become

(* What an append does to the log.                                         *)
LEMMA WriteFacts ==
  ASSUME NEW fact, Write(fact)
  PROVE  /\ \A f : f \in log' <=> f \in log \/ f = fact
         /\ \A f \in AboutOne : f \in twice' <=> f \in twice \/ (f = fact /\ f \in log)
         /\ twice \subseteq AboutOne => twice' \subseteq AboutOne
BY DEF Write

LEMMA FactsApart ==
  /\ \A j, k : CheckedIn(j) = CheckedIn(k) => j = k
  /\ \A r, s : Generated(r) = Generated(s) => r = s
  /\ \A r, s : Printed(r) = Printed(s) => r = s
  /\ \A m, n : Closed(m) = Closed(n) => m = n
  /\ \A k, s : CheckedIn(k) # Generated(s) /\ CheckedIn(k) # Printed(s) /\ CheckedIn(k) # Closed(s)
  /\ \A r, s : Generated(r) # Printed(s) /\ Generated(r) # Closed(s) /\ Printed(r) # Closed(s)
  /\ \A type \in {"BUNDLE_RECEIVED", "KEK_RECEIVED", "PRINTER_FAILOVER"} : \A x :
       /\ Plain(type) # CheckedIn(x) /\ Plain(type) # Generated(x)
       /\ Plain(type) # Printed(x) /\ Plain(type) # Closed(x)
BY DEF CheckedIn, Generated, Printed, Closed, Plain

LEMMA FactsAreTyped ==
  /\ \A k \in Tokens : CheckedIn(k) \in Facts \intersect AboutOne
  /\ \A s \in Seats : Generated(s) \in Facts \intersect AboutOne /\ Printed(s) \in Facts \intersect AboutOne
  /\ \A n \in 0..Cardinality(Seats) : Closed(n) \in Facts
  /\ \A type \in {"BUNDLE_RECEIVED", "KEK_RECEIVED", "PRINTER_FAILOVER"} : Plain(type) \in Facts
BY DEF Facts, AboutOne

LEMMA TokenAtSits ==
  ASSUME NEW s \in Occupied
  PROVE  TokenAt(s) \in DOMAIN checkins /\ checkins[TokenAt(s)] = s
BY DEF Occupied, TokenAt

-----------------------------------------------------------------------------
(* Types.                                                                  *)

LEMMA Sizes == Cardinality(Seats) \in Nat
BY CentreAssumption, FS_CardinalityType

LEMMA TypeInit == Init => TypeInv
<1> SUFFICES ASSUME Init PROVE TypeInv
  OBVIOUS
<1>1. \A t \in Tasks : task[t] = Idle
  BY DEF Init
<1>2. task \in [Tasks -> TaskStates]
  BY IdleState DEF Init
<1>3. TypeOK
  <2>1. DOMAIN checkins = {} /\ DOMAIN papers = {}
    BY DEF Init
  <2>2. copies \in [Seats -> Nat]
    BY DEF Init
  <2>3. faults \in 0..MaxFaults
    BY CentreAssumption DEF Init
  <2> QED BY <1>2, <2>1, <2>2, <2>3 DEF Init, TypeOK
<1>4. \A t \in Tasks : InTheHall(task[t])
  BY <1>1, IdleState DEF InTheHall, InSeat, Work
<1>5. \A t \in Ticks : task[t].op \in Plainly
  BY <1>1, IdleState DEF Plainly, Tasks
<1> QED BY <1>3, <1>4, <1>5 DEF TypeInv

(* The conjuncts about tasks, for a step of one task.                      *)
LEMMA TaskMoves ==
  ASSUME TypeInv, NEW t \in Tasks, NEW r \in TaskStates, Become(t, r),
         Occupied \subseteq Occupied', DOMAIN papers \subseteq DOMAIN papers',
         t \in Ticks => r.op \in Plainly, InTheHall(r)'
  PROVE  /\ task' \in [Tasks -> TaskStates]
         /\ \A u \in Ticks : task'[u].op \in Plainly
         /\ (\A u \in Tasks : InTheHall(task[u]))'
<1>1. /\ task' \in [Tasks -> TaskStates]
      /\ task'[t] = r
      /\ \A u \in Tasks : u # t => task'[u] = task[u]
  BY BecomeFacts DEF TypeInv, TypeOK
<1>2. \A u \in Ticks : task'[u].op \in Plainly
  BY <1>1 DEF TypeInv, Tasks
<1>3. ASSUME NEW u \in Tasks PROVE InTheHall(task[u])'
  <2>1. CASE u = t
    BY <1>1, <2>1 DEF InTheHall
  <2>2. CASE u # t
    <3>1. InTheHall(task[u])
      BY DEF TypeInv
    <3>2. task'[u] = task[u]
      BY <1>1, <2>2
    <3> QED BY <3>1, <3>2 DEF InTheHall
  <2> QED BY <2>1, <2>2
<1> QED BY <1>1, <1>2, <1>3

(* The same for a step that only leaves a task without a seat.             *)
LEMMA PlainMoves ==
  ASSUME TypeInv, NEW t \in Tasks, NEW r \in TaskStates, Become(t, r),
         Occupied \subseteq Occupied', DOMAIN papers \subseteq DOMAIN papers',
         r.op \in Plainly \union {"logCheckin", "logClose"},
         t \in Ticks => r.op \in Plainly
  PROVE  /\ task' \in [Tasks -> TaskStates]
         /\ \A u \in Ticks : task'[u].op \in Plainly
         /\ (\A u \in Tasks : InTheHall(task[u]))'
<1>1. InTheHall(r)'
  BY DEF InTheHall, Plainly, InSeat, Work
<1> QED BY <1>1, TaskMoves

(* A step of a run, in its own words.                                      *)
LEMMA RunMoves ==
  ASSUME TypeInv, NEW t \in Tasks, t \notin Ticks,
         NEW op \in InSeat \union {"run"}, NEW left \in SUBSET Occupied, NEW seat \in Seats,
         NEW tried \in 0..Printers, Become(t, Run(op, left, seat, tried)),
         UNCHANGED checkins, DOMAIN papers \subseteq DOMAIN papers',
         op = "render" => seat \in Occupied, op \in Work => seat \in DOMAIN papers'
  PROVE  /\ task' \in [Tasks -> TaskStates]
         /\ \A u \in Ticks : task'[u].op \in Plainly
         /\ (\A u \in Tasks : InTheHall(task[u]))'
<1>0. Occupied \subseteq Seats /\ Occupied' = Occupied
  BY DEF TypeInv, TypeOK, Occupied
<1> PICK r : r = Run(op, left, seat, tried)
  OBVIOUS
<1>1. r \in TaskStates /\ r.op = op /\ r.left = left /\ r.seat = seat
  BY <1>0, RunStates
<1>2. InTheHall(r)'
  BY <1>0, <1>1 DEF InTheHall
<1> QED BY <1>0, <1>1, <1>2, TaskMoves

(* A task that is in a seat's hands, or in a run, is no tick.              *)
LEMMA RunFields ==
  ASSUME TypeInv, NEW t \in Tasks, task[t].op \in InSeat \union {"run"}
  PROVE  LET r == task[t]
         IN  /\ t \notin Ticks
             /\ r.left \in SUBSET Occupied /\ r.seat \in Seats /\ r.tried \in 0..Printers
             /\ r.op = "render" => r.seat \in Occupied
             /\ r.op \in Work => r.seat \in DOMAIN papers
<1>1. task[t] \in TaskStates /\ InTheHall(task[t]) /\ (t \in Ticks => task[t].op \in Plainly)
  BY DEF TypeInv, TypeOK
<1>2. t \notin Ticks
  BY <1>1 DEF Plainly, InSeat
<1> QED BY <1>1, <1>2, StateFields DEF InTheHall

LEMMA CustodyTypes ==
  ASSUME TypeInv, NEW t \in Tasks, Custody(t)
  PROVE  TypeInv'
<1> USE DEF TypeInv
<1>0. /\ ProcOf(t) \in Procs
      /\ \A op \in Plainly : [op |-> op] \in TaskStates /\ [op |-> op].op = op
      /\ Idle \in TaskStates /\ Idle.op = "idle"
  BY PlainStates, IdleState DEF ProcOf, Procs, Tasks
<1>1. ASSUME StartTick(t) PROVE TypeInv'
  <2>1. PICK op \in {"fetchKek", "fetchBundle"} : Become(t, [op |-> op])
    BY <1>1 DEF StartTick
  <2>2. PICK r \in TaskStates : r.op = op /\ Become(t, r)
    BY <1>0, <2>1 DEF Plainly
  <2>3. UNCHANGED <<checkins, papers>>
    BY <1>1 DEF StartTick, Db
  <2>4. r.op \in Plainly
    BY <2>2 DEF Plainly
  <2>5. /\ task' \in [Tasks -> TaskStates]
        /\ \A u \in Ticks : task'[u].op \in Plainly
        /\ (\A u \in Tasks : InTheHall(task[u]))'
    BY <2>2, <2>3, <2>4, PlainMoves DEF Occupied
  <2> QED BY <1>1, <2>5 DEF StartTick, TypeOK, Db, Log, History
<1>2. ASSUME ReceiveBundle(t) PROVE TypeInv'
  <2>1. PICK op \in {"idle", "logBundle"} : Become(t, [op |-> op])
    BY <1>2 DEF ReceiveBundle, Finish, Idle
  <2>2. PICK r \in TaskStates : r.op = op /\ Become(t, r)
    BY <1>0, <2>1 DEF Plainly
  <2>3. UNCHANGED <<checkins, papers>>
    BY <1>2 DEF ReceiveBundle
  <2>4. r.op \in Plainly
    BY <2>2 DEF Plainly
  <2>5. /\ task' \in [Tasks -> TaskStates]
        /\ \A u \in Ticks : task'[u].op \in Plainly
        /\ (\A u \in Tasks : InTheHall(task[u]))'
    BY <2>2, <2>3, <2>4, PlainMoves DEF Occupied
  <2>6. bundle' \in BOOLEAN /\ held' \subseteq held
    BY <1>2 DEF ReceiveBundle, Finish
  <2> QED BY <1>2, <2>5, <2>6 DEF ReceiveBundle, TypeOK, Log, History
<1>3. ASSUME LogBundle(t) PROVE TypeInv'
  <2>1. PICK op \in {"idle", "fetchKek"} : Become(t, [op |-> op])
    BY <1>3 DEF LogBundle, Finish, Idle
  <2>2. PICK r \in TaskStates : r.op = op /\ Become(t, r)
    BY <1>0, <2>1 DEF Plainly
  <2>3. UNCHANGED <<checkins, papers>>
    BY <1>3 DEF LogBundle, Db
  <2>4. r.op \in Plainly
    BY <2>2 DEF Plainly
  <2>5. /\ task' \in [Tasks -> TaskStates]
        /\ \A u \in Ticks : task'[u].op \in Plainly
        /\ (\A u \in Tasks : InTheHall(task[u]))'
    BY <2>2, <2>3, <2>4, PlainMoves DEF Occupied
  <2>6. held' \subseteq held
    BY <1>3 DEF LogBundle, Finish
  <2>7. log' \subseteq Facts /\ twice' \subseteq AboutOne
    BY <1>3, WriteFacts, FactsAreTyped DEF LogBundle, TypeOK
  <2> QED BY <1>3, <2>5, <2>6, <2>7 DEF LogBundle, TypeOK, Db, History
<1>4. ASSUME ReceiveKek(t) PROVE TypeInv'
  <2>1. PICK op \in {"idle", "logKek"} : Become(t, [op |-> op])
    BY <1>4 DEF ReceiveKek, Finish, Idle
  <2>2. PICK r \in TaskStates : r.op = op /\ Become(t, r)
    BY <1>0, <2>1 DEF Plainly
  <2>3. UNCHANGED <<checkins, papers>>
    BY <1>4 DEF ReceiveKek, Db
  <2>4. r.op \in Plainly
    BY <2>2 DEF Plainly
  <2>5. /\ task' \in [Tasks -> TaskStates]
        /\ \A u \in Ticks : task'[u].op \in Plainly
        /\ (\A u \in Tasks : InTheHall(task[u]))'
    BY <2>2, <2>3, <2>4, PlainMoves DEF Occupied
  <2>6. held' \subseteq Procs
    BY <1>0, <1>4 DEF ReceiveKek, Finish, TypeOK
  <2> QED BY <1>4, <2>5, <2>6 DEF ReceiveKek, TypeOK, Db, Log, History
<1>5. ASSUME LogKek(t) PROVE TypeInv'
  <2>3. UNCHANGED <<checkins, papers>>
    BY <1>5 DEF LogKek, Db
  <2>5. /\ task' \in [Tasks -> TaskStates]
        /\ \A u \in Ticks : task'[u].op \in Plainly
        /\ (\A u \in Tasks : InTheHall(task[u]))'
    BY <1>0, <1>5, <2>3, PlainMoves DEF Occupied, LogKek, Finish, Plainly
  <2>6. held' \subseteq held /\ syncing' \in BOOLEAN
    BY <1>5 DEF LogKek, Finish, TypeOK
  <2>7. log' \subseteq Facts /\ twice' \subseteq AboutOne
    BY <1>5, WriteFacts, FactsAreTyped DEF LogKek, TypeOK
  <2> QED BY <1>5, <2>5, <2>6, <2>7 DEF LogKek, TypeOK, Db, History
<1> QED BY <1>1, <1>2, <1>3, <1>4, <1>5 DEF Custody

(* What TypeInv says of the tasks, after a step.                           *)
TasksKept ==
  /\ task' \in [Tasks -> TaskStates]
  /\ \A u \in Ticks : task'[u].op \in Plainly
  /\ (\A u \in Tasks : InTheHall(task[u]))'

\* A command or a program ends: Finish, whatever it was doing.
LEMMA FinishKeeps ==
  ASSUME TypeInv, NEW t \in Tasks, Become(t, Idle), UNCHANGED <<checkins, papers>>
  PROVE  TasksKept
BY IdleState, PlainMoves DEF Plainly, Occupied, TasksKept

\* runT0 goes on to the next seat.
LEMMA NextSeatKeeps ==
  ASSUME TypeInv, NEW t \in Tasks, task[t].op \in InSeat \union {"run"}, NextSeat(t),
         UNCHANGED checkins, DOMAIN papers \subseteq DOMAIN papers'
  PROVE  TasksKept
<1>1. /\ t \notin Ticks
      /\ task[t].left \in SUBSET Occupied /\ task[t].seat \in Seats
      /\ 0 \in 0..Printers
  BY RunFields, CentreAssumption
<1>2. PICK l \in SUBSET Occupied : l = task[t].left
  BY <1>1
<1>3. PICK s \in Seats : s = task[t].seat
  BY <1>1
<1>4. Become(t, Run("run", l, s, 0))
  BY <1>2, <1>3 DEF NextSeat
<1> QED BY <1>1, <1>4, RunMoves DEF TasksKept, InSeat, Work

\* A step on the seat in hand, from one stage of it to another.
LEMMA StageKeeps ==
  ASSUME TypeInv, NEW t \in Tasks, task[t].op \in InSeat,
         NEW op \in Work, NEW tried \in 0..Printers,
         Become(t, Run(op, task[t].left, task[t].seat, tried)),
         UNCHANGED checkins, DOMAIN papers \subseteq DOMAIN papers',
         task[t].seat \in DOMAIN papers'
  PROVE  TasksKept
<1>1. t \notin Ticks /\ task[t].left \in SUBSET Occupied /\ task[t].seat \in Seats
  BY RunFields
<1>2. PICK l \in SUBSET Occupied : l = task[t].left
  BY <1>1
<1>3. PICK s \in Seats : s = task[t].seat
  BY <1>1
<1>4. Become(t, Run(op, l, s, tried))
  BY <1>2, <1>3
<1> QED BY <1>1, <1>3, <1>4, RunMoves DEF TasksKept, InSeat, Work

LEMMA CheckinTypes ==
  ASSUME TypeInv, NEW t \in Tasks,
         (\E k \in Tokens : CheckIn(t, k)) \/ LogCheckin(t)
  PROVE  TypeInv'
<1> USE DEF TypeInv
<1>1. ASSUME NEW k \in Tokens, CheckIn(t, k) PROVE TypeInv'
  <2>1. PICK r \in TaskStates : r.op = "logCheckin" /\ Become(t, r)
    BY <1>1, CheckinState DEF CheckIn
  <2>2. SeatOf[k] \in Seats
    BY CentreAssumption
  <2>3. /\ DOMAIN checkins' = DOMAIN checkins \union {k}
        /\ checkins'[k] = SeatOf[k]
        /\ \A j \in DOMAIN checkins : checkins'[j] = checkins[j]
    BY <1>1 DEF CheckIn, Put
  <2>4. Occupied \subseteq Occupied'
    BY <2>3 DEF Occupied
  <2>5. TasksKept
    BY <1>1, <2>1, <2>4, PlainMoves DEF CheckIn, TasksKept
  <2>6. /\ DOMAIN checkins' \subseteq Tokens
        /\ \A j \in DOMAIN checkins' : checkins'[j] \in Seats
    BY <2>2, <2>3 DEF TypeOK
  <2> QED BY <1>1, <2>5, <2>6 DEF CheckIn, TasksKept, TypeOK, Log, History
<1>2. ASSUME LogCheckin(t) PROVE TypeInv'
  <2>1. task[t].token \in Tokens
    BY <1>2, StateFields DEF LogCheckin, TypeOK
  <2>2. UNCHANGED <<checkins, papers>> /\ Become(t, Idle)
    BY <1>2 DEF LogCheckin, Db, Finish
  <2>3. TasksKept
    BY <2>2, FinishKeeps
  <2>4. log' \subseteq Facts /\ twice' \subseteq AboutOne
    BY <1>2, <2>1, WriteFacts, FactsAreTyped DEF LogCheckin, TypeOK
  <2>5. held' \subseteq held /\ admitted' \subseteq Tokens
    BY <1>2, <2>1 DEF LogCheckin, Finish, TypeOK
  <2> QED BY <1>2, <2>3, <2>4, <2>5 DEF LogCheckin, TasksKept, TypeOK, Db
<1> QED BY <1>1, <1>2

LEMMA RunTypes ==
  ASSUME TypeInv, NEW t \in Tasks,
         StartRun(t) \/ EndRun(t) \/ \E s \in Seats : Generate(t, s)
  PROVE  TypeInv'
<1> USE DEF TypeInv
<1>1. ASSUME StartRun(t) PROVE TypeInv'
  <2>1. PICK s \in Occupied : Become(t, Run("run", Occupied, s, 0))
    BY <1>1 DEF StartRun
  <2>2. s \in Seats /\ 0 \in 0..Printers
    BY CentreAssumption DEF TypeOK, Occupied
  <2>3. UNCHANGED <<checkins, papers>>
    BY <1>1 DEF StartRun, Db
  <2>4. PICK l \in SUBSET Occupied : l = Occupied
    OBVIOUS
  <2>5. Become(t, Run("run", l, s, 0))
    BY <2>1, <2>4
  <2>6. TasksKept
    BY <1>1, <2>2, <2>3, <2>5, RunMoves DEF StartRun, TasksKept, InSeat, Work
  <2> QED BY <1>1, <2>6 DEF StartRun, TasksKept, TypeOK, Db, Log, History
<1>2. ASSUME EndRun(t) PROVE TypeInv'
  <2>1. TasksKept
    BY <1>2, FinishKeeps DEF EndRun, Finish, Db
  <2>2. held' \subseteq held
    BY <1>2 DEF EndRun, Finish
  <2> QED BY <1>2, <2>1, <2>2 DEF EndRun, TasksKept, TypeOK, Db, Log, History
<1>3. ASSUME NEW s \in Seats, Generate(t, s) PROVE TypeInv'
  <2>1. task[t].op = "run" /\ s \in task[t].left /\ UNCHANGED <<checkins, papers>>
    BY <1>3 DEF Generate, Db
  <2>2. t \notin Ticks /\ task[t].left \in SUBSET Occupied /\ 0 \in 0..Printers
    BY <2>1, RunFields, CentreAssumption
  <2>3. PICK op \in {"render", "run"} : Become(t, Run(op, task[t].left \ {s}, s, 0))
    BY <1>3 DEF Generate
  <2>4. PICK l \in SUBSET Occupied : l = task[t].left \ {s}
    BY <2>2
  <2>5. Become(t, Run(op, l, s, 0)) /\ s \in Occupied
    BY <2>1, <2>2, <2>3, <2>4
  <2>6. TasksKept
    BY <2>1, <2>2, <2>5, RunMoves DEF TasksKept, InSeat, Work
  <2> QED BY <1>3, <2>6 DEF Generate, TasksKept, TypeOK, Db, Log, History
<1> QED BY <1>1, <1>2, <1>3

LEMMA PaperTypes ==
  ASSUME TypeInv, NEW t \in Tasks, StorePaper(t) \/ LogGenerated(t)
  PROVE  TypeInv'
<1> USE DEF TypeInv
<1>1. ASSUME StorePaper(t) PROVE TypeInv'
  <2> DEFINE s == task[t].seat
             row == [token |-> TokenAt(s), printed |-> FALSE]
  <2>1. task[t].op = "render" /\ UNCHANGED checkins
    BY <1>1 DEF StorePaper
  <2>2. s \in Seats /\ s \in Occupied /\ 0 \in 0..Printers
    BY <2>1, RunFields, CentreAssumption DEF InSeat
  <2>3. CASE s \in DOMAIN papers
    <3>1. NextSeat(t) /\ UNCHANGED papers
      BY <1>1, <2>3 DEF StorePaper
    <3>2. TasksKept
      BY <2>1, <3>1, NextSeatKeeps DEF InSeat
    <3> QED BY <1>1, <3>1, <3>2 DEF StorePaper, TasksKept, TypeOK, Log, History
  <2>4. CASE s \notin DOMAIN papers
    <3>1. papers' = Put(papers, s, row) /\ Become(t, Run("logGenerated", task[t].left, s, 0))
      BY <1>1, <2>4 DEF StorePaper
    <3>2. TokenAt(s) \in Tokens
      BY <2>2, TokenAtSits DEF TypeOK
    <3>3. row \in [token: Tokens, printed: BOOLEAN]
      BY <3>2
    <3> HIDE DEF row
    <3>4. /\ DOMAIN papers' = DOMAIN papers \union {s}
          /\ papers'[s] = row
          /\ \A r \in DOMAIN papers : papers'[r] = papers[r]
      BY <2>4, <3>1 DEF Put
    <3>5. TasksKept
      BY <2>1, <2>2, <3>1, <3>4, StageKeeps DEF InSeat, Work
    <3>6. /\ DOMAIN papers' \subseteq Seats
          /\ \A r \in DOMAIN papers' : papers'[r] \in [token: Tokens, printed: BOOLEAN]
      BY <2>2, <3>3, <3>4 DEF TypeOK
    <3> QED BY <1>1, <3>5, <3>6 DEF StorePaper, TasksKept, TypeOK, Log, History
  <2> QED BY <2>3, <2>4
<1>2. ASSUME LogGenerated(t) PROVE TypeInv'
  <2>1. task[t].op = "logGenerated" /\ UNCHANGED <<checkins, papers>>
    BY <1>2 DEF LogGenerated, Db
  <2>2. task[t].seat \in Seats /\ task[t].seat \in DOMAIN papers /\ 0 \in 0..Printers
    BY <2>1, RunFields, CentreAssumption DEF InSeat, Work
  <2>3. TasksKept
    BY <1>2, <2>1, <2>2, StageKeeps DEF LogGenerated, InSeat, Work
  <2>4. log' \subseteq Facts /\ twice' \subseteq AboutOne
    BY <1>2, <2>2, WriteFacts, FactsAreTyped DEF LogGenerated, TypeOK
  <2> QED BY <1>2, <2>3, <2>4 DEF LogGenerated, TasksKept, TypeOK, Db, History
<1> QED BY <1>1, <1>2

LEMMA EmitTypes ==
  ASSUME copies \in [Seats -> Nat], NEW s \in Seats, NEW n \in {0, 1}, Emit(s, n)
  PROVE  /\ copies' \in [Seats -> Nat]
         /\ copies'[s] = copies[s] + n
         /\ \A r \in Seats : r # s => copies'[r] = copies[r]
BY DEF Emit

LEMMA PrintTypes ==
  ASSUME TypeInv, NEW t \in Tasks,
         PrintCompletes(t) \/ PrinterFails(t) \/ LogFailover(t) \/ PrintExhausted(t)
  PROVE  TypeInv'
<1> USE DEF TypeInv
<1> DEFINE s == task[t].seat
<1>0. /\ task[t].op \in {"print", "failover"}
      /\ UNCHANGED <<checkins, papers>>
  BY DEF PrintCompletes, PrinterFails, LogFailover, PrintExhausted, Db
<1>a. s \in Seats /\ s \in DOMAIN papers /\ task[t].tried \in 0..Printers
  BY <1>0, RunFields DEF InSeat, Work
<1>1. ASSUME PrintCompletes(t) PROVE TypeInv'
  <2>1. TasksKept
    BY <1>0, <1>1, <1>a, StageKeeps DEF PrintCompletes, InSeat, Work
  <2>2. copies' \in [Seats -> Nat]
    BY <1>1, <1>a, EmitTypes DEF PrintCompletes, TypeOK
  <2> QED BY <1>1, <2>1, <2>2 DEF PrintCompletes, TasksKept, TypeOK, Db, Log
<1>2. ASSUME PrinterFails(t) PROVE TypeInv'
  <2>1. task[t].tried + 1 \in 0..Printers
    BY <1>2, <1>a, CentreAssumption DEF PrinterFails
  <2>2. TasksKept
    BY <1>0, <1>2, <1>a, <2>1, StageKeeps DEF PrinterFails, InSeat, Work
  <2>3. PICK n \in {0, 1} : Emit(s, n)
    BY <1>2 DEF PrinterFails
  <2>4. copies' \in [Seats -> Nat]
    BY <1>a, <2>3, EmitTypes DEF TypeOK
  <2> QED BY <1>2, <2>2, <2>4 DEF PrinterFails, TasksKept, TypeOK, Db, Log
<1>3. ASSUME LogFailover(t) PROVE TypeInv'
  <2>1. TasksKept
    BY <1>0, <1>3, <1>a, StageKeeps DEF LogFailover, InSeat, Work
  <2>2. log' \subseteq Facts /\ twice' \subseteq AboutOne
    BY <1>3, WriteFacts, FactsAreTyped DEF LogFailover, TypeOK
  <2> QED BY <1>3, <2>1, <2>2 DEF LogFailover, TasksKept, TypeOK, Db, History
<1>4. ASSUME PrintExhausted(t) PROVE TypeInv'
  <2>1. TasksKept
    BY <1>0, <1>4, NextSeatKeeps DEF PrintExhausted, InSeat
  <2> QED BY <1>4, <2>1 DEF PrintExhausted, TasksKept, TypeOK, Db, Log, History
<1> QED BY <1>1, <1>2, <1>3, <1>4

LEMMA MarkTypes ==
  ASSUME TypeInv, NEW t \in Tasks, MarkPrinted(t) \/ LogPrinted(t)
  PROVE  TypeInv'
<1> USE DEF TypeInv
<1> DEFINE s == task[t].seat
<1>0. task[t].op \in {"mark", "logPrinted"} /\ UNCHANGED checkins
  BY DEF MarkPrinted, LogPrinted, Db
<1>a. s \in Seats /\ s \in DOMAIN papers /\ 0 \in 0..Printers
  BY <1>0, RunFields, CentreAssumption DEF InSeat, Work
<1>1. ASSUME MarkPrinted(t) PROVE TypeInv'
  <2> DEFINE row == [token |-> papers[s].token, printed |-> TRUE]
  <2>1. row \in [token: Tokens, printed: BOOLEAN]
    BY <1>a DEF TypeOK
  <2>2. papers' = Put(papers, s, row)
    BY <1>1 DEF MarkPrinted
  <2> HIDE DEF row
  <2>3. /\ DOMAIN papers' = DOMAIN papers
        /\ \A r \in DOMAIN papers : papers'[r] \in {papers[r], row}
    BY <1>a, <2>2 DEF Put
  <2>4. /\ DOMAIN papers' \subseteq Seats
        /\ \A r \in DOMAIN papers' : papers'[r] \in [token: Tokens, printed: BOOLEAN]
    BY <2>1, <2>3 DEF TypeOK
  <2>5. TasksKept
    BY <1>0, <1>1, <1>a, <2>3, StageKeeps DEF MarkPrinted, InSeat, Work
  <2> QED BY <1>1, <2>4, <2>5 DEF MarkPrinted, TasksKept, TypeOK, Log, History
<1>2. ASSUME LogPrinted(t) PROVE TypeInv'
  <2>1. NextSeat(t) /\ UNCHANGED papers
    BY <1>2 DEF LogPrinted, Db
  <2>2. TasksKept
    BY <1>0, <2>1, NextSeatKeeps DEF InSeat
  <2>3. log' \subseteq Facts /\ twice' \subseteq AboutOne
    BY <1>2, <1>a, WriteFacts, FactsAreTyped DEF LogPrinted, TypeOK
  <2> QED BY <1>2, <2>2, <2>3 DEF LogPrinted, TasksKept, TypeOK, Db, History
<1> QED BY <1>1, <1>2

LEMMA Counted ==
  ASSUME TypeInv
  PROVE  /\ PrintedSeats \subseteq Seats
         /\ Cardinality(PrintedSeats) \in 0..Cardinality(Seats)
<1>1. PrintedSeats \subseteq Seats
  BY DEF TypeInv, TypeOK, PrintedSeats
<1>2. /\ Cardinality(PrintedSeats) \in Nat
      /\ Cardinality(PrintedSeats) <= Cardinality(Seats)
  BY <1>1, CentreAssumption, FS_Subset, FS_CardinalityType
<1> QED BY <1>1, <1>2, Sizes

LEMMA CloseTypes ==
  ASSUME TypeInv, NEW t \in Tasks, StartClose(t) \/ LogClose(t)
  PROVE  TypeInv'
<1> USE DEF TypeInv
<1>1. ASSUME StartClose(t) PROVE TypeInv'
  <2>1. PICK n \in 0..Cardinality(Seats) : n = Cardinality(PrintedSeats)
    BY Counted
  <2>2. PICK r \in TaskStates : r.op = "logClose" /\ Become(t, r)
    BY <1>1, <2>1, CloseState DEF StartClose
  <2>3. UNCHANGED <<checkins, papers>>
    BY <1>1 DEF StartClose, Db
  <2>4. TasksKept
    BY <1>1, <2>2, <2>3, PlainMoves DEF StartClose, TasksKept, Occupied
  <2> QED BY <1>1, <2>4 DEF StartClose, TasksKept, TypeOK, Db, Log, History
<1>2. ASSUME LogClose(t) PROVE TypeInv'
  <2>1. task[t].printed \in 0..Cardinality(Seats)
    BY <1>2, StateFields DEF LogClose, TypeOK
  <2>2. TasksKept
    BY <1>2, FinishKeeps DEF LogClose, Db
  <2>3. log' \subseteq Facts /\ twice' \subseteq AboutOne
    BY <1>2, <2>1, WriteFacts, FactsAreTyped DEF LogClose, TypeOK
  <2> QED BY <1>2, <2>2, <2>3 DEF LogClose, TasksKept, TypeOK, Db, History
<1> QED BY <1>1, <1>2

LEMMA FailTypes ==
  ASSUME TypeInv, NEW t \in Tasks, Fail(t)
  PROVE  TypeInv'
<1> USE DEF TypeInv
<1>1. UNCHANGED <<checkins, papers>>
  BY DEF Fail, Db
<1>2. TasksKept
  <2>1. CASE task[t].op \in InSeat
    BY <1>1, <2>1, NextSeatKeeps DEF Fail
  <2>2. CASE task[t].op \notin InSeat
    BY <1>1, <2>2, FinishKeeps DEF Fail, Finish
  <2> QED BY <2>1, <2>2
<1>3. held' \subseteq held /\ faults' \in 0..MaxFaults
  BY CentreAssumption DEF Fail, Finish, TypeOK
<1> QED BY <1>2, <1>3 DEF Fail, TasksKept, TypeOK, Db, Log, History

LEMMA CrashTypes ==
  ASSUME TypeInv, NEW p \in Procs, Crash(p)
  PROVE  TypeInv'
<1> USE DEF TypeInv
<1>1. UNCHANGED <<checkins, papers>>
  BY DEF Crash, Db
<1>2. \A u \in Tasks : task'[u] = IF u \in TasksOf(p) THEN Idle ELSE task[u]
  BY DEF Crash
<1>3. TasksKept
  <2>1. task' \in [Tasks -> TaskStates]
    BY IdleState DEF Crash, TypeOK
  <2>2. \A u \in Ticks : task'[u].op \in Plainly
    BY <1>2, IdleState DEF Tasks, Plainly
  <2>3. ASSUME NEW u \in Tasks PROVE InTheHall(task[u])'
    <3>1. InTheHall(task[u])
      OBVIOUS
    <3>2. CASE u \in TasksOf(p)
      BY <1>2, <3>2, IdleState DEF InTheHall, InSeat, Work
    <3>3. CASE u \notin TasksOf(p)
      BY <1>1, <1>2, <3>1, <3>3 DEF InTheHall, Occupied
    <3> QED BY <3>2, <3>3
  <2> QED BY <2>1, <2>2, <2>3 DEF TasksKept
<1>4. PICK out \in SUBSET Printing(p) :
        copies' = [s \in Seats |-> copies[s] + IF s \in out THEN 1 ELSE 0]
  BY DEF Crash
<1>5. copies' \in [Seats -> Nat]
  BY <1>4 DEF TypeOK
<1>6. held' \subseteq held /\ faults' \in 0..MaxFaults /\ syncing' \in BOOLEAN
  BY CentreAssumption DEF Crash, TypeOK
<1> QED BY <1>3, <1>5, <1>6 DEF Crash, TasksKept, TypeOK, Db, Log

LEMMA TypeStep ==
  ASSUME TypeInv, [Next]_vars
  PROVE  TypeInv'
<1>1. CASE Release
  BY <1>1 DEF Release, TypeInv, TypeOK, InTheHall, Occupied, Db, Log, History
<1>2. ASSUME NEW t \in Tasks, Hall(t) PROVE TypeInv'
  BY <1>2, CheckinTypes, RunTypes, PaperTypes, PrintTypes, MarkTypes, CloseTypes DEF Hall
<1>3. CASE UNCHANGED vars
  BY <1>3 DEF vars, TypeInv, TypeOK, InTheHall, Occupied, Db, Log, History
<1> QED BY <1>1, <1>2, <1>3, CustodyTypes, FailTypes, CrashTypes DEF Next

THEOREM CentreTypeInv == Spec => []TypeInv
BY TypeInit, TypeStep, PTL DEF Spec

(* Whatever its processes do and wherever they end, the tables, the log    *)
(* and what each task has in hand keep their form.                         *)
THEOREM CentreTypes == Spec => []TypeOK
<1>1. TypeInv => TypeOK
  BY DEF TypeInv
<1> QED BY <1>1, CentreTypeInv, PTL

-----------------------------------------------------------------------------
(* Check-in: from the row to the entry and the line on the screen.         *)

InHand(t, k) == task[t].op = "logCheckin" /\ task[t].token = k

CheckinInv ==
  /\ \A j, k \in DOMAIN checkins : checkins[j] = checkins[k] => j = k
  /\ \A t \in Tasks, k \in Tokens :
       InHand(t, k) => k \in DOMAIN checkins /\ CheckedIn(k) \notin log
  /\ \A t, u \in Tasks, k \in Tokens : InHand(t, k) /\ InHand(u, k) => t = u
  /\ \A k \in Tokens : CheckedIn(k) \in log => k \in DOMAIN checkins
  /\ \A k \in Tokens : CheckedIn(k) \notin twice
  /\ \A k \in admitted : CheckedIn(k) \in log

LEMMA CheckinInit == Init => CheckinInv
<1> SUFFICES ASSUME Init PROVE CheckinInv
  OBVIOUS
<1>1. \A t \in Tasks, k \in Tokens : ~InHand(t, k)
  BY IdleState DEF Init, InHand
<1>2. DOMAIN checkins = {}
  BY DEF Init
<1> QED BY <1>1, <1>2 DEF Init, CheckinInv

(* A step that concerns no check-in.                                       *)
LEMMA CheckinFrame ==
  ASSUME CheckinInv, UNCHANGED <<checkins, admitted>>,
         \A k \in Tokens : /\ CheckedIn(k) \in log' <=> CheckedIn(k) \in log
                           /\ CheckedIn(k) \in twice' => CheckedIn(k) \in twice,
         \A t \in Tasks, k \in Tokens : InHand(t, k)' => InHand(t, k),
         admitted \subseteq Tokens
  PROVE  CheckinInv'
BY DEF CheckinInv

(* Most steps put nothing of a check-in on record and take none up.        *)
NoCheckin ==
  /\ UNCHANGED <<checkins, admitted>>
  /\ \A k \in Tokens : /\ CheckedIn(k) \in log' <=> CheckedIn(k) \in log
                       /\ CheckedIn(k) \in twice' => CheckedIn(k) \in twice
  /\ \A t \in Tasks, k \in Tokens : InHand(t, k)' => InHand(t, k)

LEMMA OtherEntries ==
  ASSUME NEW fact, Write(fact), \A k \in Tokens : CheckedIn(k) # fact
  PROVE  \A k \in Tokens : /\ CheckedIn(k) \in log' <=> CheckedIn(k) \in log
                           /\ CheckedIn(k) \in twice' => CheckedIn(k) \in twice
BY DEF Write

LEMMA TakesNoneUp ==
  ASSUME TypeInv, NEW t \in Tasks, NEW r \in TaskStates, Become(t, r), r.op # "logCheckin"
  PROVE  \A u \in Tasks, k \in Tokens : InHand(u, k)' => InHand(u, k)
<1>1. /\ task'[t] = r
      /\ \A u \in Tasks : u # t => task'[u] = task[u]
  BY BecomeFacts DEF TypeInv, TypeOK
<1> QED BY <1>1 DEF InHand

\* What a task turns to: the state of a run, or a state without data.
LEMMA RunTakesNoneUp ==
  ASSUME TypeInv, NEW t \in Tasks, NEW op \in InSeat \union {"run"}, NEW left, NEW seat, NEW tried,
         Become(t, Run(op, left, seat, tried))
  PROVE  \A u \in Tasks, k \in Tokens : InHand(u, k)' => InHand(u, k)
<1> PICK r : r = Run(op, left, seat, tried)
  OBVIOUS
<1>1. r.op = op /\ r.op # "logCheckin"
  BY DEF Run, InSeat
<1>2. /\ task'[t] = r
      /\ \A u \in Tasks : u # t => task'[u] = task[u]
  BY DEF Become, TypeInv, TypeOK
<1> QED BY <1>1, <1>2 DEF InHand

LEMMA PlainTakesNoneUp ==
  ASSUME TypeInv, NEW t \in Tasks, NEW op \in Plainly, Become(t, [op |-> op])
  PROVE  \A u \in Tasks, k \in Tokens : InHand(u, k)' => InHand(u, k)
<1>1. [op |-> op] \in TaskStates /\ [op |-> op].op = op
  BY PlainStates
<1> QED BY <1>1, TakesNoneUp DEF Plainly

LEMMA FinishTakesNoneUp ==
  ASSUME TypeInv, NEW t \in Tasks, Become(t, Idle)
  PROVE  \A u \in Tasks, k \in Tokens : InHand(u, k)' => InHand(u, k)
BY PlainTakesNoneUp DEF Idle, Plainly

LEMMA CustodyChecksNobodyIn ==
  ASSUME TypeInv, NEW t \in Tasks, Custody(t)
  PROVE  NoCheckin
<1> USE DEF Db, Log, History, NoCheckin, Plainly
<1>1. ASSUME StartTick(t) PROVE NoCheckin
  <2>1. PICK op \in {"fetchKek", "fetchBundle"} : Become(t, [op |-> op])
    BY <1>1 DEF StartTick
  <2> QED BY <1>1, <2>1, PlainTakesNoneUp DEF StartTick
<1>2. ASSUME ReceiveBundle(t) PROVE NoCheckin
  <2>1. PICK op \in {"idle", "logBundle"} : Become(t, [op |-> op])
    BY <1>2 DEF ReceiveBundle, Finish, Idle
  <2> QED BY <1>2, <2>1, PlainTakesNoneUp DEF ReceiveBundle
<1>3. ASSUME LogBundle(t) PROVE NoCheckin
  <2>1. PICK op \in {"idle", "fetchKek"} : Become(t, [op |-> op])
    BY <1>3 DEF LogBundle, Finish, Idle
  <2>2. \A k \in Tokens : CheckedIn(k) # Plain("BUNDLE_RECEIVED")
    BY FactsApart
  <2> QED BY <1>3, <2>1, <2>2, PlainTakesNoneUp, OtherEntries DEF LogBundle
<1>4. ASSUME ReceiveKek(t) PROVE NoCheckin
  <2>1. PICK op \in {"idle", "logKek"} : Become(t, [op |-> op])
    BY <1>4 DEF ReceiveKek, Finish, Idle
  <2> QED BY <1>4, <2>1, PlainTakesNoneUp DEF ReceiveKek
<1>5. ASSUME LogKek(t) PROVE NoCheckin
  <2>1. \A k \in Tokens : CheckedIn(k) # Plain("KEK_RECEIVED")
    BY FactsApart
  <2> QED BY <1>5, <2>1, FinishTakesNoneUp, OtherEntries DEF LogKek, Finish
<1> QED BY <1>1, <1>2, <1>3, <1>4, <1>5 DEF Custody

LEMMA RunChecksNobodyIn ==
  ASSUME TypeInv, NEW t \in Tasks,
         \/ StartRun(t) \/ EndRun(t) \/ (\E s \in Seats : Generate(t, s))
         \/ StorePaper(t) \/ LogGenerated(t)
  PROVE  NoCheckin
<1> USE DEF Db, Log, History, NoCheckin, InSeat
<1>1. ASSUME StartRun(t) PROVE NoCheckin
  BY <1>1, RunTakesNoneUp DEF StartRun
<1>2. ASSUME EndRun(t) PROVE NoCheckin
  BY <1>2, FinishTakesNoneUp DEF EndRun, Finish
<1>3. ASSUME NEW s \in Seats, Generate(t, s) PROVE NoCheckin
  <2>1. PICK op \in {"render", "run"} : Become(t, Run(op, task[t].left \ {s}, s, 0))
    BY <1>3 DEF Generate
  <2> QED BY <1>3, <2>1, RunTakesNoneUp DEF Generate
<1>4. ASSUME StorePaper(t) PROVE NoCheckin
  <2>1. PICK op \in {"logGenerated", "run"} : Become(t, Run(op, task[t].left, task[t].seat, 0))
    BY <1>4 DEF StorePaper, NextSeat
  <2> QED BY <1>4, <2>1, RunTakesNoneUp DEF StorePaper
<1>5. ASSUME LogGenerated(t) PROVE NoCheckin
  <2>1. \A k \in Tokens : CheckedIn(k) # Generated(task[t].seat)
    BY FactsApart
  <2>2. \A k \in Tokens : /\ CheckedIn(k) \in log' <=> CheckedIn(k) \in log
                          /\ CheckedIn(k) \in twice' => CheckedIn(k) \in twice
    BY <1>5, <2>1, OtherEntries DEF LogGenerated
  <2> QED BY <1>5, <2>2, RunTakesNoneUp DEF LogGenerated
<1> QED BY <1>1, <1>2, <1>3, <1>4, <1>5

LEMMA PrintChecksNobodyIn ==
  ASSUME TypeInv, NEW t \in Tasks,
         \/ PrintCompletes(t) \/ PrinterFails(t) \/ LogFailover(t) \/ PrintExhausted(t)
         \/ MarkPrinted(t) \/ LogPrinted(t)
  PROVE  NoCheckin
<1> USE DEF Db, Log, History, NoCheckin, InSeat
<1>1. ASSUME PrintCompletes(t) PROVE NoCheckin
  BY <1>1, RunTakesNoneUp DEF PrintCompletes
<1>2. ASSUME PrinterFails(t) PROVE NoCheckin
  BY <1>2, RunTakesNoneUp DEF PrinterFails
<1>3. ASSUME LogFailover(t) PROVE NoCheckin
  <2>1. \A k \in Tokens : CheckedIn(k) # Plain("PRINTER_FAILOVER")
    BY FactsApart
  <2>2. \A k \in Tokens : /\ CheckedIn(k) \in log' <=> CheckedIn(k) \in log
                          /\ CheckedIn(k) \in twice' => CheckedIn(k) \in twice
    BY <1>3, <2>1, OtherEntries DEF LogFailover
  <2> QED BY <1>3, <2>2, RunTakesNoneUp DEF LogFailover
<1>4. ASSUME PrintExhausted(t) PROVE NoCheckin
  BY <1>4, RunTakesNoneUp DEF PrintExhausted, NextSeat
<1>5. ASSUME MarkPrinted(t) PROVE NoCheckin
  BY <1>5, RunTakesNoneUp DEF MarkPrinted
<1>6. ASSUME LogPrinted(t) PROVE NoCheckin
  <2>1. \A k \in Tokens : CheckedIn(k) # Printed(task[t].seat)
    BY FactsApart
  <2>2. \A k \in Tokens : /\ CheckedIn(k) \in log' <=> CheckedIn(k) \in log
                          /\ CheckedIn(k) \in twice' => CheckedIn(k) \in twice
    BY <1>6, <2>1, OtherEntries DEF LogPrinted
  <2> QED BY <1>6, <2>2, RunTakesNoneUp DEF LogPrinted, NextSeat
<1> QED BY <1>1, <1>2, <1>3, <1>4, <1>5, <1>6

LEMMA OthersCheckNobodyIn ==
  ASSUME TypeInv,
         \/ Release \/ UNCHANGED vars
         \/ \E t \in Tasks : StartClose(t) \/ LogClose(t) \/ Fail(t)
         \/ \E p \in Procs : Crash(p)
  PROVE  NoCheckin
<1> USE DEF Db, Log, History, NoCheckin, InSeat
<1>1. ASSUME Release \/ UNCHANGED vars PROVE NoCheckin
  BY <1>1 DEF Release, vars, InHand
<1>2. ASSUME NEW t \in Tasks, StartClose(t) PROVE NoCheckin
  <2>1. PICK n \in 0..Cardinality(Seats) : n = Cardinality(PrintedSeats)
    BY Counted
  <2>2. PICK r \in TaskStates : r.op = "logClose" /\ Become(t, r)
    BY <1>2, <2>1, CloseState DEF StartClose
  <2> QED BY <1>2, <2>2, TakesNoneUp DEF StartClose
<1>3. ASSUME NEW t \in Tasks, LogClose(t) PROVE NoCheckin
  <2>1. \A k \in Tokens : CheckedIn(k) # Closed(task[t].printed)
    BY FactsApart
  <2>2. \A k \in Tokens : /\ CheckedIn(k) \in log' <=> CheckedIn(k) \in log
                          /\ CheckedIn(k) \in twice' => CheckedIn(k) \in twice
    BY <1>3, <2>1, OtherEntries DEF LogClose
  <2> QED BY <1>3, <2>2, FinishTakesNoneUp DEF LogClose
<1>4. ASSUME NEW t \in Tasks, Fail(t) PROVE NoCheckin
  <2>1. \A u \in Tasks, k \in Tokens : InHand(u, k)' => InHand(u, k)
    BY <1>4, RunTakesNoneUp, FinishTakesNoneUp DEF Fail, NextSeat, Finish
  <2> QED BY <1>4, <2>1 DEF Fail
<1>5. ASSUME NEW p \in Procs, Crash(p) PROVE NoCheckin
  <2>1. \A u \in Tasks : task'[u] \in {Idle, task[u]}
    BY <1>5 DEF Crash
  <2>2. \A u \in Tasks, k \in Tokens : InHand(u, k)' => InHand(u, k)
    BY <2>1, IdleState DEF InHand
  <2> QED BY <1>5, <2>2 DEF Crash
<1> QED BY <1>1, <1>2, <1>3, <1>4, <1>5

LEMMA CheckinStep ==
  ASSUME TypeInv, CheckinInv, [Next]_vars
  PROVE  CheckinInv'
<1>0. admitted \subseteq Tokens /\ DOMAIN checkins \subseteq Tokens
  BY DEF TypeInv, TypeOK
<1>1. ASSUME NEW t \in Tasks, NEW k \in Tokens, CheckIn(t, k) PROVE CheckinInv'
  <2> PICK r : r = [op |-> "logCheckin", token |-> k]
    OBVIOUS
  <2>1. r \in TaskStates /\ r.op = "logCheckin" /\ r.token = k /\ Become(t, r)
    BY <1>1, CheckinState DEF CheckIn
  <2>2. /\ task'[t] = r
        /\ \A u \in Tasks : u # t => task'[u] = task[u]
    BY <2>1, BecomeFacts DEF TypeInv, TypeOK
  <2>3. \A u \in Tasks, j \in Tokens :
          InHand(u, j)' <=> (IF u = t THEN j = k ELSE InHand(u, j))
    BY <2>1, <2>2 DEF InHand
  <2>4. /\ DOMAIN checkins' = DOMAIN checkins \union {k}
        /\ checkins'[k] = SeatOf[k]
        /\ \A j \in DOMAIN checkins : checkins'[j] = checkins[j]
    BY <1>1 DEF CheckIn, Put
  <2>5. /\ UNCHANGED <<log, twice, admitted>>
        /\ k \notin DOMAIN checkins
        /\ \A j \in DOMAIN checkins : checkins[j] # SeatOf[k]
    BY <1>1 DEF CheckIn, Log, History, Occupied
  <2>6. \A i, j \in DOMAIN checkins' : checkins'[i] = checkins'[j] => i = j
    BY <2>4, <2>5 DEF CheckinInv
  <2>7. \A u \in Tasks, j \in Tokens :
          InHand(u, j)' => j \in DOMAIN checkins' /\ CheckedIn(j) \notin log'
    BY <2>3, <2>4, <2>5 DEF CheckinInv
  <2>8. \A u, v \in Tasks, j \in Tokens : InHand(u, j)' /\ InHand(v, j)' => u = v
    BY <2>3, <2>5 DEF CheckinInv
  <2> QED BY <2>4, <2>5, <2>6, <2>7, <2>8 DEF CheckinInv
<1>2. ASSUME NEW t \in Tasks, LogCheckin(t) PROVE CheckinInv'
  <2> PICK k : k = task[t].token
    OBVIOUS
  <2>1. k \in Tokens /\ InHand(t, k)
    BY <1>2, StateFields DEF LogCheckin, TypeInv, TypeOK, InHand
  <2>2. /\ task'[t] = Idle
        /\ \A u \in Tasks : u # t => task'[u] = task[u]
    BY <1>2, IdleState, BecomeFacts DEF LogCheckin, Finish, TypeInv, TypeOK
  <2>3. \A u \in Tasks, j \in Tokens : InHand(u, j)' => InHand(u, j) /\ u # t
    BY <2>2, IdleState DEF InHand
  <2>4. \A u \in Tasks, j \in Tokens : InHand(u, j)' => j # k
    BY <2>1, <2>3 DEF CheckinInv
  <2>5. /\ \A j \in Tokens : CheckedIn(j) \in log' <=> CheckedIn(j) \in log \/ j = k
        /\ \A j \in Tokens : CheckedIn(j) \in twice' => CheckedIn(j) \in twice
    <3>1. Write(CheckedIn(k)) /\ CheckedIn(k) \notin log
      BY <1>2, <2>1 DEF LogCheckin, CheckinInv
    <3> QED BY <3>1, FactsApart DEF Write
  <2>6. admitted' = admitted \union {k} /\ UNCHANGED checkins
    BY <1>2 DEF LogCheckin, Db
  <2>7. k \in DOMAIN checkins
    BY <2>1 DEF CheckinInv
  <2>8. \A u \in Tasks, j \in Tokens :
          InHand(u, j)' => j \in DOMAIN checkins /\ CheckedIn(j) \notin log'
    BY <2>3, <2>4, <2>5 DEF CheckinInv
  <2>9. \A u, v \in Tasks, j \in Tokens : InHand(u, j)' /\ InHand(v, j)' => u = v
    BY <2>3 DEF CheckinInv
  <2> QED BY <1>0, <2>1, <2>5, <2>6, <2>7, <2>8, <2>9 DEF CheckinInv
<1>3. NoCheckin => CheckinInv'
  BY <1>0, CheckinFrame DEF NoCheckin
<1>4. ASSUME NEW t \in Tasks, Hall(t) PROVE CheckinInv'
  BY <1>1, <1>2, <1>3, <1>4, RunChecksNobodyIn, PrintChecksNobodyIn, OthersCheckNobodyIn DEF Hall
<1> QED BY <1>3, <1>4, CustodyChecksNobodyIn, OthersCheckNobodyIn DEF Next

-----------------------------------------------------------------------------
(* The hall: who works on a seat, and how far its paper is.                *)

\* How far a task in the middle of a seat knows the seat to be.
WorkOK(r) ==
  /\ r.op = "logGenerated" => Generated(r.seat) \notin log
  /\ r.op \in Work \ {"logGenerated"} => Generated(r.seat) \in log
  /\ r.op \in {"print", "failover"} => copies[r.seat] <= r.tried
  /\ r.op = "mark" => copies[r.seat] > 0
  /\ r.op = "logPrinted" => r.seat \in PrintedSeats

SeatOK(s) ==
  /\ copies[s] <= Printers + 1
  /\ copies[s] > 0 => Generated(s) \in log
  /\ Generated(s) \in log => s \in DOMAIN papers
  /\ Generated(s) \notin twice
  /\ s \in DOMAIN papers =>
       papers[s].token \in DOMAIN checkins /\ checkins[papers[s].token] = s
  /\ s \in PrintedSeats => copies[s] > 0
  /\ Printed(s) \in log => s \in PrintedSeats

Works(t, s) == task[t].op \in Work /\ task[t].seat = s

HallInv ==
  /\ \A t \in Tasks : WorkOK(task[t])
  /\ \A t, u \in Tasks, s \in Seats : Works(t, s) /\ Works(u, s) => t = u
  /\ \A s \in Seats : SeatOK(s)

LEMMA HallInit == Init => HallInv
<1> SUFFICES ASSUME Init PROVE HallInv
  OBVIOUS
<1>1. \A t \in Tasks : task[t] = Idle
  BY DEF Init
<1>2. DOMAIN papers = {} /\ log = {} /\ twice = {} /\ \A s \in Seats : copies[s] = 0
  BY DEF Init
<1>3. \A t \in Tasks : WorkOK(task[t])
  BY <1>1, IdleState DEF WorkOK, Work
<1>4. \A t \in Tasks, s \in Seats : ~Works(t, s)
  BY <1>1, IdleState DEF Works, Work
<1>5. \A s \in Seats : SeatOK(s)
  BY <1>2, CentreAssumption DEF SeatOK, PrintedSeats
<1> QED BY <1>3, <1>4, <1>5 DEF HallInv

\* What a step away from the papers leaves as it was.
SeatKept(s) ==
  /\ copies'[s] = copies[s]
  /\ s \in DOMAIN papers' <=> s \in DOMAIN papers
  /\ s \in DOMAIN papers => papers'[s] = papers[s]
  /\ Generated(s) \in log' <=> Generated(s) \in log
  /\ Generated(s) \in twice' <=> Generated(s) \in twice
  /\ Printed(s) \in log' <=> Printed(s) \in log

SeatingKept ==
  \A k \in DOMAIN checkins : k \in DOMAIN checkins' /\ checkins'[k] = checkins[k]

LEMMA SeatKeptOK ==
  ASSUME NEW s \in Seats, SeatOK(s), SeatKept(s), SeatingKept
  PROVE  SeatOK(s)' /\ (s \in PrintedSeats' <=> s \in PrintedSeats)
BY DEF SeatOK, SeatKept, SeatingKept, PrintedSeats

LEMMA WorkKeptOK ==
  ASSUME NEW r, WorkOK(r), SeatKept(r.seat)
  PROVE  WorkOK(r)'
BY DEF WorkOK, SeatKept, PrintedSeats

(* A step that leaves every seat as it was and begins no work on one.      *)
LEMMA HallFrame ==
  ASSUME TypeInv, HallInv, SeatingKept, \A s \in Seats : SeatKept(s),
         \A u \in Tasks : task'[u] = task[u] \/ task'[u].op \notin Work
  PROVE  HallInv'
<1>1. ASSUME NEW t \in Tasks PROVE WorkOK(task[t])'
  <2> PICK r : r = task'[t]
    OBVIOUS
  <2>1. CASE r.op \notin Work
    BY <2>1 DEF WorkOK, Work
  <2>2. CASE r.op \in Work
    <3>1. r = task[t] /\ WorkOK(r)
      BY <2>2 DEF HallInv
    <3>2. r.seat \in Seats
      BY <2>2, <3>1, RunFields DEF Work, InSeat
    <3>3. WorkOK(r)'
      BY <3>1, <3>2, WorkKeptOK
    <3> QED BY <3>3 DEF WorkOK
  <2> QED BY <2>1, <2>2
<1>2. \A t \in Tasks, s \in Seats : Works(t, s)' => Works(t, s)
  BY DEF Works
<1>3. \A s \in Seats : SeatOK(s)'
  BY SeatKeptOK DEF HallInv
<1> QED BY <1>1, <1>2, <1>3 DEF HallInv

(* A step on seat s of the one task t that works on it.                    *)
LEMMA SeatFrame ==
  ASSUME TypeInv, HallInv, NEW t \in Tasks, NEW s \in Seats, NEW r, UNCHANGED checkins,
         task'[t] = r, \A u \in Tasks : u # t => task'[u] = task[u] /\ ~Works(u, s),
         r.op \in Work => r.seat = s,
         \A q \in Seats : q # s => SeatKept(q),
         SeatOK(s)', WorkOK(r)'
  PROVE  HallInv'
<1>0. SeatingKept
  BY DEF SeatingKept
<1>1. ASSUME NEW u \in Tasks PROVE WorkOK(task[u])'
  <2>1. CASE u = t
    BY <2>1 DEF WorkOK
  <2>2. CASE u # t
    <3> PICK q : q = task[u]
      OBVIOUS
    <3>1. q = task'[u] /\ WorkOK(q)
      BY <2>2 DEF HallInv
    <3>2. CASE q.op \notin Work
      BY <3>1, <3>2 DEF WorkOK, Work
    <3>3. CASE q.op \in Work
      <4>1. q.seat \in Seats /\ q.seat # s
        BY <2>2, <3>3, RunFields DEF Work, InSeat, Works
      <4>2. WorkOK(q)'
        BY <3>1, <4>1, WorkKeptOK
      <4> QED BY <3>1, <4>2 DEF WorkOK
    <3> QED BY <3>2, <3>3
  <2> QED BY <2>1, <2>2
<1>2. ASSUME NEW u \in Tasks, NEW v \in Tasks, NEW q \in Seats, Works(u, q)', Works(v, q)'
      PROVE  u = v
  <2>1. CASE q = s
    BY <1>2, <2>1 DEF Works
  <2>2. CASE q # s
    BY <1>2, <2>2 DEF Works, HallInv
  <2> QED BY <2>1, <2>2
<1>3. ASSUME NEW q \in Seats PROVE SeatOK(q)'
  BY <1>0, SeatKeptOK DEF HallInv
<1> QED BY <1>1, <1>2, <1>3 DEF HallInv

\* Steps away from the papers.
Quiet ==
  /\ SeatingKept
  /\ \A s \in Seats : SeatKept(s)
  /\ \A u \in Tasks : task'[u] = task[u] \/ task'[u].op \notin Work

LEMMA Untouched ==
  ASSUME UNCHANGED <<papers, copies, log, twice>>
  PROVE  \A s \in Seats : SeatKept(s)
BY DEF SeatKept

LEMMA OtherFacts ==
  ASSUME UNCHANGED <<papers, copies>>, NEW fact, Write(fact),
         NEW S, \A s \in S : fact # Generated(s) /\ fact # Printed(s)
  PROVE  \A s \in S : SeatKept(s)
BY DEF SeatKept, Write

LEMMA BeginsNoWork ==
  ASSUME TypeInv, NEW t \in Tasks, NEW r, Become(t, r), r.op \notin Work
  PROVE  \A u \in Tasks : task'[u] = task[u] \/ task'[u].op \notin Work
BY DEF Become, TypeInv, TypeOK

LEMMA PlainBeginsNoWork ==
  ASSUME TypeInv, NEW t \in Tasks, NEW op \in Plainly, Become(t, [op |-> op])
  PROVE  \A u \in Tasks : task'[u] = task[u] \/ task'[u].op \notin Work
<1>1. [op |-> op].op \notin Work
  BY PlainStates DEF Plainly, Work
<1> QED BY <1>1, BeginsNoWork

LEMMA FinishBeginsNoWork ==
  ASSUME TypeInv, NEW t \in Tasks, Become(t, Idle)
  PROVE  \A u \in Tasks : task'[u] = task[u] \/ task'[u].op \notin Work
BY IdleState, BeginsNoWork DEF Work

LEMMA RunBeginsNoWork ==
  ASSUME TypeInv, NEW t \in Tasks, NEW op \in {"run", "render"}, NEW left, NEW seat, NEW tried,
         Become(t, Run(op, left, seat, tried))
  PROVE  \A u \in Tasks : task'[u] = task[u] \/ task'[u].op \notin Work
<1> PICK r : r = Run(op, left, seat, tried)
  OBVIOUS
<1>1. r.op \notin Work
  BY DEF Run, Work
<1> QED BY <1>1, BeginsNoWork

LEMMA NextSeatBeginsNoWork ==
  ASSUME TypeInv, NEW t \in Tasks, NextSeat(t)
  PROVE  \A u \in Tasks : task'[u] = task[u] \/ task'[u].op \notin Work
BY RunBeginsNoWork DEF NextSeat

LEMMA CustodyIsQuiet ==
  ASSUME TypeInv, NEW t \in Tasks, Custody(t)
  PROVE  Quiet
<1> USE DEF Db, Log, History, Quiet, Plainly, SeatingKept
<1>1. ASSUME StartTick(t) PROVE Quiet
  <2>1. PICK op \in {"fetchKek", "fetchBundle"} : Become(t, [op |-> op])
    BY <1>1 DEF StartTick
  <2> QED BY <1>1, <2>1, PlainBeginsNoWork, Untouched DEF StartTick
<1>2. ASSUME ReceiveBundle(t) PROVE Quiet
  <2>1. PICK op \in {"idle", "logBundle"} : Become(t, [op |-> op])
    BY <1>2 DEF ReceiveBundle, Finish, Idle
  <2> QED BY <1>2, <2>1, PlainBeginsNoWork, Untouched DEF ReceiveBundle
<1>3. ASSUME LogBundle(t) PROVE Quiet
  <2>1. PICK op \in {"idle", "fetchKek"} : Become(t, [op |-> op])
    BY <1>3 DEF LogBundle, Finish, Idle
  <2>2. \A s \in Seats : SeatKept(s)
    BY <1>3, OtherFacts, FactsApart DEF LogBundle
  <2> QED BY <1>3, <2>1, <2>2, PlainBeginsNoWork DEF LogBundle
<1>4. ASSUME ReceiveKek(t) PROVE Quiet
  <2>1. PICK op \in {"idle", "logKek"} : Become(t, [op |-> op])
    BY <1>4 DEF ReceiveKek, Finish, Idle
  <2> QED BY <1>4, <2>1, PlainBeginsNoWork, Untouched DEF ReceiveKek
<1>5. ASSUME LogKek(t) PROVE Quiet
  <2>1. \A s \in Seats : SeatKept(s)
    BY <1>5, OtherFacts, FactsApart DEF LogKek
  <2> QED BY <1>5, <2>1, FinishBeginsNoWork DEF LogKek, Finish
<1> QED BY <1>1, <1>2, <1>3, <1>4, <1>5 DEF Custody

LEMMA HallIsQuiet ==
  ASSUME TypeInv, NEW t \in Tasks,
         \/ (\E k \in Tokens : CheckIn(t, k)) \/ LogCheckin(t)
         \/ StartRun(t) \/ EndRun(t) \/ (\E s \in Seats : Generate(t, s))
         \/ PrintExhausted(t) \/ StartClose(t) \/ LogClose(t)
  PROVE  Quiet
<1> USE DEF Db, Log, History, Quiet
<1>1. ASSUME NEW k \in Tokens, CheckIn(t, k) PROVE Quiet
  <2>1. PICK r \in TaskStates : r.op = "logCheckin" /\ Become(t, r)
    BY <1>1, CheckinState DEF CheckIn
  <2>2. SeatingKept
    BY <1>1 DEF CheckIn, Put, SeatingKept
  <2> QED BY <1>1, <2>1, <2>2, BeginsNoWork, Untouched DEF CheckIn, Work
<1>2. ASSUME LogCheckin(t) PROVE Quiet
  <2>1. \A s \in Seats : SeatKept(s)
    <3> PICK f : f = CheckedIn(task[t].token)
      OBVIOUS
    <3>1. \A s \in Seats : f # Generated(s) /\ f # Printed(s)
      BY FactsApart
    <3>2. UNCHANGED <<papers, copies>> /\ Write(f)
      BY <1>2 DEF LogCheckin
    <3> QED BY <3>1, <3>2, OtherFacts
  <2> QED BY <1>2, <2>1, FinishBeginsNoWork DEF LogCheckin, Finish, SeatingKept
<1>3. ASSUME StartRun(t) PROVE Quiet
  BY <1>3, RunBeginsNoWork, Untouched DEF StartRun, SeatingKept
<1>4. ASSUME EndRun(t) PROVE Quiet
  BY <1>4, FinishBeginsNoWork, Untouched DEF EndRun, Finish, SeatingKept
<1>5. ASSUME NEW s \in Seats, Generate(t, s) PROVE Quiet
  BY <1>5, RunBeginsNoWork, Untouched DEF Generate, SeatingKept
<1>6. ASSUME PrintExhausted(t) PROVE Quiet
  BY <1>6, NextSeatBeginsNoWork, Untouched DEF PrintExhausted, SeatingKept
<1>7. ASSUME StartClose(t) PROVE Quiet
  <2>1. PICK n \in 0..Cardinality(Seats) : n = Cardinality(PrintedSeats)
    BY Counted
  <2>2. PICK r \in TaskStates : r.op = "logClose" /\ Become(t, r)
    BY <1>7, <2>1, CloseState DEF StartClose
  <2> QED BY <1>7, <2>2, BeginsNoWork, Untouched DEF StartClose, SeatingKept, Work
<1>8. ASSUME LogClose(t) PROVE Quiet
  <2>1. \A s \in Seats : SeatKept(s)
    <3> PICK f : f = Closed(task[t].printed)
      OBVIOUS
    <3>1. \A s \in Seats : f # Generated(s) /\ f # Printed(s)
      BY FactsApart
    <3>2. UNCHANGED <<papers, copies>> /\ Write(f)
      BY <1>8 DEF LogClose
    <3> QED BY <3>1, <3>2, OtherFacts
  <2> QED BY <1>8, <2>1, FinishBeginsNoWork DEF LogClose, SeatingKept
<1> QED BY <1>1, <1>2, <1>3, <1>4, <1>5, <1>6, <1>7, <1>8

LEMMA OthersAreQuiet ==
  ASSUME TypeInv, Release \/ UNCHANGED vars \/ \E t \in Tasks : Fail(t)
  PROVE  Quiet
<1> USE DEF Db, Log, History, Quiet, SeatingKept
<1>1. ASSUME Release \/ UNCHANGED vars PROVE Quiet
  BY <1>1, Untouched DEF Release, vars
<1>2. ASSUME NEW t \in Tasks, Fail(t) PROVE Quiet
  <2>1. \A u \in Tasks : task'[u] = task[u] \/ task'[u].op \notin Work
    BY <1>2, NextSeatBeginsNoWork, FinishBeginsNoWork DEF Fail, Finish
  <2> QED BY <1>2, <2>1, Untouched DEF Fail
<1> QED BY <1>1, <1>2

(* Who works on a seat works on it alone.                                  *)
LEMMA Alone ==
  ASSUME TypeInv, HallInv, NEW t \in Tasks, task[t].op \in Work
  PROVE  LET r == task[t]
         IN  /\ r.left \in SUBSET Occupied /\ r.seat \in Seats /\ r.tried \in 0..Printers
             /\ r.seat \in DOMAIN papers
             /\ WorkOK(r) /\ SeatOK(r.seat)
             /\ \A u \in Tasks : u # t => ~Works(u, r.seat)
<1>1. LET r == task[t]
      IN  /\ r.left \in SUBSET Occupied /\ r.seat \in Seats /\ r.tried \in 0..Printers
          /\ r.seat \in DOMAIN papers
  BY RunFields DEF Work, InSeat
<1>2. Works(t, task[t].seat)
  BY DEF Works
<1> QED BY <1>1, <1>2 DEF HallInv

LEMMA Working ==
  ASSUME TypeInv, NEW t \in Tasks, NEW op, NEW left, NEW seat, NEW tried,
         Become(t, Run(op, left, seat, tried))
  PROVE  /\ task'[t] = Run(op, left, seat, tried)
         /\ \A u \in Tasks : u # t => task'[u] = task[u]
BY DEF Become, TypeInv, TypeOK

LEMMA RunFieldsOf ==
  ASSUME NEW op, NEW left, NEW seat, NEW tried
  PROVE  LET r == Run(op, left, seat, tried)
         IN  r.op = op /\ r.left = left /\ r.seat = seat /\ r.tried = tried
BY DEF Run

LEMMA StorePaperHall ==
  ASSUME TypeInv, HallInv, NEW t \in Tasks, StorePaper(t)
  PROVE  HallInv'
<1> PICK s : s = task[t].seat
  OBVIOUS
<1>1. task[t].op = "render" /\ UNCHANGED <<checkins, log, twice, copies>>
  BY DEF StorePaper, Log, History
<1>2. s \in Seats /\ s \in Occupied
  BY <1>1, RunFields DEF InSeat
<1>3. CASE s \in DOMAIN papers
  <2>1. NextSeat(t) /\ UNCHANGED papers
    BY <1>3 DEF StorePaper
  <2>2. \A u \in Tasks : task'[u] = task[u] \/ task'[u].op \notin Work
    BY <2>1, NextSeatBeginsNoWork
  <2>3. \A q \in Seats : SeatKept(q)
    BY <1>1, <2>1, Untouched
  <2> QED BY <1>1, <2>2, <2>3, HallFrame DEF SeatingKept
<1>4. CASE s \notin DOMAIN papers
  <2> PICK row : row = [token |-> TokenAt(s), printed |-> FALSE]
    OBVIOUS
  <2> PICK r : r = Run("logGenerated", task[t].left, s, 0)
    OBVIOUS
  <2>1. papers' = Put(papers, s, row) /\ Become(t, Run("logGenerated", task[t].left, s, 0))
    BY <1>4 DEF StorePaper
  <2>2. task'[t] = r /\ \A u \in Tasks : u # t => task'[u] = task[u]
    BY <2>1, Working
  <2>3. r.op = "logGenerated" /\ r.seat = s
    BY RunFieldsOf
  <2>4. /\ DOMAIN papers' = DOMAIN papers \union {s}
        /\ papers'[s] = row
        /\ \A q \in DOMAIN papers : papers'[q] = papers[q]
    BY <1>4, <2>1 DEF Put
  <2>5. \A u \in Tasks : ~Works(u, s)
    BY <1>4, RunFields DEF Works, Work, InSeat
  <2>6. \A q \in Seats : q # s => SeatKept(q)
    BY <1>1, <2>4 DEF SeatKept
  <2>7. SeatOK(s) /\ Generated(s) \notin log
    BY <1>2, <1>4 DEF HallInv, SeatOK
  <2>8. row.token \in DOMAIN checkins /\ checkins[row.token] = s /\ ~row.printed
    BY <1>2, TokenAtSits
  <2>9. SeatOK(s)'
    <3>1. s \notin PrintedSeats /\ s \notin PrintedSeats'
      BY <1>4, <2>4, <2>8 DEF PrintedSeats
    <3> QED BY <1>1, <2>4, <2>7, <2>8, <3>1 DEF SeatOK
  <2>10. WorkOK(r)'
    BY <1>1, <2>3, <2>7 DEF WorkOK
  <2> QED BY <1>1, <1>2, <2>2, <2>3, <2>5, <2>6, <2>9, <2>10, SeatFrame
<1> QED BY <1>3, <1>4

\* An entry about one seat leaves the others as they were.
LEMMA OtherSeats ==
  ASSUME UNCHANGED <<papers, copies>>, NEW s, Write(Generated(s)) \/ Write(Printed(s))
  PROVE  \A q \in Seats : q # s => SeatKept(q)
<1>1. \A q \in Seats : q # s => /\ Generated(s) # Generated(q) /\ Generated(s) # Printed(q)
                                /\ Printed(s) # Generated(q) /\ Printed(s) # Printed(q)
  BY FactsApart
<1> QED BY <1>1 DEF SeatKept, Write

LEMMA LogGeneratedHall ==
  ASSUME TypeInv, HallInv, NEW t \in Tasks, LogGenerated(t)
  PROVE  HallInv'
<1> PICK s : s = task[t].seat
  OBVIOUS
<1> PICK r : r = Run("print", task[t].left, s, 0)
  OBVIOUS
<1>1. /\ task[t].op = "logGenerated" /\ UNCHANGED <<checkins, papers, copies>>
      /\ Write(Generated(s)) /\ Become(t, Run("print", task[t].left, s, 0))
  BY DEF LogGenerated, Db, History
<1>2. /\ s \in Seats /\ s \in DOMAIN papers /\ Generated(s) \notin log /\ SeatOK(s)
      /\ \A u \in Tasks : u # t => ~Works(u, s)
  BY <1>1, Alone DEF Work, WorkOK
<1>3. task'[t] = r /\ \A u \in Tasks : u # t => task'[u] = task[u]
  BY <1>1, Working
<1>4. r.op = "print" /\ r.seat = s /\ r.tried = 0
  BY RunFieldsOf
<1>5. \A q \in Seats : q # s => SeatKept(q)
  BY <1>1, OtherSeats
<1>6. /\ Generated(s) \in log' /\ Generated(s) \notin twice'
      /\ Printed(s) \in log' <=> Printed(s) \in log
  BY <1>1, <1>2, FactsApart DEF Write, SeatOK
<1>7. copies[s] = 0
  BY <1>2 DEF SeatOK, TypeInv, TypeOK
<1>8. SeatOK(s)'
  BY <1>1, <1>2, <1>6 DEF SeatOK, PrintedSeats
<1>9. WorkOK(r)'
  BY <1>1, <1>4, <1>6, <1>7 DEF WorkOK
<1> QED BY <1>1, <1>2, <1>3, <1>4, <1>5, <1>8, <1>9, SeatFrame

(* A job on the seat in hand: n copies more.                               *)
LEMMA JobHall ==
  ASSUME TypeInv, HallInv, NEW t \in Tasks, task[t].op = "print",
         NEW n \in {0, 1}, Emit(task[t].seat, n),
         NEW r, Become(t, Run(r.op, task[t].left, task[t].seat, r.tried)),
         r = Run(r.op, task[t].left, task[t].seat, r.tried),
         \/ r.op = "mark" /\ n = 1
         \/ r.op = "failover" /\ r.tried = task[t].tried + 1,
         UNCHANGED <<checkins, papers, log, twice>>
  PROVE  HallInv'
<1> PICK s : s = task[t].seat
  OBVIOUS
<1>1. /\ s \in Seats /\ s \in DOMAIN papers /\ task[t].tried \in 0..Printers
      /\ Generated(s) \in log /\ copies[s] <= task[t].tried /\ SeatOK(s)
      /\ \A u \in Tasks : u # t => ~Works(u, s)
  BY Alone DEF Work, WorkOK
<1>2. task'[t] = r /\ \A u \in Tasks : u # t => task'[u] = task[u]
  BY Working
<1>3. r.seat = s
  BY RunFieldsOf
<1>4. /\ copies[s] \in Nat /\ copies'[s] = copies[s] + n
      /\ \A q \in Seats : q # s => copies'[q] = copies[q]
  BY <1>1, EmitTypes DEF TypeInv, TypeOK
<1>5. \A q \in Seats : q # s => SeatKept(q)
  BY <1>4 DEF SeatKept
<1>6. SeatOK(s)'
  BY <1>1, <1>4, CentreAssumption DEF SeatOK, PrintedSeats
<1>7. WorkOK(r)'
  BY <1>1, <1>3, <1>4 DEF WorkOK, Work
<1> QED BY <1>1, <1>2, <1>3, <1>5, <1>6, <1>7, SeatFrame

LEMMA PrintHall ==
  ASSUME TypeInv, HallInv, NEW t \in Tasks, PrintCompletes(t) \/ PrinterFails(t)
  PROVE  HallInv'
<1>1. ASSUME PrintCompletes(t) PROVE HallInv'
  <2> PICK r : r = Run("mark", task[t].left, task[t].seat, task[t].tried)
    OBVIOUS
  <2>1. r.op = "mark" /\ r.tried = task[t].tried
    BY RunFieldsOf
  <2>2. /\ task[t].op = "print" /\ Emit(task[t].seat, 1)
        /\ Become(t, Run(r.op, task[t].left, task[t].seat, r.tried))
        /\ r = Run(r.op, task[t].left, task[t].seat, r.tried)
        /\ UNCHANGED <<checkins, papers, log, twice>>
    BY <1>1, <2>1 DEF PrintCompletes, Db, Log
  <2> QED BY <2>1, <2>2, JobHall
<1>2. ASSUME PrinterFails(t) PROVE HallInv'
  <2> PICK r : r = Run("failover", task[t].left, task[t].seat, task[t].tried + 1)
    OBVIOUS
  <2>1. r.op = "failover" /\ r.tried = task[t].tried + 1
    BY RunFieldsOf
  <2>2. /\ task[t].op = "print"
        /\ Become(t, Run(r.op, task[t].left, task[t].seat, r.tried))
        /\ r = Run(r.op, task[t].left, task[t].seat, r.tried)
        /\ UNCHANGED <<checkins, papers, log, twice>>
    BY <1>2, <2>1 DEF PrinterFails, Db, Log
  <2>3. PICK n \in {0, 1} : Emit(task[t].seat, n)
    BY <1>2 DEF PrinterFails
  <2> QED BY <2>1, <2>2, <2>3, JobHall
<1> QED BY <1>1, <1>2

LEMMA LogFailoverHall ==
  ASSUME TypeInv, HallInv, NEW t \in Tasks, LogFailover(t)
  PROVE  HallInv'
<1> PICK s : s = task[t].seat
  OBVIOUS
<1> PICK r : r = Run("print", task[t].left, s, task[t].tried)
  OBVIOUS
<1>1. /\ task[t].op = "failover" /\ UNCHANGED <<checkins, papers, copies>>
      /\ Write(Plain("PRINTER_FAILOVER"))
      /\ Become(t, Run("print", task[t].left, s, task[t].tried))
  BY DEF LogFailover, Db, History
<1>2. /\ s \in Seats /\ SeatOK(s) /\ WorkOK(task[t])
      /\ \A u \in Tasks : u # t => ~Works(u, s)
  BY <1>1, Alone DEF Work
<1>3. task'[t] = r /\ \A u \in Tasks : u # t => task'[u] = task[u]
  BY <1>1, Working
<1>4. r.op = "print" /\ r.seat = s /\ r.tried = task[t].tried
  BY RunFieldsOf
<1>5. \A q \in Seats : SeatKept(q)
  BY <1>1, OtherFacts, FactsApart
<1>6. SeatingKept
  BY <1>1 DEF SeatingKept
<1>7. SeatOK(s)'
  BY <1>2, <1>5, <1>6, SeatKeptOK
<1>8. WorkOK(r)
  BY <1>1, <1>2, <1>4 DEF WorkOK, Work
<1>9. WorkOK(r)'
  BY <1>2, <1>4, <1>5, <1>8, WorkKeptOK
<1> QED BY <1>1, <1>2, <1>3, <1>4, <1>5, <1>7, <1>9, SeatFrame

LEMMA MarkPrintedHall ==
  ASSUME TypeInv, HallInv, NEW t \in Tasks, MarkPrinted(t)
  PROVE  HallInv'
<1> PICK s : s = task[t].seat
  OBVIOUS
<1> PICK r : r = Run("logPrinted", task[t].left, s, 0)
  OBVIOUS
<1> PICK row : row = [token |-> papers[s].token, printed |-> TRUE]
  OBVIOUS
<1>1. /\ task[t].op = "mark" /\ UNCHANGED <<checkins, log, twice, copies>>
      /\ papers' = Put(papers, s, row)
      /\ Become(t, Run("logPrinted", task[t].left, s, 0))
  BY DEF MarkPrinted, Log, History
<1>2. /\ s \in Seats /\ s \in DOMAIN papers /\ Generated(s) \in log /\ copies[s] > 0 /\ SeatOK(s)
      /\ \A u \in Tasks : u # t => ~Works(u, s)
  BY <1>1, Alone DEF Work, WorkOK
<1>3. task'[t] = r /\ \A u \in Tasks : u # t => task'[u] = task[u]
  BY <1>1, Working
<1>4. r.op = "logPrinted" /\ r.seat = s
  BY RunFieldsOf
<1>5. /\ DOMAIN papers' = DOMAIN papers
      /\ papers'[s] = row
      /\ \A q \in DOMAIN papers : q # s => papers'[q] = papers[q]
  BY <1>1, <1>2 DEF Put
<1>6. \A q \in Seats : q # s => SeatKept(q)
  BY <1>1, <1>5 DEF SeatKept
<1>7. row.token = papers[s].token /\ row.printed
  OBVIOUS
<1>8. s \in PrintedSeats'
  BY <1>2, <1>5, <1>7 DEF PrintedSeats
<1>9. SeatOK(s)'
  BY <1>1, <1>2, <1>5, <1>7, <1>8 DEF SeatOK
<1>10. WorkOK(r)'
  BY <1>1, <1>2, <1>4, <1>8 DEF WorkOK
<1> QED BY <1>1, <1>2, <1>3, <1>4, <1>6, <1>9, <1>10, SeatFrame

LEMMA LogPrintedHall ==
  ASSUME TypeInv, HallInv, NEW t \in Tasks, LogPrinted(t)
  PROVE  HallInv'
<1> PICK s : s = task[t].seat
  OBVIOUS
<1> PICK r : r = Run("run", task[t].left, s, 0)
  OBVIOUS
<1>1. /\ task[t].op = "logPrinted" /\ UNCHANGED <<checkins, papers, copies>>
      /\ Write(Printed(s)) /\ Become(t, Run("run", task[t].left, s, 0))
  BY DEF LogPrinted, NextSeat, Db, History
<1>2. /\ s \in Seats /\ s \in PrintedSeats /\ SeatOK(s)
      /\ \A u \in Tasks : u # t => ~Works(u, s)
  BY <1>1, Alone DEF Work, WorkOK
<1>3. task'[t] = r /\ \A u \in Tasks : u # t => task'[u] = task[u]
  BY <1>1, Working
<1>4. r.op = "run" /\ r.op \notin Work
  BY RunFieldsOf DEF Work
<1>5. \A q \in Seats : q # s => SeatKept(q)
  BY <1>1, OtherSeats
<1>6. /\ Generated(s) \in log' <=> Generated(s) \in log
      /\ Generated(s) \in twice' <=> Generated(s) \in twice
  BY <1>1, FactsApart DEF Write
<1>7. SeatOK(s)'
  BY <1>1, <1>2, <1>6 DEF SeatOK, PrintedSeats
<1>8. WorkOK(r)'
  BY <1>4 DEF WorkOK, Work
<1> QED BY <1>1, <1>2, <1>3, <1>4, <1>5, <1>7, <1>8, SeatFrame

LEMMA CrashHall ==
  ASSUME TypeInv, HallInv, NEW p \in Procs, Crash(p)
  PROVE  HallInv'
<1>1. UNCHANGED <<checkins, papers, log, twice>>
  BY DEF Crash, Db, Log
<1>2. \A u \in Tasks : task'[u] = IF u \in TasksOf(p) THEN Idle ELSE task[u]
  BY DEF Crash
<1>3. PICK out \in SUBSET Printing(p) :
        copies' = [s \in Seats |-> copies[s] + IF s \in out THEN 1 ELSE 0]
  BY DEF Crash
<1>4. copies \in [Seats -> Nat]
  BY DEF TypeInv, TypeOK
\* The task whose job may still come out was alone with its seat.
<1>5. ASSUME NEW s \in Seats, s \in out
      PROVE  /\ \A u \in Tasks : u \notin TasksOf(p) => ~Works(u, s)
             /\ copies[s] <= Printers /\ Generated(s) \in log
  <2>1. PICK t \in TasksOf(p) : Submitted(task[t]) /\ task[t].seat = s
    BY <1>3, <1>5 DEF Printing
  <2>2. t \in Tasks /\ task[t].op = "print"
    BY <2>1 DEF TasksOf, Submitted
  <2>3. /\ task[t].tried \in 0..Printers /\ WorkOK(task[t])
        /\ \A u \in Tasks : u # t => ~Works(u, s)
    BY <2>1, <2>2, Alone DEF Work
  <2>4. copies[s] <= task[t].tried /\ Generated(s) \in log
    BY <2>1, <2>2, <2>3 DEF WorkOK, Work
  <2> QED BY <1>4, <2>1, <2>3, <2>4, CentreAssumption
<1>6. ASSUME NEW t \in Tasks PROVE WorkOK(task[t])'
  <2> PICK r : r = task'[t]
    OBVIOUS
  <2>1. CASE r.op \notin Work
    BY <2>1 DEF WorkOK, Work
  <2>2. CASE r.op \in Work
    <3>1. t \notin TasksOf(p) /\ r = task[t]
      BY <1>2, <2>2, IdleState DEF Work
    <3>2. r.seat \in Seats /\ WorkOK(r) /\ Works(t, r.seat)
      BY <2>2, <3>1, Alone DEF Works
    <3>3. r.seat \notin out
      BY <1>5, <3>1, <3>2
    <3>4. copies'[r.seat] = copies[r.seat]
      BY <1>3, <1>4, <3>2, <3>3
    <3>5. SeatKept(r.seat)
      BY <1>1, <3>4 DEF SeatKept
    <3>6. WorkOK(r)'
      BY <3>2, <3>5, WorkKeptOK
    <3> QED BY <3>6 DEF WorkOK
  <2> QED BY <2>1, <2>2
<1>7. \A t \in Tasks, s \in Seats : Works(t, s)' => Works(t, s)
  BY <1>2, IdleState DEF Works, Work
<1>8. ASSUME NEW s \in Seats PROVE SeatOK(s)'
  <2>1. SeatOK(s)
    BY DEF HallInv
  <2>2. CASE s \in out
    <3>1. copies[s] \in Nat /\ copies'[s] = copies[s] + 1
      BY <1>3, <1>4, <2>2
    <3> QED BY <1>1, <1>5, <2>1, <2>2, <3>1, CentreAssumption DEF SeatOK, PrintedSeats
  <2>3. CASE s \notin out
    <3>1. copies'[s] = copies[s]
      BY <1>3, <1>4, <2>3
    <3> QED BY <1>1, <2>1, <3>1 DEF SeatOK, PrintedSeats
  <2> QED BY <2>2, <2>3
<1> QED BY <1>6, <1>7, <1>8 DEF HallInv

LEMMA HallStep ==
  ASSUME TypeInv, HallInv, [Next]_vars
  PROVE  HallInv'
<1>1. Quiet => HallInv'
  BY HallFrame DEF Quiet
<1>2. ASSUME NEW t \in Tasks, Hall(t) PROVE HallInv'
  BY <1>1, <1>2, HallIsQuiet, StorePaperHall, LogGeneratedHall, PrintHall, LogFailoverHall,
     MarkPrintedHall, LogPrintedHall DEF Hall
<1> QED BY <1>1, <1>2, CustodyIsQuiet, OthersAreQuiet, CrashHall DEF Next

-----------------------------------------------------------------------------
(* Closing.                                                                *)

Served == {s \in Seats : copies[s] > 0}

CloseInv ==
  /\ \A n \in 0..Cardinality(Seats) : Closed(n) \in log => n <= Cardinality(Served)
  /\ \A t \in Tasks : task[t].op = "logClose" => task[t].printed <= Cardinality(Served)

LEMMA CloseInit == Init => CloseInv
<1> SUFFICES ASSUME Init PROVE CloseInv
  OBVIOUS
<1>1. \A t \in Tasks : task[t].op # "logClose"
  BY IdleState DEF Init
<1> QED BY <1>1 DEF Init, CloseInv

(* Paper that came out stays out.                                          *)
LEMMA ServedGrows ==
  ASSUME TypeInv, TypeInv', \A s \in Seats : copies'[s] >= copies[s]
  PROVE  /\ Served \subseteq Served'
         /\ Cardinality(Served) \in Nat /\ Cardinality(Served') \in Nat
         /\ Cardinality(Served) <= Cardinality(Served')
<1>1. Served \subseteq Served' /\ Served' \subseteq Seats
  BY DEF Served, TypeInv, TypeOK
<1>2. IsFiniteSet(Served')
  BY <1>1, CentreAssumption, FS_Subset
<1>3. IsFiniteSet(Served) /\ Cardinality(Served) <= Cardinality(Served')
  BY <1>1, <1>2, FS_Subset
<1> QED BY <1>1, <1>2, <1>3, FS_CardinalityType

LEMMA CopiesGrow ==
  ASSUME TypeInv, [Next]_vars
  PROVE  \A s \in Seats : copies'[s] >= copies[s]
<1>0. copies \in [Seats -> Nat]
  BY DEF TypeInv, TypeOK
<1>1. Quiet => \A s \in Seats : copies'[s] >= copies[s]
  BY <1>0 DEF Quiet, SeatKept
<1>2. ASSUME NEW t \in Tasks, Hall(t) PROVE \A s \in Seats : copies'[s] >= copies[s]
  <2>1. CASE PrintCompletes(t) \/ PrinterFails(t)
    <3>1. task[t].seat \in Seats
      BY <2>1, RunFields DEF PrintCompletes, PrinterFails, InSeat
    <3>2. PICK n \in {0, 1} : Emit(task[t].seat, n)
      BY <2>1 DEF PrintCompletes, PrinterFails
    <3> QED BY <1>0, <3>1, <3>2, EmitTypes
  <2>2. CASE StorePaper(t) \/ LogGenerated(t) \/ LogFailover(t) \/ MarkPrinted(t) \/ LogPrinted(t)
    BY <1>0, <2>2 DEF StorePaper, LogGenerated, LogFailover, MarkPrinted, LogPrinted, History
  <2> QED BY <1>1, <1>2, <2>1, <2>2, HallIsQuiet DEF Hall
<1>3. ASSUME NEW p \in Procs, Crash(p) PROVE \A s \in Seats : copies'[s] >= copies[s]
  BY <1>0, <1>3 DEF Crash
<1> QED BY <1>1, <1>2, <1>3, CustodyIsQuiet, OthersAreQuiet DEF Next

\* Steps that neither count nor say how many there were.
NoClosing ==
  /\ \A n \in 0..Cardinality(Seats) : Closed(n) \in log' => Closed(n) \in log
  /\ \A u \in Tasks : task'[u] = task[u] \/ task'[u].op # "logClose"

LEMMA ClosesNothing ==
  ASSUME TypeInv, NEW t \in Tasks, NEW r, Become(t, r), r.op # "logClose"
  PROVE  \A u \in Tasks : task'[u] = task[u] \/ task'[u].op # "logClose"
BY DEF Become, TypeInv, TypeOK

LEMMA PlainClosesNothing ==
  ASSUME TypeInv, NEW t \in Tasks, NEW op \in Plainly, Become(t, [op |-> op])
  PROVE  \A u \in Tasks : task'[u] = task[u] \/ task'[u].op # "logClose"
<1>1. [op |-> op].op # "logClose"
  BY PlainStates DEF Plainly
<1> QED BY <1>1, ClosesNothing

LEMMA FinishClosesNothing ==
  ASSUME TypeInv, NEW t \in Tasks, Become(t, Idle)
  PROVE  \A u \in Tasks : task'[u] = task[u] \/ task'[u].op # "logClose"
BY IdleState, ClosesNothing

LEMMA RunClosesNothing ==
  ASSUME TypeInv, NEW t \in Tasks, NEW op \in InSeat \union {"run"}, NEW left, NEW seat, NEW tried,
         Become(t, Run(op, left, seat, tried))
  PROVE  \A u \in Tasks : task'[u] = task[u] \/ task'[u].op # "logClose"
<1> PICK r : r = Run(op, left, seat, tried)
  OBVIOUS
<1>1. r.op # "logClose"
  BY DEF Run, InSeat
<1> QED BY <1>1, ClosesNothing

LEMMA OtherThanClosed ==
  ASSUME NEW fact, Write(fact), \A n : fact # Closed(n)
  PROVE  \A n \in 0..Cardinality(Seats) : Closed(n) \in log' => Closed(n) \in log
BY DEF Write

LEMMA CustodyClosesNothing ==
  ASSUME TypeInv, NEW t \in Tasks, Custody(t)
  PROVE  NoClosing
<1> USE DEF Log, NoClosing, Plainly
<1>1. ASSUME StartTick(t) PROVE NoClosing
  <2>1. PICK op \in {"fetchKek", "fetchBundle"} : Become(t, [op |-> op])
    BY <1>1 DEF StartTick
  <2> QED BY <1>1, <2>1, PlainClosesNothing DEF StartTick
<1>2. ASSUME ReceiveBundle(t) PROVE NoClosing
  <2>1. PICK op \in {"idle", "logBundle"} : Become(t, [op |-> op])
    BY <1>2 DEF ReceiveBundle, Finish, Idle
  <2> QED BY <1>2, <2>1, PlainClosesNothing DEF ReceiveBundle
<1>3. ASSUME LogBundle(t) PROVE NoClosing
  <2>1. PICK op \in {"idle", "fetchKek"} : Become(t, [op |-> op])
    BY <1>3 DEF LogBundle, Finish, Idle
  <2>2. \A n : Plain("BUNDLE_RECEIVED") # Closed(n)
    BY FactsApart
  <2> QED BY <1>3, <2>1, <2>2, OtherThanClosed, PlainClosesNothing DEF LogBundle
<1>4. ASSUME ReceiveKek(t) PROVE NoClosing
  <2>1. PICK op \in {"idle", "logKek"} : Become(t, [op |-> op])
    BY <1>4 DEF ReceiveKek, Finish, Idle
  <2> QED BY <1>4, <2>1, PlainClosesNothing DEF ReceiveKek
<1>5. ASSUME LogKek(t) PROVE NoClosing
  <2>1. \A n : Plain("KEK_RECEIVED") # Closed(n)
    BY FactsApart
  <2> QED BY <1>5, <2>1, OtherThanClosed, FinishClosesNothing DEF LogKek, Finish
<1> QED BY <1>1, <1>2, <1>3, <1>4, <1>5 DEF Custody

LEMMA HallClosesNothing ==
  ASSUME TypeInv, NEW t \in Tasks,
         \/ (\E k \in Tokens : CheckIn(t, k)) \/ LogCheckin(t)
         \/ StartRun(t) \/ EndRun(t) \/ (\E s \in Seats : Generate(t, s))
         \/ StorePaper(t) \/ LogGenerated(t)
  PROVE  NoClosing
<1> USE DEF Log, NoClosing, InSeat
<1>1. ASSUME NEW k \in Tokens, CheckIn(t, k) PROVE NoClosing
  <2>1. PICK r \in TaskStates : r.op = "logCheckin" /\ Become(t, r)
    BY <1>1, CheckinState DEF CheckIn
  <2> QED BY <1>1, <2>1, ClosesNothing DEF CheckIn
<1>2. ASSUME LogCheckin(t) PROVE NoClosing
  <2>1. \A n : CheckedIn(task[t].token) # Closed(n)
    BY FactsApart
  <2> QED BY <1>2, <2>1, OtherThanClosed, FinishClosesNothing DEF LogCheckin, Finish
<1>3. ASSUME StartRun(t) PROVE NoClosing
  BY <1>3, RunClosesNothing DEF StartRun
<1>4. ASSUME EndRun(t) PROVE NoClosing
  BY <1>4, FinishClosesNothing DEF EndRun, Finish
<1>5. ASSUME NEW s \in Seats, Generate(t, s) PROVE NoClosing
  <2>1. PICK op \in {"render", "run"} : Become(t, Run(op, task[t].left \ {s}, s, 0))
    BY <1>5 DEF Generate
  <2> QED BY <1>5, <2>1, RunClosesNothing DEF Generate
<1>6. ASSUME StorePaper(t) PROVE NoClosing
  <2>1. PICK op \in {"logGenerated", "run"} : Become(t, Run(op, task[t].left, task[t].seat, 0))
    BY <1>6 DEF StorePaper, NextSeat
  <2> QED BY <1>6, <2>1, RunClosesNothing DEF StorePaper
<1>7. ASSUME LogGenerated(t) PROVE NoClosing
  <2>1. \A n : Generated(task[t].seat) # Closed(n)
    BY FactsApart
  <2>2. \A n \in 0..Cardinality(Seats) : Closed(n) \in log' => Closed(n) \in log
    BY <1>7, <2>1, OtherThanClosed DEF LogGenerated
  <2> QED BY <1>7, <2>2, RunClosesNothing DEF LogGenerated
<1> QED BY <1>1, <1>2, <1>3, <1>4, <1>5, <1>6, <1>7

LEMMA PrintClosesNothing ==
  ASSUME TypeInv, NEW t \in Tasks,
         \/ PrintCompletes(t) \/ PrinterFails(t) \/ LogFailover(t) \/ PrintExhausted(t)
         \/ MarkPrinted(t) \/ LogPrinted(t) \/ Fail(t)
  PROVE  NoClosing
<1> USE DEF Log, NoClosing, InSeat
<1>1. ASSUME PrintCompletes(t) PROVE NoClosing
  BY <1>1, RunClosesNothing DEF PrintCompletes
<1>2. ASSUME PrinterFails(t) PROVE NoClosing
  BY <1>2, RunClosesNothing DEF PrinterFails
<1>3. ASSUME LogFailover(t) PROVE NoClosing
  <2>1. \A n : Plain("PRINTER_FAILOVER") # Closed(n)
    BY FactsApart
  <2>2. \A n \in 0..Cardinality(Seats) : Closed(n) \in log' => Closed(n) \in log
    BY <1>3, <2>1, OtherThanClosed DEF LogFailover
  <2> QED BY <1>3, <2>2, RunClosesNothing DEF LogFailover
<1>4. ASSUME PrintExhausted(t) PROVE NoClosing
  BY <1>4, RunClosesNothing DEF PrintExhausted, NextSeat
<1>5. ASSUME MarkPrinted(t) PROVE NoClosing
  BY <1>5, RunClosesNothing DEF MarkPrinted
<1>6. ASSUME LogPrinted(t) PROVE NoClosing
  <2>1. \A n : Printed(task[t].seat) # Closed(n)
    BY FactsApart
  <2>2. \A n \in 0..Cardinality(Seats) : Closed(n) \in log' => Closed(n) \in log
    BY <1>6, <2>1, OtherThanClosed DEF LogPrinted
  <2> QED BY <1>6, <2>2, RunClosesNothing DEF LogPrinted, NextSeat
<1>7. ASSUME Fail(t) PROVE NoClosing
  <2>1. \A u \in Tasks : task'[u] = task[u] \/ task'[u].op # "logClose"
    BY <1>7, RunClosesNothing, FinishClosesNothing DEF Fail, NextSeat, Finish
  <2> QED BY <1>7, <2>1 DEF Fail
<1> QED BY <1>1, <1>2, <1>3, <1>4, <1>5, <1>6, <1>7

LEMMA CloseStep ==
  ASSUME TypeInv, TypeInv', HallInv, CloseInv, [Next]_vars
  PROVE  CloseInv'
<1>1. /\ Served \subseteq Served'
      /\ Cardinality(Served) \in Nat /\ Cardinality(Served') \in Nat
      /\ Cardinality(Served) <= Cardinality(Served')
  BY CopiesGrow, ServedGrows
<1>2. \A t \in Tasks : task[t].op = "logClose" => task[t].printed \in 0..Cardinality(Seats)
  BY StateFields DEF TypeInv, TypeOK
<1>3. ASSUME NoClosing PROVE CloseInv'
  <2>1. ASSUME NEW n \in 0..Cardinality(Seats), Closed(n) \in log'
        PROVE  n <= Cardinality(Served')
    <3>1. n <= Cardinality(Served)
      BY <1>3, <2>1 DEF NoClosing, CloseInv
    <3> QED BY <1>1, <3>1, Sizes
  <2>2. ASSUME NEW t \in Tasks, task'[t].op = "logClose"
        PROVE  task'[t].printed <= Cardinality(Served')
    <3>1. task'[t] = task[t]
      BY <1>3, <2>2 DEF NoClosing
    <3>2. task[t].printed <= Cardinality(Served) /\ task[t].printed \in 0..Cardinality(Seats)
      BY <1>2, <2>2, <3>1 DEF CloseInv
    <3> QED BY <1>1, <3>1, <3>2, Sizes
  <2> QED BY <2>1, <2>2 DEF CloseInv
<1>4. ASSUME NEW t \in Tasks, StartClose(t) PROVE CloseInv'
  <2>1. PICK n \in 0..Cardinality(Seats) : n = Cardinality(PrintedSeats)
    BY Counted
  <2>2. PICK r \in TaskStates : r.printed = n /\ Become(t, r)
    BY <1>4, <2>1, CloseState DEF StartClose
  <2>3. UNCHANGED <<log, copies>>
    BY <1>4 DEF StartClose, Log, History
  <2>4. PrintedSeats \subseteq Served /\ IsFiniteSet(Served)
    <3>1. PrintedSeats \subseteq Served /\ Served \subseteq Seats
      BY Counted DEF HallInv, SeatOK, Served
    <3> QED BY <3>1, CentreAssumption, FS_Subset
  <2>5. n <= Cardinality(Served)
    BY <2>1, <2>4, FS_Subset
  <2>6. /\ task'[t] = r
        /\ \A u \in Tasks : u # t => task'[u] = task[u]
    BY <2>2, BecomeFacts DEF TypeInv, TypeOK
  <2>7. Served' = Served
    BY <2>3 DEF Served
  <2>8. \A u \in Tasks : task'[u].op = "logClose" => task'[u].printed <= Cardinality(Served)
    BY <2>2, <2>5, <2>6 DEF CloseInv
  <2> QED BY <2>3, <2>7, <2>8 DEF CloseInv
<1>5. ASSUME NEW t \in Tasks, LogClose(t) PROVE CloseInv'
  <2> PICK k : k = task[t].printed
    OBVIOUS
  <2>1. k \in 0..Cardinality(Seats) /\ k <= Cardinality(Served)
    BY <1>2, <1>5 DEF LogClose, CloseInv
  <2>2. Become(t, Idle) /\ Write(Closed(k)) /\ UNCHANGED copies
    BY <1>5 DEF LogClose, History
  <2>3. \A u \in Tasks : task'[u] = task[u] \/ task'[u].op # "logClose"
    BY <2>2, FinishClosesNothing
  <2>4. \A n : Closed(n) \in log' => Closed(n) \in log \/ n = k
    BY <2>2, FactsApart DEF Write
  <2>5. Served' = Served
    BY <2>2 DEF Served
  <2> QED BY <2>1, <2>3, <2>4, <2>5 DEF CloseInv
<1>6. ASSUME NEW p \in Procs, Crash(p) PROVE NoClosing
  BY <1>6, IdleState DEF Crash, NoClosing, Log
<1>7. CASE Release \/ UNCHANGED vars
  BY <1>3, <1>7 DEF Release, vars, NoClosing, Log
<1>8. ASSUME NEW t \in Tasks, Hall(t) PROVE CloseInv'
  BY <1>3, <1>4, <1>5, <1>8, HallClosesNothing, PrintClosesNothing DEF Hall
<1> QED BY <1>3, <1>6, <1>7, <1>8, CustodyClosesNothing, PrintClosesNothing DEF Next

-----------------------------------------------------------------------------
(* What these invariants say together.                                     *)

HallInvs == TypeInv /\ CheckinInv /\ HallInv /\ CloseInv

THEOREM CentreInvariant == Spec => []HallInvs
<1>1. Init => HallInvs
  BY TypeInit, CheckinInit, HallInit, CloseInit DEF HallInvs
<1>2. HallInvs /\ [Next]_vars => HallInvs'
  <2> SUFFICES ASSUME HallInvs, [Next]_vars PROVE HallInvs'
    OBVIOUS
  <2>1. TypeInv /\ CheckinInv /\ HallInv /\ CloseInv
    BY DEF HallInvs
  <2>2. TypeInv'
    BY <2>1, TypeStep
  <2>3. CheckinInv'
    BY <2>1, CheckinStep
  <2>4. HallInv'
    BY <2>1, HallStep
  <2>5. CloseInv'
    BY <2>1, <2>2, CloseStep
  <2> QED BY <2>2, <2>3, <2>4, <2>5 DEF HallInvs
<1> QED BY <1>1, <1>2, PTL DEF Spec

(* T7, however many desks check in at once and wherever they end: a seat   *)
(* has one candidate and the paper made for that candidate, and a CHECKED  *)
(* IN line is matched by exactly one entry.                                *)
THEOREM SeatsAreBound == Spec => []SeatBinding
<1>1. HallInvs => SeatBinding
  <2> SUFFICES ASSUME HallInvs PROVE SeatBinding
    OBVIOUS
  <2>1. TypeInv /\ CheckinInv /\ HallInv
    BY DEF HallInvs
  <2>2. admitted \subseteq Tokens /\ DOMAIN papers \subseteq Seats
    BY <2>1 DEF TypeInv, TypeOK
  <2>3. \A s \in DOMAIN papers :
          papers[s].token \in DOMAIN checkins /\ checkins[papers[s].token] = s
    BY <2>1, <2>2 DEF HallInv, SeatOK
  <2> QED BY <2>1, <2>2, <2>3 DEF CheckinInv, SeatBinding
<1> QED BY <1>1, CentreInvariant, PTL

(* Runs of T-0 that overlap or are repeated never bind a seat to a second  *)
(* paper.                                                                  *)
THEOREM SeatsAreBoundOnce == Spec => []OneGenerationPerSeat
<1>1. HallInvs => OneGenerationPerSeat
  BY DEF HallInvs, HallInv, SeatOK, OneGenerationPerSeat
<1> QED BY <1>1, CentreInvariant, PTL

(* T3 and T4: nothing comes out of a printer that is not on record first,  *)
(* and nothing is called printed that did not come out.                    *)
THEOREM PrintsAreOnRecord == Spec => []PrintedIsOnRecord
<1>1. HallInvs => PrintedIsOnRecord
  BY DEF HallInvs, HallInv, SeatOK, PrintedIsOnRecord
<1> QED BY <1>1, CentreInvariant, PTL

(* A seat gets at most one copy from each printer and one from the spool,  *)
(* whatever is run again and whichever process ends.                       *)
THEOREM CopiesBounded == Spec => []CopiesAreBounded
<1>1. HallInvs => CopiesAreBounded
  BY DEF HallInvs, HallInv, SeatOK, CopiesAreBounded
<1> QED BY <1>1, CentreInvariant, PTL

(* T10: the count in EXAM_CLOSED was made before the entry, beside runs    *)
(* that go on, and is never more than what came out.                       *)
THEOREM ClosesAreHonest == Spec => []CloseIsHonest
<1>1. HallInvs => CloseIsHonest
  BY DEF HallInvs, CloseInv, Served, CloseIsHonest
<1> QED BY <1>1, CentreInvariant, PTL

-----------------------------------------------------------------------------
(* The node implements the exam hall.                                      *)

Bound == {s \in Seats : Generated(s) \in log}

HallVars == <<checkins, Bound, Served>>

LEMMA ExamHallInit == Init => E!Init
<1> SUFFICES ASSUME Init PROVE E!Init
  OBVIOUS
<1>1. checkins = [k \in {} |-> k]
  BY DEF Init
<1>2. {s \in Seats : Generated(s) \in log} = {}
  BY DEF Init
<1>3. {s \in Seats : copies[s] > 0} = {}
  BY DEF Init
<1> QED BY <1>1, <1>2, <1>3 DEF E!Init

LEMMA SeatsKeptStutter ==
  ASSUME \A s \in Seats : SeatKept(s)
  PROVE  Bound' = Bound /\ Served' = Served
BY DEF SeatKept, Bound, Served

\* Away from a seat nothing is bound or served.
LEMMA OneSeatChanges ==
  ASSUME NEW s \in Seats, \A q \in Seats : q # s => SeatKept(q)
  PROVE  /\ Generated(s) \in log' /\ Generated(s) \notin log => Bound' = Bound \union {s}
         /\ (Generated(s) \in log' <=> Generated(s) \in log) => Bound' = Bound
         /\ copies'[s] > 0 => Served' = Served \union {s}
         /\ copies'[s] = copies[s] => Served' = Served
BY DEF SeatKept, Bound, Served

(* At most one job of a process is under way: a tick has none.             *)
LEMMA OneJobPerProcess ==
  ASSUME TypeInv, NEW p \in Procs, NEW r \in Printing(p), NEW s \in Printing(p)
  PROVE  r = s
<1>1. PICK t \in TasksOf(p) : Submitted(task[t]) /\ task[t].seat = r
  BY DEF Printing
<1>2. PICK u \in TasksOf(p) : Submitted(task[u]) /\ task[u].seat = s
  BY DEF Printing
<1>3. t \in Tasks \ Ticks /\ u \in Tasks \ Ticks
  BY <1>1, <1>2, RunFields DEF TasksOf, Submitted, InSeat
<1>4. t = p /\ u = p
  BY <1>3 DEF TasksOf, ProcOf
<1> QED BY <1>1, <1>2, <1>4

\* The steps of the hall, in the node's own terms.
Takes(k) ==
  /\ k \notin DOMAIN checkins /\ SeatOf[k] \notin Occupied
  /\ checkins' = Put(checkins, k, SeatOf[k])
  /\ UNCHANGED <<Bound, Served>>

Binds(s) ==
  /\ s \in Occupied /\ s \notin Bound
  /\ Bound' = Bound \union {s}
  /\ UNCHANGED <<checkins, Served>>

Serves(s) ==
  /\ s \in Bound
  /\ Served' = Served \union {s}
  /\ UNCHANGED <<checkins, Bound>>

HallMove ==
  \/ \E k \in Tokens : Takes(k)
  \/ \E s \in Seats : Binds(s) \/ Serves(s)
  \/ UNCHANGED HallVars

LEMMA HallMoves ==
  ASSUME HallMove
  PROVE  [E!Next]_<<checkins, {s \in Seats : Generated(s) \in log}, {s \in Seats : copies[s] > 0}>>
<1>1. ASSUME NEW k \in Tokens, Takes(k) PROVE E!Next
  <2>1. SeatOf[k] \in Seats
    BY CentreAssumption
  <2>2. E!Take(k, SeatOf[k])
    BY <1>1 DEF Takes, E!Take, E!Taken, Put, Occupied, Bound, Served
  <2> QED BY <2>1, <2>2 DEF E!Next
<1>2. ASSUME NEW s \in Seats, Binds(s) PROVE E!Next
  <2>1. E!Bind(s)
    BY <1>2 DEF Binds, E!Bind, E!Taken, Occupied, Bound, Served
  <2> QED BY <2>1 DEF E!Next
<1>3. ASSUME NEW s \in Seats, Serves(s) PROVE E!Next
  <2>1. E!Serve(s)
    BY <1>3 DEF Serves, E!Serve, Bound, Served
  <2> QED BY <2>1 DEF E!Next
<1>4. CASE UNCHANGED HallVars
  BY <1>4 DEF HallVars, Bound, Served
<1> QED BY <1>1, <1>2, <1>3, <1>4 DEF HallMove

LEMMA ExamHallStep ==
  ASSUME HallInvs, [Next]_vars
  PROVE  HallMove
<1>0. TypeInv /\ HallInv /\ copies \in [Seats -> Nat]
  BY DEF HallInvs, TypeInv, TypeOK
<1>1. ASSUME UNCHANGED checkins, \A s \in Seats : SeatKept(s) PROVE HallMove
  BY <1>1, SeatsKeptStutter DEF HallMove, HallVars
<1>2. ASSUME NEW t \in Tasks, NEW k \in Tokens, CheckIn(t, k) PROVE HallMove
  <2>1. UNCHANGED <<papers, copies, log, twice>>
    BY <1>2 DEF CheckIn, Log, History
  <2>2. UNCHANGED <<Bound, Served>>
    BY <2>1, Untouched, SeatsKeptStutter
  <2> QED BY <1>2, <2>2 DEF CheckIn, Takes, HallMove
<1>3. ASSUME NEW t \in Tasks, LogGenerated(t) PROVE HallMove
  <2> PICK s : s = task[t].seat
    OBVIOUS
  <2>1. /\ task[t].op = "logGenerated" /\ Write(Generated(s))
        /\ UNCHANGED <<checkins, papers, copies>>
    BY <1>3 DEF LogGenerated, Db, History
  <2>2. s \in Seats /\ s \in DOMAIN papers /\ Generated(s) \notin log /\ SeatOK(s)
    BY <1>0, <2>1, Alone DEF Work, WorkOK
  <2>3. s \in Occupied
    BY <2>2 DEF SeatOK, Occupied
  <2>4. \A q \in Seats : q # s => SeatKept(q)
    BY <2>1, OtherSeats
  <2>5. Generated(s) \in log'
    BY <2>1 DEF Write
  <2>6. Bound' = Bound \union {s} /\ Served' = Served
    BY <2>1, <2>2, <2>4, <2>5, OneSeatChanges
  <2>7. Binds(s)
    BY <2>1, <2>2, <2>3, <2>6 DEF Binds, Bound
  <2> QED BY <2>2, <2>7 DEF HallMove
<1>4. ASSUME NEW t \in Tasks, PrintCompletes(t) \/ PrinterFails(t) PROVE HallMove
  <2> PICK s : s = task[t].seat
    OBVIOUS
  <2>1. task[t].op = "print" /\ UNCHANGED <<checkins, papers, log, twice>>
    BY <1>4 DEF PrintCompletes, PrinterFails, Db, Log
  <2>2. s \in Seats /\ Generated(s) \in log
    BY <1>0, <2>1, Alone DEF Work, WorkOK
  <2>3. PICK n \in {0, 1} : Emit(s, n)
    BY <1>4 DEF PrintCompletes, PrinterFails
  <2>4. /\ copies[s] \in Nat /\ copies'[s] = copies[s] + n
        /\ \A q \in Seats : q # s => copies'[q] = copies[q]
    BY <1>0, <2>2, <2>3, EmitTypes
  <2>5. \A q \in Seats : q # s => SeatKept(q)
    BY <2>1, <2>4 DEF SeatKept
  <2>6. CASE n = 0
    BY <1>1, <2>1, <2>4, <2>5, <2>6 DEF SeatKept
  <2>7. CASE n = 1
    <3>1. Bound' = Bound /\ Served' = Served \union {s}
      BY <2>1, <2>2, <2>4, <2>5, <2>7, OneSeatChanges
    <3>2. Serves(s)
      BY <2>1, <2>2, <3>1 DEF Serves, Bound
    <3> QED BY <2>2, <3>2 DEF HallMove
  <2> QED BY <2>6, <2>7
<1>5. ASSUME NEW t \in Tasks, StorePaper(t) \/ LogFailover(t) \/ MarkPrinted(t) \/ LogPrinted(t)
      PROVE  HallMove
  <2>1. UNCHANGED <<checkins, copies>>
    BY <1>5 DEF StorePaper, LogFailover, MarkPrinted, LogPrinted, Db, History
  <2>2. \A s \in Seats : Generated(s) \in log' <=> Generated(s) \in log
    BY <1>5, FactsApart DEF StorePaper, LogFailover, MarkPrinted, LogPrinted, Log, Write
  <2>3. UNCHANGED <<Bound, Served>>
    BY <2>1, <2>2 DEF Bound, Served
  <2> QED BY <2>1, <2>3 DEF HallMove, HallVars
<1>6. ASSUME NEW p \in Procs, Crash(p) PROVE HallMove
  <2>1. UNCHANGED <<checkins, papers, log, twice>>
    BY <1>6 DEF Crash, Db, Log
  <2>2. PICK out \in SUBSET Printing(p) :
          copies' = [s \in Seats |-> copies[s] + IF s \in out THEN 1 ELSE 0]
    BY <1>6 DEF Crash
  <2>3. CASE out = {}
    <3>1. \A s \in Seats : SeatKept(s)
      BY <1>0, <2>1, <2>2, <2>3 DEF SeatKept
    <3> QED BY <1>1, <2>1, <3>1
  <2>4. CASE out # {}
    <3>1. PICK s \in out : TRUE
      BY <2>4
    <3>2. PICK t \in Tasks : task[t].op = "print" /\ task[t].seat = s
      BY <2>2, <3>1 DEF Printing, TasksOf, Submitted
    <3>3. s \in Seats /\ Generated(s) \in log
      BY <1>0, <3>2, Alone DEF Work, WorkOK
    <3>4. \A q \in out : q = s
      BY <1>0, <2>2, <3>1, OneJobPerProcess
    <3>5. copies'[s] > 0 /\ \A q \in Seats : q # s => copies'[q] = copies[q]
      BY <1>0, <2>2, <3>1, <3>3, <3>4
    <3>6. \A q \in Seats : q # s => SeatKept(q)
      BY <2>1, <3>5 DEF SeatKept
    <3>7. Bound' = Bound /\ Served' = Served \union {s}
      BY <2>1, <3>3, <3>5, <3>6, OneSeatChanges
    <3>8. Serves(s)
      BY <2>1, <3>3, <3>7 DEF Serves, Bound
    <3> QED BY <3>3, <3>8 DEF HallMove
  <2> QED BY <2>3, <2>4
<1>7. ASSUME NEW t \in Tasks, Custody(t) \/ Fail(t) PROVE HallMove
  <2>1. \A s \in Seats : SeatKept(s)
    BY <1>0, <1>7, CustodyIsQuiet, OthersAreQuiet DEF Quiet
  <2>2. UNCHANGED checkins
    BY <1>7 DEF Custody, StartTick, ReceiveBundle, LogBundle, ReceiveKek, LogKek, Fail, Db
  <2> QED BY <1>1, <2>1, <2>2
<1>8. ASSUME NEW t \in Tasks,
             \/ LogCheckin(t) \/ StartRun(t) \/ EndRun(t) \/ (\E s \in Seats : Generate(t, s))
             \/ PrintExhausted(t) \/ StartClose(t) \/ LogClose(t)
      PROVE  HallMove
  <2>1. \A s \in Seats : SeatKept(s)
    BY <1>0, <1>8, HallIsQuiet DEF Quiet
  <2>2. UNCHANGED checkins
    BY <1>8 DEF LogCheckin, StartRun, EndRun, Generate, PrintExhausted, StartClose, LogClose, Db
  <2> QED BY <1>1, <2>1, <2>2
<1>9. CASE Release \/ UNCHANGED vars
  <2>1. UNCHANGED <<checkins, papers, copies, log, twice>>
    BY <1>9 DEF Release, vars, Db, Log, History
  <2> QED BY <1>1, <2>1, Untouched
<1>10. ASSUME NEW t \in Tasks, Hall(t) PROVE HallMove
  BY <1>2, <1>3, <1>4, <1>5, <1>8, <1>10 DEF Hall
<1> QED BY <1>6, <1>7, <1>9, <1>10 DEF Next

(* Ticks, commands and programs on one state directory, with everything    *)
(* that may fail between their steps, keep the promises of the exam hall:  *)
(* one candidate to a seat, one paper to a seat, no service before.        *)
THEOREM NodeImplementsExamHall == Spec => ImplementsExamHall
<1>1. Init => E!Init
  BY ExamHallInit
<1>2. HallInvs /\ [Next]_vars =>
        [E!Next]_<<checkins, {s \in Seats : Generated(s) \in log}, {s \in Seats : copies[s] > 0}>>
  BY ExamHallStep, HallMoves
<1> QED BY <1>1, <1>2, CentreInvariant, PTL DEF Spec, ImplementsExamHall, E!Spec

=============================================================================
