-------------------------- MODULE ExamAuditProofs --------------------------
(***************************************************************************)
(* What ExamAudit's runs check on two centres, for any number of centres,  *)
(* cards and custodians and any earlier exams in the authority's log: the  *)
(* type invariant, that a complaint of the audit has a cause, and that a   *)
(* clean report is earned.  The rows compare entries of different logs;    *)
(* the inductive invariant (EvidenceInv) says of each entry which row of   *)
(* which table, or which call of release, it is evidence of.               *)
(***************************************************************************)
EXTENDS ExamAudit, FiniteSetTheorems, SequenceTheorems, WellFoundedInduction, TLAPS

-----------------------------------------------------------------------------
(* The first and the last place of an entry in a log.                      *)

\* Some number of a set is the least.
LEMMA LeastNatural ==
  ASSUME NEW T, T \subseteq Nat, T # {}
  PROVE  \E m \in T : \A k \in T : m <= k
<1> DEFINE R == OpToRel(<, Nat)
<1>1. R = {ss \in Nat \X Nat : ss[1] < ss[2]}
  BY DEF OpToRel
<1>2. IsWellFoundedOn(R, Nat)
  BY NatLessThanWellFounded
<1> HIDE DEF R
<1>3. PICK x \in T : \A y \in T : ~(<<y, x>> \in R)
  BY <1>2, WFMin, Zenon
<1>4. \A y \in T : ~(y < x)
  BY <1>1, <1>3
<1> QED BY <1>3, <1>4

\* The first of some places is one of them.
LEMMA MinIsLeast ==
  ASSUME NEW T, T \subseteq Nat, T # {}
  PROVE  Min(T) \in T /\ \A k \in T : Min(T) <= k
  BY LeastNatural DEF Min

\* The last of some places is one of them.
LEMMA MaxIsGreatest ==
  ASSUME NEW n \in Nat, NEW T, T \subseteq 1..n, T # {}
  PROVE  Max(T) \in T /\ \A k \in T : k <= Max(T)
<1> DEFINE B == {k \in Nat : \A i \in T : i <= k}
<1>1. B \subseteq Nat /\ n \in B
  OBVIOUS
<1> HIDE DEF B
<1>2. PICK m \in B : \A k \in B : m <= k
  BY <1>1, LeastNatural
<1> USE DEF B
<1>3. m \in T
  <2>1. SUFFICES ASSUME m \notin T PROVE FALSE
    OBVIOUS
  <2>2. PICK t \in T : t \in 1..n
    OBVIOUS
  <2>3. m \in Nat /\ t <= m
    BY <1>2, <2>2
  <2>4. m - 1 \in Nat
    BY <2>2, <2>3
  <2>5. \A i \in T : i <= m - 1
    BY <1>2, <2>1, <2>3
  <2>6. m - 1 \in B
    BY <2>4, <2>5
  <2> QED BY <1>2, <2>3, <2>6
<1> QED BY <1>2, <1>3 DEF Max

\* The places at which a sequence has what one looks for, and their ends.
LEMMA EndsOfPlaces ==
  ASSUME NEW S, NEW s \in Seq(S), NEW T, T \subseteq DOMAIN s, T # {}
  PROVE  Min(T) \in T /\ Max(T) \in T
<1>1. Len(s) \in Nat /\ DOMAIN s = 1..Len(s)
  BY LenProperties
<1>2. T \subseteq Nat
  BY <1>1
<1> QED BY <1>1, <1>2, MinIsLeast, MaxIsGreatest

-----------------------------------------------------------------------------
(* The type invariant.                                                     *)

\* What an entry may hold.
Distributions == {Distribution(c) : c \in Centres}
Schedules     == {Schedule(at) : at \in 1..MaxTime}
Attempts      == {Attempt(by) : by \in Approvals}
Releases      == {Release(at, by) : at \in 0..MaxTime, by \in Approvals}
CheckIns      == {CheckIn(card) : card \in Cards}
Generations   == {Generation(card) : card \in Cards}
EarlierOnes   == UNION {Range(Earlier[t]) : t \in Types}

PayloadSet ==
  {Created("thisExam", "paper", Content), Created("thisExam", "answers", "key"),
   Issued("thisExam", "paper"), Issued("thisExam", "answers"), Closing}
    \union Distributions \union Schedules \union Attempts \union Releases
    \union CheckIns \union Generations \union EarlierOnes

EntrySet == [log : Logs, type : Types, payload : PayloadSet]

LogOK == log \in [Logs -> [Types -> Seq(PayloadSet)]] /\ delayed \subseteq EntrySet

\* The calls of release: the T-0 they read is the one announced last by then.
CallsOK ==
  /\ announced \in Seq(1..MaxTime)
  /\ schedule = IF announced = <<>> THEN 0 ELSE announced[Len(announced)]
  /\ releases \subseteq [at : 0..MaxTime, tzero : 1..MaxTime, by : Approvals]
  /\ releases # {} => announced # <<>>

RowsOK ==
  /\ provisioned \in BOOLEAN /\ shared \in BOOLEAN
  /\ distributed \subseteq Centres /\ released \subseteq distributed
  /\ received \subseteq distributed
  /\ papers \subseteq checkedIn /\ checkedIn \subseteq Cards
  /\ releasing \subseteq [at : 0..MaxTime, by : Approvals, to : SUBSET distributed]

ShapeInv ==
  /\ now \in 0..MaxTime /\ faults \in 0..MaxFaults
  /\ closes \in [Centres -> 0..MaxCloses]
  /\ RowsOK /\ CallsOK /\ LogOK

\* An entry keeps its parts.
LEMMA EntryParts ==
  ASSUME NEW a, NEW t, NEW p
  PROVE  /\ Entry(a, t, p).log = a /\ Entry(a, t, p).type = t /\ Entry(a, t, p).payload = p
         /\ a \in Logs /\ t \in Types /\ p \in PayloadSet => Entry(a, t, p) \in EntrySet
  BY DEF Entry, EntrySet

\* What this exam puts into its logs.
LEMMA PayloadsOfThisExam ==
  /\ Created("thisExam", "paper", Content) \in PayloadSet
  /\ Created("thisExam", "answers", "key") \in PayloadSet
  /\ Issued("thisExam", "paper") \in PayloadSet
  /\ Issued("thisExam", "answers") \in PayloadSet
  /\ Closing \in PayloadSet
  /\ \A c \in Centres : Distribution(c) \in PayloadSet
  /\ \A at \in 1..MaxTime : Schedule(at) \in PayloadSet
  /\ \A by \in Approvals : Attempt(by) \in PayloadSet
  /\ \A at \in 0..MaxTime, by \in Approvals : Release(at, by) \in PayloadSet
  /\ \A card \in Cards : CheckIn(card) \in PayloadSet /\ Generation(card) \in PayloadSet
<1>1. /\ Created("thisExam", "paper", Content) \in PayloadSet
      /\ Created("thisExam", "answers", "key") \in PayloadSet
      /\ Issued("thisExam", "paper") \in PayloadSet
      /\ Issued("thisExam", "answers") \in PayloadSet
      /\ Closing \in PayloadSet
  BY DEF PayloadSet
<1>2. /\ \A c \in Centres : Distribution(c) \in Distributions
      /\ \A at \in 1..MaxTime : Schedule(at) \in Schedules
      /\ \A by \in Approvals : Attempt(by) \in Attempts
  BY DEF Distributions, Schedules, Attempts
<1>3. /\ \A at \in 0..MaxTime, by \in Approvals : Release(at, by) \in Releases
      /\ \A card \in Cards : CheckIn(card) \in CheckIns /\ Generation(card) \in Generations
  BY DEF Releases, CheckIns, Generations
<1>4. /\ Distributions \subseteq PayloadSet /\ Schedules \subseteq PayloadSet
      /\ Attempts \subseteq PayloadSet /\ Releases \subseteq PayloadSet
      /\ CheckIns \subseteq PayloadSet /\ Generations \subseteq PayloadSet
  BY DEF PayloadSet
<1> QED BY <1>1, <1>2, <1>3, <1>4

\* Recording an entry appends its payload to one sequence of one log.
LEMMA RecordedFacts ==
  ASSUME LogOK, NEW e \in EntrySet
  PROVE  /\ Recorded(e) \in [Logs -> [Types -> Seq(PayloadSet)]]
         /\ \A b \in Logs, u \in Types :
              Recorded(e)[b][u] = IF b = e.log /\ u = e.type
                                    THEN Append(log[b][u], e.payload) ELSE log[b][u]
<1>1. e.log \in Logs /\ e.type \in Types /\ e.payload \in PayloadSet
  BY DEF EntrySet
<1>2. log \in [Logs -> [Types -> Seq(PayloadSet)]]
  BY DEF LogOK
<1>3. log[e.log] \in [Types -> Seq(PayloadSet)] /\ log[e.log][e.type] \in Seq(PayloadSet)
  BY <1>1, <1>2
<1>4. Append(log[e.log][e.type], e.payload) \in Seq(PayloadSet)
  BY <1>1, <1>3, AppendProperties
<1>5. Recorded(e) = [log EXCEPT ![e.log] = [log[e.log] EXCEPT
                       ![e.type] = Append(log[e.log][e.type], e.payload)]]
  BY DEF Recorded
<1>6. [log[e.log] EXCEPT ![e.type] = Append(log[e.log][e.type], e.payload)]
        \in [Types -> Seq(PayloadSet)]
  BY <1>1, <1>3, <1>4
<1> QED BY <1>1, <1>2, <1>3, <1>5, <1>6

\* A command's entry leaves the logs in shape.
LEMMA RecordShape ==
  ASSUME LogOK, faults \in 0..MaxFaults, NEW a \in Logs, NEW t \in Types, NEW p \in PayloadSet,
         Record(Entry(a, t, p))
  PROVE  LogOK' /\ faults' \in 0..MaxFaults
<1> DEFINE e == Entry(a, t, p)
<1>1. e \in EntrySet
  BY EntryParts
<1> HIDE DEF e
<1>2. CASE log' = Recorded(e) /\ UNCHANGED <<delayed, faults>>
  BY <1>1, <1>2, RecordedFacts DEF LogOK
<1>3. CASE /\ e \notin delayed /\ faults < MaxFaults
           /\ delayed' = delayed \union {e}
           /\ faults' = faults + 1
           /\ UNCHANGED log
  BY <1>1, <1>3, ExamAssumption DEF LogOK
<1> QED BY <1>2, <1>3 DEF Record, e

\* The bundles and shares that provisioning got to.
LEMMA SomeOfTwo ==
  ASSUME NEW S, NEW x \in S, NEW y \in S, NEW k \in 0..2
  PROVE  /\ SubSeq(<<x, y>>, 1, k) \in Seq(S) /\ Len(SubSeq(<<x, y>>, 1, k)) = k
         /\ k >= 1 => SubSeq(<<x, y>>, 1, k)[1] = x
         /\ k = 2 => SubSeq(<<x, y>>, 1, k)[2] = y
<1>1. <<x, y>> \in Seq(S) /\ Len(<<x, y>>) = 2
  OBVIOUS
<1>2. k = 0 \/ k \in 1..2
  OBVIOUS
<1> QED BY <1>1, <1>2, SubSeqProperties

PaperAndAnswers == <<Created("thisExam", "paper", Content), Created("thisExam", "answers", "key")>>
TheirShares     == <<Issued("thisExam", "paper"), Issued("thisExam", "answers")>>

\* Provisioning extends two sequences of the authority's log.
LEMMA ProvisionFacts ==
  ASSUME LogOK, NEW n \in 0..4, Provision(n)
  PROVE  /\ log' \in [Logs -> [Types -> Seq(PayloadSet)]]
         /\ \A b \in Logs, u \in Types :
              log'[b][u] =
                IF b = "authority" /\ u = "BUNDLE_CREATED"
                  THEN log[b][u] \o SubSeq(PaperAndAnswers, 1, (n + 1) \div 2)
                ELSE IF b = "authority" /\ u = "SHARES_ISSUED"
                  THEN log[b][u] \o SubSeq(TheirShares, 1, n \div 2)
                ELSE log[b][u]
         /\ (n + 1) \div 2 \in 0..2 /\ n \div 2 \in 0..2
<1>1. (n + 1) \div 2 \in 0..2 /\ n \div 2 \in 0..2
  OBVIOUS
<1> DEFINE created == SubSeq(PaperAndAnswers, 1, (n + 1) \div 2)
           issued  == SubSeq(TheirShares, 1, n \div 2)
<1>2. created \in Seq(PayloadSet) /\ issued \in Seq(PayloadSet)
  BY <1>1, SomeOfTwo, PayloadsOfThisExam DEF PaperAndAnswers, TheirShares
<1>3. log \in [Logs -> [Types -> Seq(PayloadSet)]] /\ "authority" \in Logs
      /\ "BUNDLE_CREATED" \in Types /\ "SHARES_ISSUED" \in Types
  BY DEF LogOK, Logs, Types
<1>4. log' = [log EXCEPT !["authority"]["BUNDLE_CREATED"] = @ \o created,
                         !["authority"]["SHARES_ISSUED"] = @ \o issued]
  BY DEF Provision, PaperAndAnswers, TheirShares
<1> HIDE DEF created, issued
<1>5. /\ log["authority"] \in [Types -> Seq(PayloadSet)]
      /\ log["authority"]["BUNDLE_CREATED"] \o created \in Seq(PayloadSet)
      /\ log["authority"]["SHARES_ISSUED"] \o issued \in Seq(PayloadSet)
  BY <1>2, <1>3, ConcatProperties
<1>6. log' = [log EXCEPT !["authority"] =
                [log["authority"] EXCEPT
                   !["BUNDLE_CREATED"] = log["authority"]["BUNDLE_CREATED"] \o created,
                   !["SHARES_ISSUED"] = log["authority"]["SHARES_ISSUED"] \o issued]]
  BY <1>3, <1>4
<1> DEFINE a == [log["authority"] EXCEPT
                   !["BUNDLE_CREATED"] = log["authority"]["BUNDLE_CREATED"] \o created,
                   !["SHARES_ISSUED"] = log["authority"]["SHARES_ISSUED"] \o issued]
<1>7. a \in [Types -> Seq(PayloadSet)]
  BY <1>3, <1>5
<1>8. /\ a["BUNDLE_CREATED"] = log["authority"]["BUNDLE_CREATED"] \o created
      /\ a["SHARES_ISSUED"] = log["authority"]["SHARES_ISSUED"] \o issued
      /\ \A u \in Types \ {"BUNDLE_CREATED", "SHARES_ISSUED"} : a[u] = log["authority"][u]
  BY <1>3, <1>5
<1>9. log' = [log EXCEPT !["authority"] = a]
  BY <1>6
<1> HIDE DEF a
<1>10. log' \in [Logs -> [Types -> Seq(PayloadSet)]]
  BY <1>3, <1>7, <1>9
<1>11. log'["authority"] = a /\ \A b \in Logs \ {"authority"} : log'[b] = log[b]
  BY <1>3, <1>9
<1> QED BY <1>1, <1>8, <1>10, <1>11 DEF created, issued

\* A row in schedules is the T-0 announced last.
LEMMA ScheduleIsAnnounced ==
  ASSUME CallsOK, schedule # 0
  PROVE  announced # <<>> /\ schedule = announced[Len(announced)] /\ schedule \in 1..MaxTime
<1>1. announced \in Seq(1..MaxTime) /\ announced # <<>> /\ schedule = announced[Len(announced)]
  BY DEF CallsOK
<1>2. Len(announced) \in 1..Len(announced)
  BY <1>1, LenProperties, EmptySeq
<1> QED BY <1>1, <1>2, ElementOfSeq

LEMMA ShapeInit == Init => ShapeInv
<1> SUFFICES ASSUME Init PROVE ShapeInv
  OBVIOUS
<1> USE DEF Init
<1>1. now \in 0..MaxTime /\ faults \in 0..MaxFaults /\ closes \in [Centres -> 0..MaxCloses]
  BY ExamAssumption
<1>2. RowsOK
  BY DEF RowsOK
<1>3. CallsOK
  BY EmptySeq DEF CallsOK
<1>4. Earlier \in [Types -> Seq(PayloadSet)] /\ [t \in Types |-> <<>>] \in [Types -> Seq(PayloadSet)]
  <2>1. EarlierOnes \subseteq PayloadSet
    BY DEF PayloadSet
  <2>2. Seq(EarlierOnes) \subseteq Seq(PayloadSet) /\ <<>> \in Seq(PayloadSet)
    BY <2>1, SeqMonotonic, EmptySeq
  <2>3. Earlier \in [Types -> Seq(EarlierOnes)]
    BY EarlierAssumption DEF EarlierOnes
  <2> QED BY <2>2, <2>3
<1>5. LogOK
  BY <1>4 DEF LogOK
<1> QED BY <1>1, <1>2, <1>3, <1>5 DEF ShapeInv

\* What the rows of the tables leave to be shown of a step.
LEMMA ShapeStep ==
  ASSUME ShapeInv, Next
  PROVE  ShapeInv'
<1> USE DEF ShapeInv
<1>a. RowsOK /\ CallsOK /\ LogOK
  OBVIOUS
<1>b. "authority" \in Logs /\ Centres \subseteq Logs
  BY DEF Logs
<1>c. /\ {"BUNDLE_DISTRIBUTED", "RELEASE_SCHEDULED", "EARLY_RELEASE_ATTEMPT", "KEK_RELEASED",
          "BUNDLE_RECEIVED", "CANDIDATE_CHECKED_IN", "PAPER_GENERATED", "EXAM_CLOSED"}
           \subseteq Types
  BY DEF Types
<1>1. CASE Tick
  BY <1>1, ExamAssumption DEF Tick, rows, history, RowsOK, CallsOK, LogOK
<1>2. ASSUME NEW e \in delayed, AppendLate(e) PROVE ShapeInv'
  <2>1. e \in EntrySet
    BY DEF LogOK
  <2>2. LogOK'
    BY <1>2, <2>1, RecordedFacts DEF AppendLate, LogOK
  <2> QED BY <1>2, <2>2 DEF AppendLate, rows, history, RowsOK, CallsOK
<1>3. ASSUME NEW n \in 0..4, Provision(n) PROVE ShapeInv'
  <2>1. LogOK'
    BY <1>3, ProvisionFacts DEF Provision, LogOK
  <2>0. /\ n = 4 \/ faults < MaxFaults
        /\ provisioned' = TRUE /\ shared' = (n >= 1)
        /\ faults' = IF n = 4 THEN faults ELSE faults + 1
        /\ UNCHANGED <<distributed, released, received, checkedIn, papers, releasing>>
    BY <1>3 DEF Provision
  <2>2. faults' \in 0..MaxFaults
    BY <2>0, ExamAssumption
  <2>3. RowsOK'
    BY <2>0 DEF RowsOK
  <2>4. CallsOK'
    BY <1>3 DEF Provision, CallsOK, history
  <2> QED BY <1>3, <2>1, <2>2, <2>3, <2>4 DEF Provision, history
<1>4. ASSUME NEW at \in 1..MaxTime, ScheduleRelease(at) PROVE ShapeInv'
  <2>1. LogOK' /\ faults' \in 0..MaxFaults
    BY <1>b, <1>c, <1>4, RecordShape, PayloadsOfThisExam DEF ScheduleRelease
  <2>2. RowsOK'
    BY <1>4 DEF ScheduleRelease, RowsOK
  <2>3. CallsOK'
    <3>1. announced' = Append(announced, at) /\ schedule' = at /\ releases' = releases
      BY <1>4 DEF ScheduleRelease
    <3>2. /\ announced' \in Seq(1..MaxTime) /\ announced' # <<>>
          /\ announced'[Len(announced')] = at
      BY <3>1, AppendProperties DEF CallsOK
    <3> QED BY <3>1, <3>2 DEF CallsOK
  <2> QED BY <1>4, <2>1, <2>2, <2>3 DEF ScheduleRelease
<1>5. ASSUME NEW by \in Approvals, ReleaseRefused(by) PROVE ShapeInv'
  <2>1. LogOK' /\ faults' \in 0..MaxFaults
    BY <1>b, <1>c, <1>5, RecordShape, PayloadsOfThisExam DEF ReleaseRefused
  <2>2. RowsOK'
    BY <1>5 DEF ReleaseRefused, RowsOK, rows
  <2>3. CallsOK'
    <3>1. announced # <<>> /\ schedule \in 1..MaxTime
      BY <1>5, ScheduleIsAnnounced DEF ReleaseRefused
    <3> QED BY <1>5, <3>1 DEF ReleaseRefused, rows, CallsOK
  <2> QED BY <1>5, <2>1, <2>2, <2>3 DEF ReleaseRefused
<1>6. ASSUME NEW by \in Approvals, StartRelease(by) PROVE ShapeInv'
  <2>1. RowsOK'
    BY <1>6 DEF StartRelease, RowsOK, rows
  <2>2. CallsOK'
    <3>1. announced # <<>> /\ schedule \in 1..MaxTime
      BY <1>6, ScheduleIsAnnounced DEF StartRelease
    <3> QED BY <1>6, <3>1 DEF StartRelease, rows, CallsOK
  <2> QED BY <1>6, <2>1, <2>2 DEF StartRelease, LogOK
<1>7. ASSUME NEW r \in releasing, FinishRelease(r) PROVE ShapeInv'
  <2>0. r.at \in 0..MaxTime /\ r.by \in Approvals /\ r.to \subseteq distributed
    BY DEF RowsOK
  <2>1. LogOK' /\ faults' \in 0..MaxFaults
    BY <1>b, <1>c, <1>7, <2>0, RecordShape, PayloadsOfThisExam DEF FinishRelease
  <2>2. RowsOK'
    BY <1>7, <2>0 DEF FinishRelease, RowsOK
  <2> QED BY <1>7, <2>1, <2>2 DEF FinishRelease, history, CallsOK
<1>8. ASSUME NEW c \in Centres, Distribute(c) PROVE ShapeInv'
  <2>1. LogOK' /\ faults' \in 0..MaxFaults
    BY <1>b, <1>c, <1>8, RecordShape, PayloadsOfThisExam DEF Distribute
  <2>2. RowsOK'
    BY <1>8 DEF Distribute, RowsOK
  <2> QED BY <1>8, <2>1, <2>2 DEF Distribute, history, CallsOK
<1>9. ASSUME NEW c \in Centres, Receive(c) PROVE ShapeInv'
  <2>1. LogOK' /\ faults' \in 0..MaxFaults
    BY <1>b, <1>c, <1>9, RecordShape, PayloadsOfThisExam DEF Receive
  <2>2. RowsOK'
    BY <1>9 DEF Receive, RowsOK
  <2> QED BY <1>9, <2>1, <2>2 DEF Receive, history, CallsOK
<1>10. ASSUME NEW c \in Centres, Close(c) PROVE ShapeInv'
  <2>1. LogOK' /\ faults' \in 0..MaxFaults
    BY <1>b, <1>c, <1>10, RecordShape, PayloadsOfThisExam DEF Close
  <2>2. closes' \in [Centres -> 0..MaxCloses]
    BY <1>10, ExamAssumption DEF Close
  <2> QED BY <1>10, <2>1, <2>2 DEF Close, rows, CallsOK, RowsOK
<1>11. ASSUME NEW card \in Cards, CheckInCandidate(card) PROVE ShapeInv'
  <2>1. CentreOf[card] \in Logs
    BY <1>b, ExamAssumption
  <2>2. LogOK' /\ faults' \in 0..MaxFaults
    BY <1>c, <1>11, <2>1, RecordShape, PayloadsOfThisExam DEF CheckInCandidate
  <2>3. RowsOK'
    BY <1>11 DEF CheckInCandidate, RowsOK
  <2> QED BY <1>11, <2>2, <2>3 DEF CheckInCandidate, history, CallsOK
<1>12. ASSUME NEW card \in Cards, Generate(card) PROVE ShapeInv'
  <2>1. CentreOf[card] \in Logs
    BY <1>b, ExamAssumption
  <2>2. LogOK' /\ faults' \in 0..MaxFaults
    BY <1>c, <1>12, <2>1, RecordShape, PayloadsOfThisExam DEF Generate
  <2>3. RowsOK'
    BY <1>12 DEF Generate, RowsOK
  <2> QED BY <1>12, <2>2, <2>3 DEF Generate, history, CallsOK
<1> QED BY <1>1, <1>2, <1>3, <1>4, <1>5, <1>6, <1>7, <1>8, <1>9, <1>10, <1>11, <1>12 DEF Next

LEMMA ShapeNext == ShapeInv /\ [Next]_vars => ShapeInv'
<1>1. ASSUME ShapeInv, UNCHANGED vars PROVE ShapeInv'
  BY <1>1 DEF vars, rows, history, ShapeInv, RowsOK, CallsOK, LogOK
<1> QED BY <1>1, ShapeStep

LEMMA ShapeInvariant == Spec => []ShapeInv
  BY ShapeInit, ShapeNext, PTL DEF Spec

LEMMA InvTypeOK == ShapeInv => TypeOK
<1> SUFFICES ASSUME ShapeInv PROVE TypeOK
  OBVIOUS
<1> USE DEF ShapeInv
<1>1. schedule \in 0..MaxTime /\ \A i \in DOMAIN announced : announced[i] \in 1..MaxTime
  <2>1. \A i \in DOMAIN announced : announced[i] \in 1..MaxTime
    BY ElementOfSeq, LenProperties DEF CallsOK
  <2>2. announced # <<>> => Len(announced) \in DOMAIN announced
    BY LenProperties, EmptySeq DEF CallsOK
  <2> QED BY <2>1, <2>2, ExamAssumption DEF CallsOK
<1>2. DOMAIN log = Logs /\ \A a \in Logs : DOMAIN log[a] = Types
  BY DEF LogOK
<1>3. \A e \in delayed : e.log \in Logs /\ e.type \in Types
  BY DEF LogOK, EntrySet
<1>4. \A r \in releases : r.at \in 0..MaxTime /\ r.tzero \in 1..MaxTime
  BY DEF CallsOK
<1> QED BY <1>1, <1>2, <1>3, <1>4 DEF TypeOK, RowsOK

(* The tables, the logs and the calls are what they are declared to be; a  *)
(* centre receives only what was distributed to it, and a key is released  *)
(* only to centres on the distribution list (release.ts, provision.ts).    *)
THEOREM RecordsAreTyped == Spec => []TypeOK
  BY ShapeInvariant, InvTypeOK, PTL

-----------------------------------------------------------------------------
(* What an entry is evidence of.                                           *)

OfProvisioning == {"BUNDLE_CREATED", "SHARES_ISSUED"}

\* The row or the call behind an entry of the log of a.
Ground(a, t, p) ==
  /\ t \notin OfProvisioning
  /\ t = "BUNDLE_DISTRIBUTED" =>
       a = "authority" /\ \E c \in distributed : p = Distribution(c)
  /\ t = "RELEASE_SCHEDULED" =>
       a = "authority" /\ \E at \in 1..MaxTime : p = Schedule(at)
  /\ t = "EARLY_RELEASE_ATTEMPT" =>
       a = "authority" /\ \E r \in releases : r.at < r.tzero /\ p = Attempt(r.by)
  /\ t = "KEK_RELEASED" =>
       a = "authority" /\ \E r \in releases : r.at >= r.tzero /\ p = Release(r.at, r.by)
  /\ t = "BUNDLE_RECEIVED" => a \in received /\ p = Distribution(a)
  /\ t = "CANDIDATE_CHECKED_IN" =>
       \E card \in checkedIn : CentreOf[card] = a /\ p = CheckIn(card)
  /\ t = "PAPER_GENERATED" =>
       \E card \in papers : CentreOf[card] = a /\ p = Generation(card)
  /\ t = "EXAM_CLOSED" => a \in Centres /\ p = Closing

IsEarlier(a, t, i) == a = "authority" /\ i \in DOMAIN Earlier[t]

EarlierStays ==
  \A t \in Types : \A i \in DOMAIN Earlier[t] :
    i \in DOMAIN log["authority"][t] /\ log["authority"][t][i] = Earlier[t][i]

EntriesGrounded ==
  \A a \in Logs, t \in Types \ OfProvisioning, p \in PayloadSet : \A i \in DOMAIN log[a][t] :
    log[a][t][i] = p => IsEarlier(a, t, i) \/ Ground(a, t, p)

DelayedGrounded == \A e \in delayed : Ground(e.log, e.type, e.payload)

\* The two entries of each kind that provisioning makes.
BundlesGrounded ==
  /\ \A i \in DOMAIN log["authority"]["BUNDLE_CREATED"] :
       \/ i \in DOMAIN Earlier["BUNDLE_CREATED"]
       \/ /\ provisioned
          /\ \/ log["authority"]["BUNDLE_CREATED"][i] = Created("thisExam", "paper", Content)
             \/ log["authority"]["BUNDLE_CREATED"][i] = Created("thisExam", "answers", "key")
  /\ \A i \in DOMAIN log["authority"]["SHARES_ISSUED"] :
       \/ i \in DOMAIN Earlier["SHARES_ISSUED"]
       \/ log["authority"]["SHARES_ISSUED"][i] = Issued("thisExam", "paper")
       \/ log["authority"]["SHARES_ISSUED"][i] = Issued("thisExam", "answers")

\* No bundle is created twice, and no paper generated twice.
CreatedOnce ==
  \A i, j \in DOMAIN log["authority"]["BUNDLE_CREATED"] :
    log["authority"]["BUNDLE_CREATED"][i].bundle = log["authority"]["BUNDLE_CREATED"][j].bundle
      => i = j

GeneratedOnce ==
  /\ \A c \in Centres : \A i, j \in DOMAIN log[c]["PAPER_GENERATED"] :
       log[c]["PAPER_GENERATED"][i] = log[c]["PAPER_GENERATED"][j] => i = j
  /\ \A e \in delayed : e.type = "PAPER_GENERATED" =>
       \A i \in DOMAIN log[e.log]["PAPER_GENERATED"] :
         log[e.log]["PAPER_GENERATED"][i] # e.payload

\* Each closing of a centre gives one entry at most.
Pending(c) == IF Entry(c, "EXAM_CLOSED", Closing) \in delayed THEN 1 ELSE 0

ClosingsCounted ==
  \A c \in Centres : Len(log[c]["EXAM_CLOSED"]) + Pending(c) <= closes[c]

LogInv ==
  /\ EarlierStays /\ EntriesGrounded /\ DelayedGrounded
  /\ BundlesGrounded /\ CreatedOnce /\ GeneratedOnce /\ ClosingsCounted

\* The calls of release that are past their checks, and the papers.
CallInv ==
  /\ \A r \in releasing : \E q \in releases : q.at = r.at /\ q.by = r.by /\ q.at >= q.tzero
  /\ \A card \in papers : CentreOf[card] \in received \intersect released

EvidenceInv == LogInv /\ CallInv

-----------------------------------------------------------------------------

LEMMA EvidenceInit == Init => EvidenceInv
<1> SUFFICES ASSUME Init PROVE EvidenceInv
  OBVIOUS
<1>1. /\ "authority" \in Logs /\ Centres \subseteq Logs /\ "authority" \notin Centres
      /\ OfProvisioning \subseteq Types
  BY ExamAssumption DEF Logs, Types, OfProvisioning
<1>2. log["authority"] = Earlier
  BY <1>1 DEF Init
<1>3. \A c \in Centres, t \in Types : log[c][t] = <<>>
  BY <1>1 DEF Init
<1>4. delayed = {} /\ closes = [c \in Centres |-> 0] /\ releasing = {} /\ papers = {}
  BY DEF Init
<1>5. EarlierStays
  BY <1>2 DEF EarlierStays
<1>6. EntriesGrounded
  <2> SUFFICES ASSUME NEW a \in Logs, NEW t \in Types \ OfProvisioning, NEW i \in DOMAIN log[a][t]
               PROVE  IsEarlier(a, t, i)
    BY Zenon DEF EntriesGrounded
  <2> QED BY <1>2, <1>3, EmptySeq DEF IsEarlier, Logs
<1>7. BundlesGrounded
  BY <1>2 DEF BundlesGrounded
<1>8. CreatedOnce
  BY <1>2, EarlierAssumption DEF CreatedOnce
<1>9. GeneratedOnce
  <2>1. \A c \in Centres : DOMAIN log[c]["PAPER_GENERATED"] = {}
    BY <1>3, EmptySeq DEF Types
  <2> QED BY <1>4, <2>1 DEF GeneratedOnce
<1>10. ClosingsCounted
  BY <1>3, <1>4, EmptySeq DEF ClosingsCounted, Pending, Types
<1> QED BY <1>4, <1>5, <1>6, <1>7, <1>8, <1>9, <1>10 DEF EvidenceInv, LogInv, CallInv, DelayedGrounded

\* The tables and the calls of release only grow.
Grow ==
  /\ distributed \subseteq distributed' /\ received \subseteq received'
  /\ released \subseteq released' /\ checkedIn \subseteq checkedIn'
  /\ papers \subseteq papers' /\ releases \subseteq releases'

LEMMA NextGrows == Next => Grow
<1> USE DEF Grow
<1> SUFFICES ASSUME Next PROVE Grow
  OBVIOUS
<1>1. CASE Tick
  BY <1>1 DEF Tick, rows, history
<1>2. CASE \E e \in delayed : AppendLate(e)
  BY <1>2 DEF AppendLate, rows, history
<1>3. CASE \E n \in 0..4 : Provision(n)
  BY <1>3 DEF Provision, history
<1>4. CASE \E at \in 1..MaxTime : ScheduleRelease(at)
  BY <1>4 DEF ScheduleRelease
<1>5. CASE \E by \in Approvals : ReleaseRefused(by) \/ StartRelease(by)
  BY <1>5 DEF ReleaseRefused, StartRelease, rows
<1>6. CASE \E r \in releasing : FinishRelease(r)
  BY <1>6 DEF FinishRelease, history
<1>7. CASE \E c \in Centres : Distribute(c) \/ Receive(c) \/ Close(c)
  BY <1>7 DEF Distribute, Receive, Close, rows, history
<1>8. CASE \E card \in Cards : CheckInCandidate(card) \/ Generate(card)
  BY <1>8 DEF CheckInCandidate, Generate, history
<1> QED BY <1>1, <1>2, <1>3, <1>4, <1>5, <1>6, <1>7, <1>8 DEF Next

\* Evidence stays evidence.
LEMMA GroundStays ==
  ASSUME Grow, NEW a, NEW t, NEW p, Ground(a, t, p)
  PROVE  Ground(a, t, p)'
  BY DEF Grow, Ground

\* A sequence is as it was, or, if told so, has one more entry at its end.
Extended(before, after, here, p) ==
  /\ \A i \in DOMAIN before : i \in DOMAIN after /\ after[i] = before[i]
  /\ \A i \in DOMAIN after : i \in DOMAIN before \/ (here /\ after[i] = p /\ i = Len(before) + 1)
  /\ here => Len(after) = Len(before) + 1
  /\ ~here => after = before

LEMMA RecordedPlaces ==
  ASSUME LogOK, NEW e \in EntrySet, NEW b \in Logs, NEW u \in Types
  PROVE  Extended(log[b][u], Recorded(e)[b][u], b = e.log /\ u = e.type, e.payload)
<1>1. PICK before : before = log[b][u]
  OBVIOUS
<1>2. PICK after : after = Recorded(e)[b][u]
  OBVIOUS
<1>3. before \in Seq(PayloadSet) /\ Len(before) \in Nat /\ DOMAIN before = 1..Len(before)
  BY <1>1, LenProperties DEF LogOK
<1>4. after = IF b = e.log /\ u = e.type THEN Append(before, e.payload) ELSE before
  BY <1>1, <1>2, RecordedFacts
<1>5. e.payload \in PayloadSet
  BY DEF EntrySet
<1>6. CASE b = e.log /\ u = e.type
  <2>1. after = Append(before, e.payload)
    BY <1>4, <1>6
  <2>2. /\ after \in Seq(PayloadSet) /\ Len(after) = Len(before) + 1
        /\ \A i \in 1..Len(before) : after[i] = before[i]
        /\ after[Len(before) + 1] = e.payload
    BY <1>3, <1>5, <2>1, AppendProperties
  <2>3. DOMAIN after = 1..(Len(before) + 1)
    BY <2>2, LenProperties
  <2>4. Extended(before, after, TRUE, e.payload)
    BY <1>3, <2>2, <2>3 DEF Extended
  <2> QED BY <1>1, <1>2, <1>6, <2>4
<1>7. CASE ~(b = e.log /\ u = e.type)
  <2>1. after = before
    BY <1>4, <1>7
  <2>2. Extended(before, after, FALSE, e.payload)
    BY <2>1 DEF Extended
  <2> QED BY <1>1, <1>2, <1>7, <2>2
<1> QED BY <1>6, <1>7

\* The parts of LogInv that one more entry leaves true if it is grounded.
LEMMA AppendGrounds ==
  ASSUME LogOK, EarlierStays, EntriesGrounded, BundlesGrounded, CreatedOnce, Grow,
         NEW e \in EntrySet, Ground(e.log, e.type, e.payload)', log' = Recorded(e),
         provisioned' = provisioned
  PROVE  EarlierStays' /\ EntriesGrounded' /\ BundlesGrounded' /\ CreatedOnce'
<1>1. "authority" \in Logs /\ OfProvisioning \subseteq Types
  BY DEF Logs, Types, OfProvisioning
<1>2. e.type \notin OfProvisioning
  BY DEF Ground
<1>3. EarlierStays'
  <2> SUFFICES ASSUME NEW t \in Types, NEW i \in DOMAIN Earlier[t]
               PROVE  i \in DOMAIN log'["authority"][t] /\ log'["authority"][t][i] = Earlier[t][i]
    BY DEF EarlierStays
  <2>1. i \in DOMAIN log["authority"][t] /\ log["authority"][t][i] = Earlier[t][i]
    BY DEF EarlierStays
  <2> QED BY <1>1, <2>1, RecordedPlaces DEF Extended
<1>4. EntriesGrounded'
  <2> SUFFICES ASSUME NEW a \in Logs, NEW t \in Types \ OfProvisioning, NEW p \in PayloadSet,
                      NEW i \in DOMAIN log'[a][t], log'[a][t][i] = p
               PROVE  IsEarlier(a, t, i) \/ Ground(a, t, p)'
    BY Zenon DEF EntriesGrounded, IsEarlier
  <2>1. \/ i \in DOMAIN log[a][t] /\ p = log[a][t][i]
        \/ a = e.log /\ t = e.type /\ p = e.payload
    BY RecordedPlaces DEF Extended
  <2>2. CASE i \in DOMAIN log[a][t] /\ p = log[a][t][i]
    <3>1. IsEarlier(a, t, i) \/ Ground(a, t, p)
      BY <2>2 DEF EntriesGrounded
    <3> QED BY <3>1, GroundStays
  <2>3. CASE a = e.log /\ t = e.type /\ p = e.payload
    BY <2>3
  <2> QED BY <2>1, <2>2, <2>3
<1>5. ASSUME NEW t \in OfProvisioning PROVE log'["authority"][t] = log["authority"][t]
  BY <1>1, <1>2, RecordedFacts
<1>6. /\ log'["authority"]["BUNDLE_CREATED"] = log["authority"]["BUNDLE_CREATED"]
      /\ log'["authority"]["SHARES_ISSUED"] = log["authority"]["SHARES_ISSUED"]
  BY <1>5 DEF OfProvisioning
<1>7. BundlesGrounded' /\ CreatedOnce'
  BY <1>6 DEF BundlesGrounded, CreatedOnce
<1> QED BY <1>3, <1>4, <1>7

\* No paper is entered twice if the one that is entered was not there.
LEMMA AppendOnce ==
  ASSUME LogOK, GeneratedOnce, NEW e \in EntrySet, log' = Recorded(e), delayed' \subseteq delayed,
         e.type = "PAPER_GENERATED" => \A i \in DOMAIN log[e.log]["PAPER_GENERATED"] :
                                         log[e.log]["PAPER_GENERATED"][i] # e.payload,
         e.type = "PAPER_GENERATED" => \A d \in delayed' :
           d.log = e.log /\ d.type = "PAPER_GENERATED" => d.payload # e.payload
  PROVE  GeneratedOnce'
<1>1. "PAPER_GENERATED" \in Types /\ Centres \subseteq Logs
  BY DEF Types, Logs
<1>2. ASSUME NEW c \in Centres, NEW i \in DOMAIN log'[c]["PAPER_GENERATED"],
             NEW j \in DOMAIN log'[c]["PAPER_GENERATED"],
             log'[c]["PAPER_GENERATED"][i] = log'[c]["PAPER_GENERATED"][j]
      PROVE  i = j
  <2>1. PICK before : before = log[c]["PAPER_GENERATED"]
    OBVIOUS
  <2>2. PICK after : after = log'[c]["PAPER_GENERATED"]
    OBVIOUS
  <2>3. Extended(before, after, c = e.log /\ "PAPER_GENERATED" = e.type, e.payload)
    BY <1>1, <2>1, <2>2, RecordedPlaces
  <2>4. \A k, l \in DOMAIN before : before[k] = before[l] => k = l
    BY <2>1 DEF GeneratedOnce
  <2>5. c = e.log /\ "PAPER_GENERATED" = e.type => \A k \in DOMAIN before : before[k] # e.payload
    BY <2>1
  <2> QED BY <1>2, <2>2, <2>3, <2>4, <2>5 DEF Extended
<1>3. ASSUME NEW d \in delayed', d.type = "PAPER_GENERATED", d.log \in Logs,
             NEW i \in DOMAIN log'[d.log]["PAPER_GENERATED"]
      PROVE  log'[d.log]["PAPER_GENERATED"][i] # d.payload
  <2>1. PICK before : before = log[d.log]["PAPER_GENERATED"]
    OBVIOUS
  <2>2. PICK after : after = log'[d.log]["PAPER_GENERATED"]
    OBVIOUS
  <2>3. Extended(before, after, d.log = e.log /\ "PAPER_GENERATED" = e.type, e.payload)
    BY <1>1, <1>3, <2>1, <2>2, RecordedPlaces
  <2>4. \A k \in DOMAIN before : before[k] # d.payload
    BY <1>3, <2>1 DEF GeneratedOnce
  <2> QED BY <1>3, <2>2, <2>3, <2>4 DEF Extended
<1>4. \A d \in delayed' : d.log \in Logs
  BY DEF LogOK, EntrySet
<1> QED BY <1>2, <1>3, <1>4 DEF GeneratedOnce

\* What the log of a centre says of its closings after one more entry.
LEMMA ClosingsAfter ==
  ASSUME LogOK, NEW e \in EntrySet, NEW c \in Centres
  PROVE  /\ Len(log[c]["EXAM_CLOSED"]) \in Nat
         /\ c = e.log /\ "EXAM_CLOSED" = e.type =>
              Len(Recorded(e)[c]["EXAM_CLOSED"]) = Len(log[c]["EXAM_CLOSED"]) + 1
         /\ ~(c = e.log /\ "EXAM_CLOSED" = e.type) =>
              Len(Recorded(e)[c]["EXAM_CLOSED"]) = Len(log[c]["EXAM_CLOSED"])
<1>1. c \in Logs /\ "EXAM_CLOSED" \in Types
  BY DEF Logs, Types
<1>2. Len(log[c]["EXAM_CLOSED"]) \in Nat
  BY <1>1, LenProperties DEF LogOK
<1>3. Extended(log[c]["EXAM_CLOSED"], Recorded(e)[c]["EXAM_CLOSED"],
               c = e.log /\ "EXAM_CLOSED" = e.type, e.payload)
  BY <1>1, RecordedPlaces
<1> QED BY <1>2, <1>3 DEF Extended

\* A command whose row is there records what it is evidence of.
LEMMA RecordGrounds ==
  ASSUME ShapeInv, LogInv, Grow, NEW a \in Logs, NEW t \in Types, NEW p \in PayloadSet,
         Record(Entry(a, t, p)), Ground(a, t, p)',
         t = "PAPER_GENERATED" => ~Ground(a, t, p) /\ a \in Centres,
         provisioned' = provisioned,
         closes' = IF t = "EXAM_CLOSED" THEN [closes EXCEPT ![a] = @ + 1] ELSE closes
  PROVE  LogInv'
<1>1. PICK e : e = Entry(a, t, p)
  OBVIOUS
<1>2. e \in EntrySet /\ e.log = a /\ e.type = t /\ e.payload = p
  BY <1>1, EntryParts
<1>3. LogOK /\ closes \in [Centres -> 0..MaxCloses] /\ MaxCloses \in Nat
  BY ExamAssumption DEF ShapeInv
<1>4. ClosingsCounted /\ EarlierStays /\ EntriesGrounded /\ BundlesGrounded /\ CreatedOnce
      /\ GeneratedOnce /\ DelayedGrounded
  BY DEF LogInv
<1>5. t = "EXAM_CLOSED" => a \in Centres /\ p = Closing
  BY DEF Ground
<1>6. CASE log' = Recorded(e) /\ UNCHANGED <<delayed, faults>>
  <2>1. EarlierStays' /\ EntriesGrounded' /\ BundlesGrounded' /\ CreatedOnce'
    BY <1>2, <1>3, <1>4, <1>6, AppendGrounds
  <2>2. DelayedGrounded'
    BY <1>4, <1>6, GroundStays DEF DelayedGrounded
  <2>3. GeneratedOnce'
    <3>1. ASSUME t = "PAPER_GENERATED", NEW i \in DOMAIN log[a]["PAPER_GENERATED"]
          PROVE  log[a]["PAPER_GENERATED"][i] # p
      <4>1. a # "authority" /\ "PAPER_GENERATED" \in Types \ OfProvisioning
        BY <3>1, ExamAssumption DEF OfProvisioning, Types
      <4> QED BY <1>4, <3>1, <4>1 DEF EntriesGrounded, IsEarlier
    <3>2. ASSUME t = "PAPER_GENERATED", NEW d \in delayed, d.log = a, d.type = t
          PROVE  d.payload # p
      BY <1>4, <3>2 DEF DelayedGrounded
    <3> QED BY <1>2, <1>3, <1>4, <1>6, <3>1, <3>2, AppendOnce
  <2>4. ClosingsCounted'
    <3> SUFFICES ASSUME NEW c \in Centres
                 PROVE  Len(log'[c]["EXAM_CLOSED"]) + Pending(c)' <= closes'[c]
      BY DEF ClosingsCounted
    <3>1. Pending(c)' = Pending(c) /\ Pending(c) \in 0..1
      BY <1>6 DEF Pending
    <3>2. Len(log[c]["EXAM_CLOSED"]) + Pending(c) <= closes[c] /\ closes[c] \in 0..MaxCloses
      BY <1>3, <1>4 DEF ClosingsCounted
    <3>3. Len(log[c]["EXAM_CLOSED"]) \in Nat
      BY <1>2, <1>3, ClosingsAfter
    <3>4. CASE c = a /\ "EXAM_CLOSED" = t
      <4>1. Len(log'[c]["EXAM_CLOSED"]) = Len(log[c]["EXAM_CLOSED"]) + 1
        BY <1>2, <1>3, <1>6, <3>4, ClosingsAfter
      <4>2. closes'[c] = closes[c] + 1
        BY <1>3, <3>4
      <4> QED BY <3>1, <3>2, <3>3, <4>1, <4>2
    <3>5. CASE ~(c = a /\ "EXAM_CLOSED" = t)
      <4>1. Len(log'[c]["EXAM_CLOSED"]) = Len(log[c]["EXAM_CLOSED"])
        BY <1>2, <1>3, <1>6, <3>5, ClosingsAfter
      <4>2. closes'[c] = closes[c]
        BY <1>3, <3>5
      <4> QED BY <3>1, <3>2, <4>1, <4>2
    <3> QED BY <3>4, <3>5
  <2> QED BY <2>1, <2>2, <2>3, <2>4 DEF LogInv
<1>7. CASE /\ e \notin delayed
           /\ delayed' = delayed \union {e}
           /\ UNCHANGED log
  <2>1. EarlierStays' /\ BundlesGrounded' /\ CreatedOnce'
    BY <1>4, <1>7 DEF EarlierStays, BundlesGrounded, CreatedOnce
  <2>2. EntriesGrounded'
    <3> SUFFICES ASSUME NEW b \in Logs, NEW u \in Types \ OfProvisioning, NEW q \in PayloadSet,
                        NEW i \in DOMAIN log[b][u], log[b][u][i] = q
                 PROVE  IsEarlier(b, u, i) \/ Ground(b, u, q)'
      BY <1>7, Zenon DEF EntriesGrounded, IsEarlier
    <3>1. IsEarlier(b, u, i) \/ Ground(b, u, q)
      BY <1>4 DEF EntriesGrounded
    <3> QED BY <3>1, GroundStays
  <2>3. DelayedGrounded'
    <3> SUFFICES ASSUME NEW d \in delayed \union {e} PROVE Ground(d.log, d.type, d.payload)'
      BY <1>7 DEF DelayedGrounded
    <3>1. CASE d \in delayed
      BY <1>4, <3>1, GroundStays DEF DelayedGrounded
    <3> QED BY <1>2, <3>1
  <2>4. GeneratedOnce'
    <3>1. ASSUME t = "PAPER_GENERATED", NEW i \in DOMAIN log[a]["PAPER_GENERATED"]
          PROVE  log[a]["PAPER_GENERATED"][i] # p
      <4>1. a # "authority" /\ "PAPER_GENERATED" \in Types \ OfProvisioning
        BY <3>1, ExamAssumption DEF OfProvisioning, Types
      <4> QED BY <1>4, <3>1, <4>1 DEF EntriesGrounded, IsEarlier
    <3> QED BY <1>2, <1>4, <1>7, <3>1 DEF GeneratedOnce
  <2>5. ClosingsCounted'
    <3> SUFFICES ASSUME NEW c \in Centres
                 PROVE  Len(log[c]["EXAM_CLOSED"]) + Pending(c)' <= closes'[c]
      BY <1>7 DEF ClosingsCounted
    <3>1. Len(log[c]["EXAM_CLOSED"]) + Pending(c) <= closes[c] /\ closes[c] \in 0..MaxCloses
      BY <1>3, <1>4 DEF ClosingsCounted
    <3>2. Len(log[c]["EXAM_CLOSED"]) \in Nat
      BY <1>2, <1>3, ClosingsAfter
    <3>3. closes'[c] = closes[c] + (IF c = a /\ "EXAM_CLOSED" = t THEN 1 ELSE 0)
      BY <1>3, <3>1
    <3>4. CASE Entry(c, "EXAM_CLOSED", Closing) = e
      <4>1. c = a /\ t = "EXAM_CLOSED"
        BY <1>2, <3>4, EntryParts
      <4>2. Pending(c) = 0 /\ Pending(c)' = 1
        BY <1>7, <3>4 DEF Pending
      <4> QED BY <3>1, <3>2, <3>3, <4>1, <4>2
    <3>5. CASE Entry(c, "EXAM_CLOSED", Closing) # e
      <4>1. Pending(c)' = Pending(c) /\ Pending(c) \in 0..1
        BY <1>7, <3>5 DEF Pending
      <4> QED BY <1>3, <3>1, <3>2, <3>3, <4>1
    <3> QED BY <3>4, <3>5
  <2> QED BY <2>1, <2>2, <2>3, <2>4, <2>5 DEF LogInv
<1> QED BY <1>1, <1>6, <1>7 DEF Record

\* A late entry is as well grounded as one that was in time.
LEMMA LateGrounds ==
  ASSUME ShapeInv, LogInv, Grow, NEW e \in delayed, AppendLate(e)
  PROVE  LogInv'
<1>1. LogOK /\ e \in EntrySet
  BY DEF ShapeInv, LogOK
<1>2. /\ log' = Recorded(e) /\ delayed' = delayed \ {e}
      /\ provisioned' = provisioned /\ closes' = closes
  BY DEF AppendLate, rows, history
<1>3. ClosingsCounted /\ EarlierStays /\ EntriesGrounded /\ BundlesGrounded /\ CreatedOnce
      /\ GeneratedOnce /\ DelayedGrounded
  BY DEF LogInv
<1>4. Ground(e.log, e.type, e.payload)
  BY <1>3 DEF DelayedGrounded
<1>5. EarlierStays' /\ EntriesGrounded' /\ BundlesGrounded' /\ CreatedOnce'
  BY <1>1, <1>2, <1>3, <1>4, AppendGrounds, GroundStays
<1>6. DelayedGrounded'
  BY <1>2, <1>3, GroundStays DEF DelayedGrounded
<1>7. GeneratedOnce'
  <2>1. ASSUME e.type = "PAPER_GENERATED", NEW i \in DOMAIN log[e.log]["PAPER_GENERATED"]
        PROVE  log[e.log]["PAPER_GENERATED"][i] # e.payload
    BY <1>3, <2>1 DEF GeneratedOnce
  <2>2. ASSUME NEW d \in delayed', d.log = e.log, d.type = e.type PROVE d.payload # e.payload
    <3>1. d \in EntrySet /\ d # e
      BY <1>1, <1>2 DEF LogOK
    <3>2. /\ d = [log |-> d.log, type |-> d.type, payload |-> d.payload]
          /\ e = [log |-> e.log, type |-> e.type, payload |-> e.payload]
      BY <1>1, <3>1 DEF EntrySet
    <3> QED BY <2>2, <3>1, <3>2, Zenon
  <2> QED BY <1>1, <1>2, <1>3, <2>1, <2>2, AppendOnce
<1>8. ClosingsCounted'
  <2> SUFFICES ASSUME NEW c \in Centres
               PROVE  Len(Recorded(e)[c]["EXAM_CLOSED"]) + Pending(c)' <= closes[c]
    BY <1>2 DEF ClosingsCounted
  <2>1. Len(log[c]["EXAM_CLOSED"]) + Pending(c) <= closes[c] /\ closes[c] \in 0..MaxCloses
    BY <1>3 DEF ClosingsCounted, ShapeInv
  <2>2. Len(log[c]["EXAM_CLOSED"]) \in Nat
    BY <1>1, ClosingsAfter
  <2>3. CASE c = e.log /\ "EXAM_CLOSED" = e.type
    <3>1. e.payload = Closing
      BY <1>4, <2>3 DEF Ground
    <3>2. e = Entry(c, "EXAM_CLOSED", Closing)
      BY <1>1, <2>3, <3>1 DEF EntrySet, Entry
    <3>3. Pending(c) = 1 /\ Pending(c)' = 0
      BY <1>2, <3>2 DEF Pending
    <3>4. Len(Recorded(e)[c]["EXAM_CLOSED"]) = Len(log[c]["EXAM_CLOSED"]) + 1
      BY <1>1, <2>3, ClosingsAfter
    <3> QED BY <2>1, <2>2, <3>3, <3>4, ExamAssumption
  <2>4. CASE ~(c = e.log /\ "EXAM_CLOSED" = e.type)
    <3>1. e # Entry(c, "EXAM_CLOSED", Closing)
      BY <2>4, EntryParts
    <3>2. Pending(c)' = Pending(c) /\ Pending(c) \in 0..1
      BY <1>2, <3>1 DEF Pending
    <3>3. Len(Recorded(e)[c]["EXAM_CLOSED"]) = Len(log[c]["EXAM_CLOSED"])
      BY <1>1, <2>4, ClosingsAfter
    <3> QED BY <2>1, <2>2, <3>2, <3>3, ExamAssumption
  <2> QED BY <2>3, <2>4
<1> QED BY <1>5, <1>6, <1>7, <1>8 DEF LogInv

\* Steps that log nothing.
LEMMA QuietGrounds ==
  ASSUME LogInv, Grow, UNCHANGED <<log, delayed, closes, provisioned>>
  PROVE  LogInv'
<1>1. ClosingsCounted /\ EarlierStays /\ EntriesGrounded /\ BundlesGrounded /\ CreatedOnce
      /\ GeneratedOnce /\ DelayedGrounded
  BY DEF LogInv
<1>2. EarlierStays' /\ BundlesGrounded' /\ CreatedOnce' /\ GeneratedOnce'
  BY <1>1 DEF EarlierStays, BundlesGrounded, CreatedOnce, GeneratedOnce
<1>3. EntriesGrounded'
  <2> SUFFICES ASSUME NEW b \in Logs, NEW u \in Types \ OfProvisioning, NEW q \in PayloadSet,
                      NEW i \in DOMAIN log[b][u], log[b][u][i] = q
               PROVE  IsEarlier(b, u, i) \/ Ground(b, u, q)'
    BY Zenon DEF EntriesGrounded, IsEarlier
  <2>1. IsEarlier(b, u, i) \/ Ground(b, u, q)
    BY <1>1 DEF EntriesGrounded
  <2> QED BY <2>1, GroundStays
<1>4. DelayedGrounded'
  BY <1>1, GroundStays DEF DelayedGrounded
<1>5. ClosingsCounted'
  BY <1>1 DEF ClosingsCounted, Pending
<1> QED BY <1>2, <1>3, <1>4, <1>5 DEF LogInv

\* What a log has after up to two more entries.
UpTo(x, y, k) == SubSeq(<<x, y>>, 1, k)

Longer(before, after, x, y) ==
  /\ \A i \in DOMAIN before : i \in DOMAIN after /\ after[i] = before[i]
  /\ \A i \in DOMAIN after :
       \/ i \in DOMAIN before
       \/ i = Len(before) + 1 /\ after[i] = x
       \/ i = Len(before) + 2 /\ after[i] = y

LEMMA TwoMore ==
  ASSUME NEW S, NEW before \in Seq(S), NEW x \in S, NEW y \in S, NEW k \in 0..2
  PROVE  Longer(before, before \o UpTo(x, y, k), x, y)
<1>0. PICK after : after = before \o UpTo(x, y, k)
  OBVIOUS
<1>1. PICK more : more = UpTo(x, y, k)
  OBVIOUS
<1>2. /\ more \in Seq(S) /\ Len(more) = k
      /\ k >= 1 => more[1] = x
      /\ k = 2 => more[2] = y
  BY <1>1, SomeOfTwo DEF UpTo
<1>3. /\ after \in Seq(S) /\ Len(after) = Len(before) + k
      /\ \A i \in 1..(Len(before) + k) :
           after[i] = IF i <= Len(before) THEN before[i] ELSE more[i - Len(before)]
  <2>1. more \in Seq(S) /\ after = before \o more
    BY <1>0, <1>1, <1>2
  <2>2. /\ after \in Seq(S) /\ Len(after) = Len(before) + Len(more)
        /\ \A i \in 1..(Len(before) + Len(more)) :
             after[i] = IF i <= Len(before) THEN before[i] ELSE more[i - Len(before)]
    BY <2>1, ConcatProperties
  <2> QED BY <1>2, <2>2
<1>4. DOMAIN before = 1..Len(before) /\ Len(before) \in Nat /\ DOMAIN after = 1..(Len(before) + k)
  BY <1>3, LenProperties
<1>5. ASSUME NEW i \in DOMAIN before PROVE i \in DOMAIN after /\ after[i] = before[i]
  BY <1>3, <1>4
<1>6. ASSUME NEW i \in DOMAIN after, i \notin DOMAIN before
      PROVE  \/ i = Len(before) + 1 /\ after[i] = x
             \/ i = Len(before) + 2 /\ after[i] = y
  <2>1. PICK j \in 1..k : i = Len(before) + j
    <3>1. i - Len(before) \in 1..k /\ i = Len(before) + (i - Len(before))
      BY <1>4, <1>6
    <3> QED BY <3>1
  <2>2. after[i] = more[j]
    BY <1>3, <1>4, <2>1
  <2>3. j = 1 \/ (j = 2 /\ k = 2)
    OBVIOUS
  <2> QED BY <1>2, <2>1, <2>2, <2>3
<1>7. Longer(before, after, x, y)
  BY <1>5, <1>6 DEF Longer
<1> QED BY <1>0, <1>7

LEMMA ProvisionGrounds ==
  ASSUME ShapeInv, LogInv, Grow, NEW n \in 0..4, Provision(n)
  PROVE  LogInv'
<1>1. LogOK /\ "authority" \in Logs /\ Centres \subseteq Logs /\ "authority" \notin Centres
      /\ {"BUNDLE_CREATED", "SHARES_ISSUED", "PAPER_GENERATED", "EXAM_CLOSED"} \subseteq Types
  BY ExamAssumption DEF ShapeInv, Logs, Types
<1>2. ClosingsCounted /\ EarlierStays /\ EntriesGrounded /\ BundlesGrounded /\ CreatedOnce
      /\ GeneratedOnce /\ DelayedGrounded
  BY DEF LogInv
<1>3. ~provisioned /\ provisioned' = TRUE /\ delayed' = delayed /\ closes' = closes
  BY DEF Provision, history
<1>4. PICK created : created = log["authority"]["BUNDLE_CREATED"]
  OBVIOUS
<1>5. PICK created2 : created2 = log'["authority"]["BUNDLE_CREATED"]
  OBVIOUS
<1>6. PICK issued : issued = log["authority"]["SHARES_ISSUED"]
  OBVIOUS
<1>7. PICK issued2 : issued2 = log'["authority"]["SHARES_ISSUED"]
  OBVIOUS
<1>8. created \in Seq(PayloadSet) /\ issued \in Seq(PayloadSet)
  BY <1>1, <1>4, <1>6 DEF LogOK
<1>9. /\ created2 = created \o SubSeq(PaperAndAnswers, 1, (n + 1) \div 2)
      /\ issued2 = issued \o SubSeq(TheirShares, 1, n \div 2)
      /\ (n + 1) \div 2 \in 0..2 /\ n \div 2 \in 0..2
  BY <1>1, <1>4, <1>5, <1>6, <1>7, ProvisionFacts
<1>10. /\ \A i \in DOMAIN created : i \in DOMAIN created2 /\ created2[i] = created[i]
       /\ \A i \in DOMAIN created2 :
            \/ i \in DOMAIN created
            \/ i = Len(created) + 1 /\ created2[i] = Created("thisExam", "paper", Content)
            \/ i = Len(created) + 2 /\ created2[i] = Created("thisExam", "answers", "key")
  <2>1. PICK k \in 0..2 : k = (n + 1) \div 2
    BY <1>9
  <2>2. created2 = created \o UpTo(Created("thisExam", "paper", Content),
                                  Created("thisExam", "answers", "key"), k)
    BY <1>9, <2>1 DEF PaperAndAnswers, UpTo
  <2>3. /\ Created("thisExam", "paper", Content) \in PayloadSet
        /\ Created("thisExam", "answers", "key") \in PayloadSet
        /\ created \in Seq(PayloadSet)
    BY <1>8, PayloadsOfThisExam
  <2>4. Longer(created, created \o UpTo(Created("thisExam", "paper", Content),
                                       Created("thisExam", "answers", "key"), k),
               Created("thisExam", "paper", Content), Created("thisExam", "answers", "key"))
    BY <2>3, TwoMore
  <2> QED BY <2>2, <2>4 DEF Longer
<1>11. /\ \A i \in DOMAIN issued : i \in DOMAIN issued2 /\ issued2[i] = issued[i]
       /\ \A i \in DOMAIN issued2 :
            \/ i \in DOMAIN issued
            \/ issued2[i] = Issued("thisExam", "paper")
            \/ issued2[i] = Issued("thisExam", "answers")
  <2>1. PICK k \in 0..2 : k = n \div 2
    BY <1>9
  <2>2. issued2 = issued \o UpTo(Issued("thisExam", "paper"), Issued("thisExam", "answers"), k)
    BY <1>9, <2>1 DEF TheirShares, UpTo
  <2>3. /\ Issued("thisExam", "paper") \in PayloadSet
        /\ Issued("thisExam", "answers") \in PayloadSet
        /\ issued \in Seq(PayloadSet)
    BY <1>8, PayloadsOfThisExam
  <2>4. Longer(issued, issued \o UpTo(Issued("thisExam", "paper"),
                                     Issued("thisExam", "answers"), k),
               Issued("thisExam", "paper"), Issued("thisExam", "answers"))
    BY <2>3, TwoMore
  <2> QED BY <2>2, <2>4 DEF Longer
<1>12. ASSUME NEW b \in Logs, NEW u \in Types, b # "authority" \/ u \notin OfProvisioning
       PROVE  log'[b][u] = log[b][u]
  BY <1>1, <1>12, ProvisionFacts DEF OfProvisioning
<1>13. EarlierStays'
  <2> SUFFICES ASSUME NEW t \in Types, NEW i \in DOMAIN Earlier[t]
               PROVE  i \in DOMAIN log'["authority"][t] /\ log'["authority"][t][i] = Earlier[t][i]
    BY DEF EarlierStays
  <2>1. i \in DOMAIN log["authority"][t] /\ log["authority"][t][i] = Earlier[t][i]
    BY <1>2 DEF EarlierStays
  <2>2. CASE t = "BUNDLE_CREATED"
    BY <1>4, <1>5, <1>10, <2>1, <2>2
  <2>3. CASE t = "SHARES_ISSUED"
    BY <1>6, <1>7, <1>11, <2>1, <2>3
  <2>4. CASE t \notin OfProvisioning
    BY <1>1, <1>12, <2>1, <2>4
  <2> QED BY <2>2, <2>3, <2>4 DEF OfProvisioning
<1>14. EntriesGrounded'
  <2> SUFFICES ASSUME NEW b \in Logs, NEW u \in Types \ OfProvisioning, NEW q \in PayloadSet,
                      NEW i \in DOMAIN log'[b][u], log'[b][u][i] = q
               PROVE  IsEarlier(b, u, i) \/ Ground(b, u, q)'
    BY Zenon DEF EntriesGrounded, IsEarlier
  <2>1. log'[b][u] = log[b][u]
    BY <1>12
  <2>2. IsEarlier(b, u, i) \/ Ground(b, u, q)
    BY <1>2, <2>1 DEF EntriesGrounded
  <2> QED BY <2>2, GroundStays
<1>15. \A i \in DOMAIN created : i \in DOMAIN Earlier["BUNDLE_CREATED"]
                                 /\ created[i].bundle \notin {PaperBundle, AnswerBundle}
  <2> SUFFICES ASSUME NEW i \in DOMAIN created
               PROVE  /\ i \in DOMAIN Earlier["BUNDLE_CREATED"]
                      /\ created[i].bundle \notin {PaperBundle, AnswerBundle}
    OBVIOUS
  <2>1. i \in DOMAIN Earlier["BUNDLE_CREATED"]
    BY <1>2, <1>3, <1>4 DEF BundlesGrounded
  <2>2. created[i] = Earlier["BUNDLE_CREATED"][i]
    BY <1>1, <1>2, <1>4, <2>1 DEF EarlierStays
  <2>3. Earlier["BUNDLE_CREATED"][i] \in Range(Earlier["BUNDLE_CREATED"])
    BY <2>1 DEF Range
  <2> QED BY <2>1, <2>2, <2>3, EarlierAssumption DEF OfBundles
<1>16. BundlesGrounded'
  <2>1. ASSUME NEW i \in DOMAIN created2
        PROVE  \/ i \in DOMAIN Earlier["BUNDLE_CREATED"]
               \/ created2[i] = Created("thisExam", "paper", Content)
               \/ created2[i] = Created("thisExam", "answers", "key")
    BY <1>10, <1>15
  <2>2. ASSUME NEW i \in DOMAIN issued2
        PROVE  \/ i \in DOMAIN Earlier["SHARES_ISSUED"]
               \/ issued2[i] = Issued("thisExam", "paper")
               \/ issued2[i] = Issued("thisExam", "answers")
    BY <1>2, <1>6, <1>11 DEF BundlesGrounded
  <2> QED BY <1>3, <1>5, <1>7, <2>1, <2>2 DEF BundlesGrounded
<1>17. CreatedOnce'
  <2>1. ASSUME NEW i \in DOMAIN created, NEW j \in DOMAIN created, created[i].bundle = created[j].bundle
        PROVE  i = j
    BY <1>2, <1>4, <2>1 DEF CreatedOnce
  <2>2. /\ Created("thisExam", "paper", Content).bundle = PaperBundle
        /\ Created("thisExam", "answers", "key").bundle = AnswerBundle
        /\ PaperBundle # AnswerBundle
    BY DEF Created, PaperBundle, AnswerBundle, BundleId
  <2>3. ASSUME NEW i \in DOMAIN created2
        PROVE  \/ i \in DOMAIN created /\ created2[i] = created[i]
                  /\ created2[i].bundle \notin {PaperBundle, AnswerBundle}
               \/ i = Len(created) + 1 /\ created2[i].bundle = PaperBundle
               \/ i = Len(created) + 2 /\ created2[i].bundle = AnswerBundle
    BY <1>10, <1>15, <2>2
  <2>4. ASSUME NEW i \in DOMAIN created2, NEW j \in DOMAIN created2,
               created2[i].bundle = created2[j].bundle
        PROVE  i = j
    BY <2>1, <2>2, <2>3, <2>4
  <2> QED BY <1>5, <2>4 DEF CreatedOnce
<1>18. DelayedGrounded'
  BY <1>2, <1>3, GroundStays DEF DelayedGrounded
<1>19. \A c \in Centres : /\ log'[c]["PAPER_GENERATED"] = log[c]["PAPER_GENERATED"]
                          /\ log'[c]["EXAM_CLOSED"] = log[c]["EXAM_CLOSED"]
  BY <1>1, <1>12
<1>20. \A e \in delayed : e.log \in Logs
  BY <1>1 DEF LogOK, EntrySet
<1>21. \A b \in Logs : log'[b]["PAPER_GENERATED"] = log[b]["PAPER_GENERATED"]
  BY <1>1, <1>12 DEF OfProvisioning
<1>22. GeneratedOnce'
  BY <1>2, <1>3, <1>20, <1>21, <1>1 DEF GeneratedOnce
<1>23. ClosingsCounted'
  BY <1>2, <1>3, <1>19 DEF ClosingsCounted, Pending
<1> QED BY <1>13, <1>14, <1>16, <1>17, <1>18, <1>22, <1>23 DEF LogInv

\* The types that the commands record.
LEMMA TypesOfCommands ==
  /\ {"BUNDLE_DISTRIBUTED", "RELEASE_SCHEDULED", "EARLY_RELEASE_ATTEMPT", "KEK_RELEASED",
      "BUNDLE_RECEIVED", "CANDIDATE_CHECKED_IN", "PAPER_GENERATED", "EXAM_CLOSED"}
        \subseteq Types \ OfProvisioning
  /\ "authority" \in Logs /\ Centres \subseteq Logs /\ "authority" \notin Centres
  BY ExamAssumption DEF Types, OfProvisioning, Logs

LEMMA LogStep ==
  ASSUME ShapeInv, EvidenceInv, Next
  PROVE  LogInv'
<1>1. Grow /\ LogInv /\ CallInv
  BY NextGrows DEF EvidenceInv
<1>2. CASE Tick
  BY <1>1, <1>2, QuietGrounds DEF Tick, rows, history
<1>3. ASSUME NEW e \in delayed, AppendLate(e) PROVE LogInv'
  BY <1>1, <1>3, LateGrounds
<1>4. ASSUME NEW n \in 0..4, Provision(n) PROVE LogInv'
  BY <1>1, <1>4, ProvisionGrounds
<1>5. ASSUME NEW at \in 1..MaxTime, ScheduleRelease(at) PROVE LogInv'
  <2>1. Ground("authority", "RELEASE_SCHEDULED", Schedule(at))'
    BY TypesOfCommands DEF Ground
  <2>2. /\ Record(Entry("authority", "RELEASE_SCHEDULED", Schedule(at)))
        /\ UNCHANGED <<provisioned, closes>>
    BY <1>5 DEF ScheduleRelease
  <2> QED BY <1>1, <2>1, <2>2, RecordGrounds, TypesOfCommands, PayloadsOfThisExam
<1>6. ASSUME NEW by \in Approvals, ReleaseRefused(by) PROVE LogInv'
  <2>1. Ground("authority", "EARLY_RELEASE_ATTEMPT", Attempt(by))'
    <3>1. PICK r : r = [at |-> now, tzero |-> schedule, by |-> by]
      OBVIOUS
    <3>2. r \in releases' /\ r.at < r.tzero /\ r.by = by
      BY <1>6, <3>1 DEF ReleaseRefused
    <3> QED BY <3>2, TypesOfCommands DEF Ground
  <2>2. /\ Record(Entry("authority", "EARLY_RELEASE_ATTEMPT", Attempt(by)))
        /\ UNCHANGED <<provisioned, closes>>
    BY <1>6 DEF ReleaseRefused, rows
  <2> QED BY <1>1, <2>1, <2>2, RecordGrounds, TypesOfCommands, PayloadsOfThisExam
<1>7. ASSUME NEW by \in Approvals, StartRelease(by) PROVE LogInv'
  BY <1>1, <1>7, QuietGrounds DEF StartRelease, rows
<1>8. ASSUME NEW r \in releasing, FinishRelease(r) PROVE LogInv'
  <2>1. Ground("authority", "KEK_RELEASED", Release(r.at, r.by))'
    <3>1. PICK q \in releases : q.at = r.at /\ q.by = r.by /\ q.at >= q.tzero
      BY <1>1 DEF CallInv
    <3>2. releases' = releases
      BY <1>8 DEF FinishRelease, history
    <3> QED BY <3>1, <3>2, TypesOfCommands DEF Ground
  <2>2. /\ Record(Entry("authority", "KEK_RELEASED", Release(r.at, r.by)))
        /\ UNCHANGED <<provisioned, closes>>
    BY <1>8 DEF FinishRelease, history
  <2>3. r.at \in 0..MaxTime /\ r.by \in Approvals
    BY DEF ShapeInv, RowsOK
  <2> QED BY <1>1, <2>1, <2>2, <2>3, RecordGrounds, TypesOfCommands, PayloadsOfThisExam
<1>9. ASSUME NEW c \in Centres, Distribute(c) PROVE LogInv'
  <2>1. Ground("authority", "BUNDLE_DISTRIBUTED", Distribution(c))'
    BY <1>9, TypesOfCommands DEF Ground, Distribute
  <2>2. /\ Record(Entry("authority", "BUNDLE_DISTRIBUTED", Distribution(c)))
        /\ UNCHANGED <<provisioned, closes>>
    BY <1>9 DEF Distribute, history
  <2> QED BY <1>1, <2>1, <2>2, RecordGrounds, TypesOfCommands, PayloadsOfThisExam
<1>10. ASSUME NEW c \in Centres, Receive(c) PROVE LogInv'
  <2>1. Ground(c, "BUNDLE_RECEIVED", Distribution(c))'
    BY <1>10, TypesOfCommands DEF Ground, Receive
  <2>2. Record(Entry(c, "BUNDLE_RECEIVED", Distribution(c))) /\ UNCHANGED <<provisioned, closes>>
    BY <1>10 DEF Receive, history
  <2> QED BY <1>1, <2>1, <2>2, RecordGrounds, TypesOfCommands, PayloadsOfThisExam
<1>11. ASSUME NEW c \in Centres, Close(c) PROVE LogInv'
  <2>1. Ground(c, "EXAM_CLOSED", Closing)'
    BY TypesOfCommands DEF Ground
  <2>2. /\ Record(Entry(c, "EXAM_CLOSED", Closing)) /\ provisioned' = provisioned
        /\ closes' = [closes EXCEPT ![c] = @ + 1]
    BY <1>11 DEF Close, rows
  <2> QED BY <1>1, <2>1, <2>2, RecordGrounds, TypesOfCommands, PayloadsOfThisExam
<1>12. ASSUME NEW card \in Cards, CheckInCandidate(card) PROVE LogInv'
  <2>1. CentreOf[card] \in Centres
    BY ExamAssumption
  <2>2. Ground(CentreOf[card], "CANDIDATE_CHECKED_IN", CheckIn(card))'
    BY <1>12, TypesOfCommands DEF Ground, CheckInCandidate
  <2>3. /\ Record(Entry(CentreOf[card], "CANDIDATE_CHECKED_IN", CheckIn(card)))
        /\ UNCHANGED <<provisioned, closes>>
    BY <1>12 DEF CheckInCandidate, history
  <2> QED BY <1>1, <2>1, <2>2, <2>3, RecordGrounds, TypesOfCommands, PayloadsOfThisExam
<1>13. ASSUME NEW card \in Cards, Generate(card) PROVE LogInv'
  <2>1. CentreOf[card] \in Centres
    BY ExamAssumption
  <2>2. Ground(CentreOf[card], "PAPER_GENERATED", Generation(card))'
    BY <1>13, TypesOfCommands DEF Ground, Generate
  <2>3. ~Ground(CentreOf[card], "PAPER_GENERATED", Generation(card))
    <3>1. \A other : Generation(other).card = other
      BY DEF Generation
    <3>2. card \notin papers
      BY <1>13 DEF Generate
    <3> QED BY <3>1, <3>2 DEF Ground
  <2>4. /\ Record(Entry(CentreOf[card], "PAPER_GENERATED", Generation(card)))
        /\ UNCHANGED <<provisioned, closes>>
    BY <1>13 DEF Generate, history
  <2> QED BY <1>1, <2>1, <2>2, <2>3, <2>4, RecordGrounds, TypesOfCommands, PayloadsOfThisExam
<1> QED BY <1>2, <1>3, <1>4, <1>5, <1>6, <1>7, <1>8, <1>9, <1>10, <1>11, <1>12, <1>13 DEF Next

LEMMA CallStep ==
  ASSUME EvidenceInv, Next
  PROVE  CallInv'
<1>1. Grow /\ CallInv
  BY NextGrows DEF EvidenceInv
<1>2. ASSUME releasing' \subseteq releasing, papers' = papers PROVE CallInv'
  BY <1>1, <1>2 DEF CallInv, Grow
<1>3. CASE Tick
  BY <1>2, <1>3 DEF Tick, rows
<1>4. CASE \E e \in delayed : AppendLate(e)
  BY <1>2, <1>4 DEF AppendLate, rows
<1>5. CASE \E n \in 0..4 : Provision(n)
  BY <1>2, <1>5 DEF Provision
<1>6. CASE \E at \in 1..MaxTime : ScheduleRelease(at)
  BY <1>2, <1>6 DEF ScheduleRelease
<1>7. ASSUME NEW by \in Approvals, ReleaseRefused(by) PROVE CallInv'
  BY <1>2, <1>7 DEF ReleaseRefused, rows
<1>8. ASSUME NEW by \in Approvals, StartRelease(by) PROVE CallInv'
  <2>1. PICK q : q = [at |-> now, tzero |-> schedule, by |-> by]
    OBVIOUS
  <2>2. PICK r : r = [at |-> now, by |-> by, to |-> distributed]
    OBVIOUS
  <2>3. releasing' = releasing \union {r} /\ q \in releases' /\ papers' = papers /\ now >= schedule
    BY <1>8, <2>1, <2>2 DEF StartRelease, rows
  <2>4. q.at = r.at /\ q.by = r.by /\ q.at >= q.tzero
    BY <2>1, <2>2, <2>3
  <2> QED BY <1>1, <2>3, <2>4 DEF CallInv, Grow
<1>9. CASE \E r \in releasing : FinishRelease(r)
  BY <1>2, <1>9 DEF FinishRelease
<1>10. CASE \E c \in Centres : Distribute(c) \/ Receive(c) \/ Close(c)
  BY <1>2, <1>10 DEF Distribute, Receive, Close, rows
<1>11. CASE \E card \in Cards : CheckInCandidate(card)
  BY <1>2, <1>11 DEF CheckInCandidate
<1>12. ASSUME NEW card \in Cards, Generate(card) PROVE CallInv'
  BY <1>1, <1>12 DEF CallInv, Grow, Generate
<1> QED BY <1>3, <1>4, <1>5, <1>6, <1>7, <1>8, <1>9, <1>10, <1>11, <1>12 DEF Next

LEMMA EvidenceNext == ShapeInv /\ EvidenceInv /\ [Next]_vars => EvidenceInv'
<1>1. ASSUME ShapeInv, EvidenceInv, Next PROVE EvidenceInv'
  BY <1>1, LogStep, CallStep DEF EvidenceInv
<1>2. ASSUME EvidenceInv, UNCHANGED vars PROVE EvidenceInv'
  <2>1. Grow /\ UNCHANGED <<log, delayed, closes, provisioned, releasing, papers>>
    BY <1>2 DEF Grow, vars, rows, history
  <2>2. LogInv'
    BY <1>2, <2>1, QuietGrounds DEF EvidenceInv
  <2> QED BY <1>2, <2>1, <2>2 DEF EvidenceInv, CallInv, Grow
<1> QED BY <1>1, <1>2

\* Each entry of a log is evidence of what it says.
LEMMA EvidenceInvariant == Spec => []EvidenceInv
  BY EvidenceInit, EvidenceNext, ShapeInvariant, PTL DEF Spec

-----------------------------------------------------------------------------
(* The rows of the audit, each with its cause.                             *)

EvidenceOK == ShapeInv /\ EvidenceInv

LEMMA EvidenceParts ==
  ASSUME EvidenceOK
  PROVE  /\ RowsOK /\ CallsOK /\ LogOK /\ CallInv /\ ShapeInv
         /\ EarlierStays /\ EntriesGrounded /\ BundlesGrounded /\ CreatedOnce
         /\ GeneratedOnce /\ ClosingsCounted
  BY DEF EvidenceOK, ShapeInv, EvidenceInv, LogInv

\* An entry of a log is of an earlier exam, or evidence of a row or a call.
LEMMA EntryIsGrounded ==
  ASSUME EvidenceOK, NEW a \in Logs, NEW t \in Types \ OfProvisioning, NEW i \in DOMAIN log[a][t]
  PROVE  IsEarlier(a, t, i) \/ Ground(a, t, log[a][t][i])
<1>1. PICK s : s = log[a][t]
  OBVIOUS
<1>2. LogOK /\ EntriesGrounded
  BY EvidenceParts
<1>3. s \in Seq(PayloadSet)
  BY <1>1, <1>2 DEF LogOK
<1>4. s[i] \in PayloadSet
  BY <1>1, <1>3, LenProperties, ElementOfSeq
<1> QED BY <1>1, <1>2, <1>4 DEF EntriesGrounded

\* What a centre logs is of this exam.
LEMMA CentreEntryIsGrounded ==
  ASSUME EvidenceOK, NEW c \in Centres, NEW t \in Types \ OfProvisioning,
         NEW p \in Range(EntriesOf(log[c], t))
  PROVE  Ground(c, t, p)
<1>1. PICK i \in DOMAIN log[c][t] : log[c][t][i] = p
  BY DEF Range, EntriesOf
<1>2. c \in Logs /\ c # "authority"
  BY TypesOfCommands
<1> QED BY <1>1, <1>2, EntryIsGrounded DEF IsEarlier

\* The entries of earlier exams keep their places.
LEMMA EarlierPlaces ==
  ASSUME EvidenceOK, NEW t \in Types, NEW i \in DOMAIN Earlier[t]
  PROVE  /\ i \in DOMAIN Authority[t] /\ Authority[t][i] = Earlier[t][i]
         /\ Earlier[t][i] \in Range(Earlier[t])
         /\ t \in OfBundles => Authority[t][i].bundle \notin {PaperBundle, AnswerBundle}
<1>1. i \in DOMAIN Authority[t] /\ Authority[t][i] = Earlier[t][i]
  BY EvidenceParts DEF EarlierStays, Authority
<1>2. Earlier[t][i] \in Range(Earlier[t])
  BY DEF Range
<1> QED BY <1>1, <1>2, EarlierAssumption

\* What the authority's log has of a type is a sequence.
LEMMA AuthoritySeq ==
  ASSUME EvidenceOK, NEW t \in Types
  PROVE  Authority[t] \in Seq(PayloadSet) /\ DOMAIN Authority[t] = 1..Len(Authority[t])
<1>1. LogOK /\ "authority" \in Logs
  BY EvidenceParts, TypesOfCommands
<1>2. Authority[t] \in Seq(PayloadSet)
  BY <1>1 DEF LogOK, Authority
<1> QED BY <1>2, LenProperties

\* Entries of this exam are about its bundles, those of earlier exams are not.
LEMMA AuthorityEntry ==
  ASSUME EvidenceOK, NEW t \in Types \ OfProvisioning, NEW i \in DOMAIN Authority[t]
  PROVE  i \in DOMAIN Earlier[t] \/ Ground("authority", t, Authority[t][i])
  BY EntryIsGrounded, TypesOfCommands DEF Authority, IsEarlier

\* The bundles of this exam are told apart.
LEMMA BundlesOfThisExam ==
  /\ Created("thisExam", "paper", Content).bundle = PaperBundle
  /\ Created("thisExam", "answers", "key").bundle = AnswerBundle
  /\ Issued("thisExam", "paper").bundle = PaperBundle
  /\ Issued("thisExam", "answers").bundle = AnswerBundle
  /\ Issued("thisExam", "paper").custodians = Custodians
  /\ PaperBundle # AnswerBundle
  BY DEF Created, Issued, PaperBundle, AnswerBundle, BundleId

\* The schedules of an earlier exam's bundle are those of the earlier log.
LEMMA EarlierSchedules ==
  ASSUME EvidenceOK, NEW b, b # PaperBundle
  PROVE  /\ SchedulesOf(Authority, b) = SchedulesOf(Earlier, b)
         /\ \A i \in SchedulesOf(Earlier, b) :
              Authority["RELEASE_SCHEDULED"][i] = Earlier["RELEASE_SCHEDULED"][i]
<1>1. "RELEASE_SCHEDULED" \in Types \ OfProvisioning
  BY TypesOfCommands
<1>2. ASSUME NEW i \in DOMAIN Authority["RELEASE_SCHEDULED"],
             Authority["RELEASE_SCHEDULED"][i].bundle = b
      PROVE  i \in DOMAIN Earlier["RELEASE_SCHEDULED"]
  <2>1. ~Ground("authority", "RELEASE_SCHEDULED", Authority["RELEASE_SCHEDULED"][i])
    <3>1. \A at : Schedule(at).bundle = PaperBundle
      BY DEF Schedule
    <3>2. ~ \E at \in 1..MaxTime : Authority["RELEASE_SCHEDULED"][i] = Schedule(at)
      BY <1>2, <3>1
    <3> QED BY <3>2 DEF Ground
  <2> QED BY <1>1, <2>1, AuthorityEntry
<1>3. \A i \in DOMAIN Earlier["RELEASE_SCHEDULED"] :
        /\ i \in DOMAIN Authority["RELEASE_SCHEDULED"]
        /\ Authority["RELEASE_SCHEDULED"][i] = Earlier["RELEASE_SCHEDULED"][i]
  BY <1>1, EarlierPlaces
<1> QED BY <1>2, <1>3 DEF SchedulesOf, EntriesOf

LEMMA EarlierIssues ==
  ASSUME EvidenceOK, NEW b, b \notin {PaperBundle, AnswerBundle}
  PROVE  /\ IssuesOf(Authority, b) = IssuesOf(Earlier, b)
         /\ \A i \in IssuesOf(Earlier, b) :
              Authority["SHARES_ISSUED"][i] = Earlier["SHARES_ISSUED"][i]
<1>1. "SHARES_ISSUED" \in Types
  BY DEF Types
<1>2. ASSUME NEW i \in DOMAIN Authority["SHARES_ISSUED"],
             Authority["SHARES_ISSUED"][i].bundle = b
      PROVE  i \in DOMAIN Earlier["SHARES_ISSUED"]
  BY <1>2, EvidenceParts, BundlesOfThisExam DEF BundlesGrounded, Authority
<1>3. \A i \in DOMAIN Earlier["SHARES_ISSUED"] :
        /\ i \in DOMAIN Authority["SHARES_ISSUED"]
        /\ Authority["SHARES_ISSUED"][i] = Earlier["SHARES_ISSUED"][i]
  BY <1>1, EarlierPlaces
<1> QED BY <1>2, <1>3 DEF IssuesOf, EntriesOf

\* The places at which the audit looks are places of the log.
LEMMA PlacesOfLog ==
  ASSUME EvidenceOK, NEW t \in Types, NEW places, places \subseteq DOMAIN Authority[t], places # {}
  PROVE  Min(places) \in places /\ Max(places) \in places
  BY AuthoritySeq, EndsOfPlaces

\* A release of an earlier exam is judged as it was.
LEMMA EarlierOnTime ==
  ASSUME EvidenceOK, NEW r, r.bundle # PaperBundle, OnTime(Earlier, r)
  PROVE  OnTime(Authority, r)
<1>1. PICK places : places = SchedulesOf(Earlier, r.bundle)
  OBVIOUS
<1>2. places = SchedulesOf(Authority, r.bundle)
  BY <1>1, EarlierSchedules
<1>3. places # {} /\ r.at >= Earlier["RELEASE_SCHEDULED"][Max(places)].at
  BY <1>1 DEF OnTime, LastOf, EntriesOf
<1>4. places \subseteq DOMAIN Authority["RELEASE_SCHEDULED"] /\ "RELEASE_SCHEDULED" \in Types
  BY <1>2, TypesOfCommands DEF SchedulesOf, EntriesOf
<1>5. Max(places) \in places
  BY <1>3, <1>4, PlacesOfLog
<1>6. Authority["RELEASE_SCHEDULED"][Max(places)] = Earlier["RELEASE_SCHEDULED"][Max(places)]
  BY <1>1, <1>5, EarlierSchedules
<1> QED BY <1>2, <1>3, <1>6 DEF OnTime, LastOf, EntriesOf

LEMMA EarlierByQuorum ==
  ASSUME EvidenceOK, NEW r, r.bundle \notin {PaperBundle, AnswerBundle}, ByQuorum(Earlier, r)
  PROVE  ByQuorum(Authority, r)
<1>1. PICK places : places = IssuesOf(Earlier, r.bundle)
  OBVIOUS
<1>2. places = IssuesOf(Authority, r.bundle)
  BY <1>1, EarlierIssues
<1>3. places # {} /\ Cardinality(r.custodians) >= r.threshold
      /\ r.custodians \subseteq Earlier["SHARES_ISSUED"][Min(places)].custodians
  BY <1>1 DEF ByQuorum, FirstOf, EntriesOf
<1>4. places \subseteq DOMAIN Authority["SHARES_ISSUED"] /\ "SHARES_ISSUED" \in Types
  BY <1>2 DEF IssuesOf, EntriesOf, Types
<1>5. Min(places) \in places
  BY <1>3, <1>4, PlacesOfLog
<1>6. Authority["SHARES_ISSUED"][Min(places)] = Earlier["SHARES_ISSUED"][Min(places)]
  BY <1>1, <1>5, EarlierIssues
<1> QED BY <1>2, <1>3, <1>6 DEF ByQuorum, FirstOf, EntriesOf

LEMMA T1HasCause ==
  ASSUME EvidenceOK, Shows("authority", "BUNDLE_CREATED", Created("thisExam", "paper", Content))
  PROVE  T1(Authority)
<1>1. PICK created : created = Authority["BUNDLE_CREATED"]
  OBVIOUS
<1>2. created \in Seq(PayloadSet) /\ DOMAIN created = 1..Len(created) /\ Len(created) \in Nat
  BY <1>1, AuthoritySeq, LenProperties DEF Types
<1>3. created # <<>>
  <2>1. PICK i \in DOMAIN created : created[i] = Created("thisExam", "paper", Content)
    BY <1>1 DEF Shows, Range, EntriesOf, Authority
  <2>2. Len(created) # 0
    <3>1. i \in 1..Len(created)
      BY <1>2
    <3> QED BY <1>2, <3>1
  <2> QED BY <2>2, EmptySeq
<1>4. \A i \in DOMAIN created : created[i].kek = created[i].bundle
  <2> SUFFICES ASSUME NEW i \in DOMAIN created PROVE created[i].kek = created[i].bundle
    OBVIOUS
  <2>1. CASE i \in DOMAIN Earlier["BUNDLE_CREATED"]
    <3>1. created[i] \in Range(Earlier["BUNDLE_CREATED"])
      BY <1>1, <2>1, EarlierPlaces DEF Types
    <3> QED BY <3>1, EarlierAssumption
  <2>2. CASE i \notin DOMAIN Earlier["BUNDLE_CREATED"]
    <3>1. \/ created[i] = Created("thisExam", "paper", Content)
          \/ created[i] = Created("thisExam", "answers", "key")
      BY <1>1, <2>2, EvidenceParts DEF BundlesGrounded, Authority
    <3>2. \A kind, content : Created("thisExam", kind, content).kek
                               = Created("thisExam", kind, content).bundle
      BY DEF Created
    <3> QED BY <3>1, <3>2
  <2> QED BY <2>1, <2>2
<1>5. \A i, j \in DOMAIN created : created[i].kek = created[j].kek => i = j
  <2>1. \A i, j \in DOMAIN created : created[i].bundle = created[j].bundle => i = j
    BY <1>1, EvidenceParts DEF CreatedOnce, Authority
  <2> QED BY <1>4, <2>1
<1> DEFINE keks == {e.kek : e \in Range(created)}
           kek  == [i \in 1..Len(created) |-> created[i].kek]
<1>6. kek \in Bijection(1..Len(created), keks)
  <2>1. \A i \in 1..Len(created) : kek[i] \in keks
    BY <1>2 DEF Range
  <2>2. \A k \in keks : \E i \in 1..Len(created) : kek[i] = k
    BY <1>2 DEF Range
  <2>3. \A i, j \in 1..Len(created) : kek[i] = kek[j] => i = j
    BY <1>2, <1>5
  <2> HIDE DEF keks
  <2> QED BY <2>1, <2>2, <2>3 DEF Bijection, Injection, Surjection, IsInjective
<1>7. IsFiniteSet(1..Len(created)) /\ Cardinality(1..Len(created)) = Len(created)
  <2>1. PICK n \in Nat : n = Len(created)
    BY <1>2
  <2>2. IsFiniteSet(1..n) /\ Cardinality(1..n) = IF 1 > n THEN 0 ELSE n - 1 + 1
    BY FS_Interval
  <2>3. (IF 1 > n THEN 0 ELSE n - 1 + 1) = n
    OBVIOUS
  <2> QED BY <2>1, <2>2, <2>3
<1> HIDE DEF keks, kek
<1>8. Cardinality(keks) = Len(created)
  BY <1>6, <1>7, FS_Bijection DEF ExistsBijection
<1> QED BY <1>1, <1>3, <1>8 DEF T1, EntriesOf, keks

\* The complaint T2 of an authority whose earlier exams were in order.
LEMMA T2HasCause ==
  ASSUME EvidenceOK, T2(Earlier),
         \A r \in releases : r.at >= r.tzero /\ r.tzero = announced[Len(announced)],
         announced # <<>> => LastIsLogged
  PROVE  T2(Authority)
<1>1. {"KEK_RELEASED", "EARLY_RELEASE_ATTEMPT", "RELEASE_SCHEDULED"} \subseteq Types \ OfProvisioning
  BY TypesOfCommands
<1>2. ASSUME NEW p \in Range(Authority["KEK_RELEASED"]) PROVE OnTime(Authority, p)
  <2>1. PICK i \in DOMAIN Authority["KEK_RELEASED"] : Authority["KEK_RELEASED"][i] = p
    BY DEF Range
  <2>2. CASE i \in DOMAIN Earlier["KEK_RELEASED"]
    <3>1. p \in Range(Earlier["KEK_RELEASED"]) /\ p.bundle # PaperBundle
      BY <1>1, <2>1, <2>2, EarlierPlaces DEF OfBundles
    <3>2. OnTime(Earlier, p)
      BY <3>1 DEF T2, EntriesOf
    <3> QED BY <3>1, <3>2, EarlierOnTime
  <2>3. CASE Ground("authority", "KEK_RELEASED", p)
    <3>1. PICK r \in releases : r.at >= r.tzero /\ p = Release(r.at, r.by)
      BY <2>3 DEF Ground
    <3>2. announced # <<>> /\ r.tzero = announced[Len(announced)]
      BY EvidenceParts DEF CallsOK
    <3>3. p.bundle = PaperBundle /\ p.at = r.at
      BY <3>1 DEF Release
    <3>4. /\ SchedulesOf(Authority, PaperBundle) # {}
          /\ LastOf(Authority, "RELEASE_SCHEDULED", SchedulesOf(Authority, PaperBundle)).at = r.tzero
      BY <3>2 DEF LastIsLogged
    <3> QED BY <3>1, <3>3, <3>4 DEF OnTime
  <2> QED BY <1>1, <2>1, <2>2, <2>3, AuthorityEntry
<1>3. Authority["EARLY_RELEASE_ATTEMPT"] = <<>>
  <2>1. ASSUME NEW i \in DOMAIN Authority["EARLY_RELEASE_ATTEMPT"] PROVE FALSE
    <3>1. DOMAIN Earlier["EARLY_RELEASE_ATTEMPT"] = {}
      BY EmptySeq DEF T2, EntriesOf
    <3>2. PICK p : p = Authority["EARLY_RELEASE_ATTEMPT"][i]
      OBVIOUS
    <3>3. Ground("authority", "EARLY_RELEASE_ATTEMPT", p)
      BY <1>1, <3>1, <3>2, AuthorityEntry
    <3>4. PICK r \in releases : r.at < r.tzero
      BY <3>3 DEF Ground
    <3>5. r.at \in 0..MaxTime /\ r.tzero \in 1..MaxTime
      BY EvidenceParts DEF CallsOK
    <3> QED BY <3>4, <3>5
  <2>2. PICK s \in Seq(PayloadSet) : s = Authority["EARLY_RELEASE_ATTEMPT"]
    BY <1>1, AuthoritySeq
  <2>3. Len(s) \in Nat /\ DOMAIN s = 1..Len(s)
    BY LenProperties
  <2>4. DOMAIN s = {}
    BY <2>1, <2>2
  <2>5. Len(s) = 0
    BY <2>3, <2>4
  <2> QED BY <2>2, <2>5, EmptySeq
<1> QED BY <1>2, <1>3 DEF T2, EntriesOf

\* The complaint T9 of an authority whose earlier exams were in order.
LEMMA FirstIssueIsOurs ==
  ASSUME EvidenceOK, IssuesOf(Authority, PaperBundle) # {}
  PROVE  FirstOf(Authority, "SHARES_ISSUED", IssuesOf(Authority, PaperBundle)).custodians = Custodians
<1>1. PICK places : places = IssuesOf(Authority, PaperBundle)
  OBVIOUS
<1>2. places \subseteq DOMAIN Authority["SHARES_ISSUED"] /\ "SHARES_ISSUED" \in Types
  BY <1>1 DEF IssuesOf, EntriesOf, Types
<1>3. PICK i \in places : i = Min(places)
  BY <1>1, <1>2, PlacesOfLog
<1>4. i \in DOMAIN Authority["SHARES_ISSUED"] /\ Authority["SHARES_ISSUED"][i].bundle = PaperBundle
  BY <1>1 DEF IssuesOf, EntriesOf
<1>5. i \notin DOMAIN Earlier["SHARES_ISSUED"]
  BY <1>2, <1>4, EarlierPlaces DEF OfBundles
<1>6. Authority["SHARES_ISSUED"][i] = Issued("thisExam", "paper")
  BY <1>4, <1>5, EvidenceParts, BundlesOfThisExam DEF BundlesGrounded, Authority
<1> QED BY <1>1, <1>3, <1>6, BundlesOfThisExam DEF FirstOf, EntriesOf

LEMMA ApprovalsAreQuorums ==
  ASSUME NEW by \in Approvals
  PROVE  Cardinality(by) >= Threshold /\ by \subseteq Custodians \union Latecomers
<1>1. Threshold \in Int
  BY ExamAssumption, FS_CardinalityType
<1> QED BY <1>1 DEF Approvals, kSubset

LEMMA T9HasCause ==
  ASSUME EvidenceOK, T9(Earlier),
         \A r \in releases : r.by \intersect Latecomers = {},
         Shows("authority", "SHARES_ISSUED", Issued("thisExam", "paper"))
  PROVE  T9(Authority)
<1>1. "KEK_RELEASED" \in Types \ OfProvisioning
  BY TypesOfCommands
<1> SUFFICES ASSUME NEW p \in Range(Authority["KEK_RELEASED"]) PROVE ByQuorum(Authority, p)
  BY DEF T9, EntriesOf
<1>2. PICK i \in DOMAIN Authority["KEK_RELEASED"] : Authority["KEK_RELEASED"][i] = p
  BY DEF Range
<1>3. CASE i \in DOMAIN Earlier["KEK_RELEASED"]
  <2>1. p \in Range(Earlier["KEK_RELEASED"]) /\ p.bundle \notin {PaperBundle, AnswerBundle}
    BY <1>1, <1>2, <1>3, EarlierPlaces DEF OfBundles
  <2>2. ByQuorum(Earlier, p)
    BY <2>1 DEF T9, EntriesOf
  <2> QED BY <2>1, <2>2, EarlierByQuorum
<1>4. CASE Ground("authority", "KEK_RELEASED", p)
  <2>1. PICK r \in releases : p = Release(r.at, r.by)
    BY <1>4 DEF Ground
  <2>2. p.bundle = PaperBundle /\ p.custodians = r.by /\ p.threshold = Threshold
    BY <2>1 DEF Release
  <2>3. r.by \in Approvals
    BY EvidenceParts DEF CallsOK
  <2>4. IssuesOf(Authority, PaperBundle) # {}
    <3>1. PICK j \in DOMAIN Authority["SHARES_ISSUED"] :
            Authority["SHARES_ISSUED"][j] = Issued("thisExam", "paper")
      BY DEF Shows, Range, EntriesOf, Authority
    <3> QED BY <3>1, BundlesOfThisExam DEF IssuesOf, EntriesOf
  <2> QED BY <2>2, <2>3, <2>4, ApprovalsAreQuorums, FirstIssueIsOurs DEF ByQuorum
<1> QED BY <1>1, <1>2, <1>3, <1>4, AuthorityEntry

LEMMA T3HasCause ==
  ASSUME EvidenceOK,
         \A c \in distributed : Shows("authority", "BUNDLE_DISTRIBUTED", Distribution(c))
  PROVE  T3(Authority)
<1>1. {"BUNDLE_RECEIVED", "BUNDLE_DISTRIBUTED"} \subseteq Types \ OfProvisioning
  BY TypesOfCommands
<1> SUFFICES ASSUME NEW c \in Centres, NEW receipt \in Range(EntriesOf(log[c], "BUNDLE_RECEIVED"))
             PROVE  /\ SentFor(Authority, receipt) # {}
                    /\ LastOf(Authority, "BUNDLE_DISTRIBUTED", SentFor(Authority, receipt)).hash
                         = receipt.hash
  BY DEF T3, FromCentres
<1>2. c \in received /\ receipt = Distribution(c)
  BY <1>1, CentreEntryIsGrounded DEF Ground
<1>3. receipt.bundle = PaperBundle /\ receipt.centre = c /\ receipt.hash = PaperBundle
  BY <1>2 DEF Distribution
<1>4. PICK places : places = SentFor(Authority, receipt)
  OBVIOUS
<1>5. \A i : i \in places <=> /\ i \in DOMAIN Authority["BUNDLE_DISTRIBUTED"]
                              /\ Authority["BUNDLE_DISTRIBUTED"][i].bundle = PaperBundle
                              /\ Authority["BUNDLE_DISTRIBUTED"][i].centre = c
  BY <1>3, <1>4 DEF SentFor, EntriesOf
<1>6. places # {}
  <2>1. PICK j \in DOMAIN Authority["BUNDLE_DISTRIBUTED"] :
          Authority["BUNDLE_DISTRIBUTED"][j] = receipt
    BY <1>2, EvidenceParts DEF Shows, Range, EntriesOf, Authority, RowsOK
  <2> QED BY <1>3, <1>5, <2>1
<1>7. PICK i \in places : i = Max(places)
  BY <1>1, <1>5, <1>6, PlacesOfLog
<1>8. PICK p : p = Authority["BUNDLE_DISTRIBUTED"][i]
  OBVIOUS
<1>9. i \notin DOMAIN Earlier["BUNDLE_DISTRIBUTED"]
  BY <1>1, <1>5, EarlierPlaces DEF OfBundles
<1>10. Ground("authority", "BUNDLE_DISTRIBUTED", p)
  BY <1>1, <1>5, <1>8, <1>9, AuthorityEntry
<1>11. p.hash = PaperBundle
  BY <1>10 DEF Ground, Distribution
<1> QED BY <1>3, <1>4, <1>6, <1>7, <1>8, <1>11 DEF LastOf, EntriesOf

LEMMA T7HasCause ==
  ASSUME EvidenceOK,
         \A card \in checkedIn : Shows(CentreOf[card], "CANDIDATE_CHECKED_IN", CheckIn(card))
  PROVE  T7
<1>1. {"CANDIDATE_CHECKED_IN", "PAPER_GENERATED"} \subseteq Types \ OfProvisioning
  BY TypesOfCommands
<1> SUFFICES ASSUME NEW c \in Centres, NEW gen \in Range(EntriesOf(log[c], "PAPER_GENERATED"))
             PROVE  /\ EnteredWith(c, gen.card) # {}
                    /\ LastOf(log[c], "CANDIDATE_CHECKED_IN", EnteredWith(c, gen.card)).seat = gen.seat
  BY DEF T7
<1>2. PICK card \in papers : CentreOf[card] = c /\ gen = Generation(card)
  BY <1>1, CentreEntryIsGrounded DEF Ground
<1>3. gen.card = card /\ gen.seat = SeatOf[card]
  BY <1>2 DEF Generation
<1>4. PICK s : s = log[c]["CANDIDATE_CHECKED_IN"]
  OBVIOUS
<1>5. s \in Seq(PayloadSet)
  BY <1>1, <1>4, EvidenceParts, TypesOfCommands DEF LogOK
<1>6. PICK places : places = EnteredWith(c, card)
  OBVIOUS
<1>7. \A i : i \in places <=> i \in DOMAIN s /\ s[i].card = card
  BY <1>4, <1>6 DEF EnteredWith, EntriesOf
<1>8. places # {}
  <2>1. card \in checkedIn
    BY EvidenceParts DEF RowsOK
  <2>2. PICK i \in DOMAIN s : s[i] = CheckIn(card)
    BY <1>2, <1>4, <2>1 DEF Shows, Range, EntriesOf
  <2> QED BY <1>7, <2>2 DEF CheckIn
<1>9. PICK i \in places : i = Max(places)
  BY <1>5, <1>7, <1>8, EndsOfPlaces
<1>10. s[i] \in Range(EntriesOf(log[c], "CANDIDATE_CHECKED_IN"))
  BY <1>4, <1>7 DEF Range, EntriesOf
<1>11. PICK other \in checkedIn : s[i] = CheckIn(other)
  BY <1>1, <1>10, CentreEntryIsGrounded DEF Ground
<1>12. s[i].seat = SeatOf[card]
  BY <1>7, <1>11 DEF CheckIn
<1> QED BY <1>3, <1>4, <1>6, <1>8, <1>9, <1>12 DEF LastOf, EntriesOf

\* Where no earlier exam is in the log, the first paper bundle is this exam's.
LEMMA FirstPaperIsOurs ==
  ASSUME EvidenceOK, Shows("authority", "BUNDLE_CREATED", Created("thisExam", "paper", Content)),
         \A e \in Range(Earlier["BUNDLE_CREATED"]) : e.kind # "paper"
  PROVE  /\ PaperBundles(Authority) # {}
         /\ FirstOf(Authority, "BUNDLE_CREATED", PaperBundles(Authority)).content = Content
<1>1. PICK places : places = PaperBundles(Authority)
  OBVIOUS
<1>2. \A i : i \in places <=> /\ i \in DOMAIN Authority["BUNDLE_CREATED"]
                              /\ Authority["BUNDLE_CREATED"][i].kind = "paper"
  BY <1>1 DEF PaperBundles, EntriesOf
<1>3. /\ Created("thisExam", "paper", Content).kind = "paper"
      /\ Created("thisExam", "paper", Content).content = Content
      /\ Created("thisExam", "answers", "key").kind = "answers"
  BY DEF Created
<1>4. places # {}
  <2>1. PICK j \in DOMAIN Authority["BUNDLE_CREATED"] :
          Authority["BUNDLE_CREATED"][j] = Created("thisExam", "paper", Content)
    BY DEF Shows, Range, EntriesOf, Authority
  <2> QED BY <1>2, <1>3, <2>1
<1>5. "BUNDLE_CREATED" \in Types
  BY DEF Types
<1>6. PICK i \in places : i = Min(places)
  BY <1>2, <1>4, <1>5, PlacesOfLog
<1>7. i \notin DOMAIN Earlier["BUNDLE_CREATED"]
  BY <1>2, <1>5, EarlierPlaces
<1>8. Authority["BUNDLE_CREATED"][i] = Created("thisExam", "paper", Content)
  BY <1>2, <1>3, <1>7, EvidenceParts DEF BundlesGrounded, Authority
<1> QED BY <1>1, <1>3, <1>4, <1>6, <1>8 DEF FirstOf, EntriesOf

\* The papers in the logs are those of the cards, each of them once.
LEMMA PaperOfCard ==
  ASSUME EvidenceOK, NEW c \in Centres, NEW gen \in Range(EntriesOf(log[c], "PAPER_GENERATED"))
  PROVE  /\ gen.card \in papers /\ CentreOf[gen.card] = c /\ gen = Generation(gen.card)
         /\ gen.paper = Paper(Content, gen.centre, gen.seat, gen.card)
         /\ gen.paper.card = gen.card /\ gen.seat = SeatOf[gen.card]
<1>1. PICK card \in papers : CentreOf[card] = c /\ gen = Generation(card)
  BY TypesOfCommands, CentreEntryIsGrounded DEF Ground
<1>2. /\ gen.card = card /\ gen.centre = CentreOf[card] /\ gen.seat = SeatOf[card]
      /\ gen.paper = Paper(Content, CentreOf[card], SeatOf[card], card)
  BY <1>1 DEF Generation
<1> QED BY <1>1, <1>2 DEF Paper

LEMMA T4HasCause ==
  ASSUME EvidenceOK, Shows("authority", "BUNDLE_CREATED", Created("thisExam", "paper", Content)),
         \A e \in Range(Earlier["BUNDLE_CREATED"]) : e.kind # "paper"
  PROVE  T4(Authority, Content)
<1>1. \A gen \in FromCentres("PAPER_GENERATED") :
        gen.paper = Paper(Content, gen.centre, gen.seat, gen.card)
  BY PaperOfCard DEF FromCentres
<1>2. ASSUME NEW c \in Centres, NEW d \in Centres,
             NEW i \in DOMAIN EntriesOf(log[c], "PAPER_GENERATED"),
             NEW j \in DOMAIN EntriesOf(log[d], "PAPER_GENERATED"),
             EntriesOf(log[c], "PAPER_GENERATED")[i].paper
               = EntriesOf(log[d], "PAPER_GENERATED")[j].paper
      PROVE  c = d /\ i = j
  <2>1. PICK g \in Range(EntriesOf(log[c], "PAPER_GENERATED")) :
          g = EntriesOf(log[c], "PAPER_GENERATED")[i]
    BY DEF Range
  <2>2. PICK h \in Range(EntriesOf(log[d], "PAPER_GENERATED")) :
          h = EntriesOf(log[d], "PAPER_GENERATED")[j]
    BY DEF Range
  <2>3. g.card = h.card
    BY <1>2, <2>1, <2>2, PaperOfCard
  <2>4. c = d /\ g = h
    BY <2>1, <2>2, <2>3, PaperOfCard
  <2> QED BY <2>1, <2>2, <2>4, EvidenceParts DEF GeneratedOnce, EntriesOf
<1> QED BY <1>1, <1>2, FirstPaperIsOurs DEF T4

\* A centre has as many closings in its log as it was closed, or fewer.
LEMMA ClosingsBound ==
  ASSUME EvidenceOK, NEW c \in Centres
  PROVE  /\ Len(EntriesOf(log[c], "EXAM_CLOSED")) \in Nat
         /\ DOMAIN EntriesOf(log[c], "EXAM_CLOSED") = 1..Len(EntriesOf(log[c], "EXAM_CLOSED"))
         /\ closes[c] \in Nat /\ Len(EntriesOf(log[c], "EXAM_CLOSED")) <= closes[c]
         /\ EntriesOf(log[c], "EXAM_CLOSED") # <<>> => Len(EntriesOf(log[c], "EXAM_CLOSED")) # 0
<1>1. PICK s : s = log[c]["EXAM_CLOSED"]
  OBVIOUS
<1>2. s \in Seq(PayloadSet)
  BY <1>1, EvidenceParts, TypesOfCommands DEF LogOK
<1>3. Len(s) \in Nat /\ DOMAIN s = 1..Len(s) /\ (s # <<>> => Len(s) # 0)
  BY <1>2, LenProperties, EmptySeq
<1>4. Len(s) + Pending(c) <= closes[c]
  BY <1>1, EvidenceParts DEF ClosingsCounted
<1>5. Pending(c) \in 0..1
  BY DEF Pending
<1>6. closes[c] \in 0..MaxCloses /\ MaxCloses \in Nat
  BY EvidenceParts, ExamAssumption DEF ShapeInv
<1>7. closes[c] \in Nat /\ Len(s) <= closes[c]
  BY <1>3, <1>4, <1>5, <1>6
<1> QED BY <1>1, <1>3, <1>7 DEF EntriesOf

Closings == UNION {{c} \X DOMAIN EntriesOf(log[c], "EXAM_CLOSED") : c \in Centres}

LEMMA ClosingsMember ==
  ASSUME NEW x
  PROVE  x \in Closings <=> \E c \in Centres : \E i \in DOMAIN EntriesOf(log[c], "EXAM_CLOSED") :
                              x = <<c, i>>
  BY DEF Closings

\* Centres with one closing each have as many closings as there are centres.
LEMMA OncePerCentre ==
  ASSUME NEW S, IsFiniteSet(S)
  PROVE  LET T == {<<c, 1>> : c \in S} IN IsFiniteSet(T) /\ Cardinality(T) = Cardinality(S)
<1> DEFINE T == {<<c, 1>> : c \in S}
           f == [c \in S |-> <<c, 1>>]
<1>1. \A c \in S : f[c] \in T
  OBVIOUS
<1>2. \A x \in T : \E c \in S : f[c] = x
  OBVIOUS
<1>3. \A c, d \in S : f[c] = f[d] => c = d
  OBVIOUS
<1>4. f \in [S -> T]
  BY <1>1
<1> HIDE DEF T, f
<1>5. f \in Bijection(S, T)
  BY <1>2, <1>3, <1>4 DEF Bijection, Injection, Surjection, IsInjective
<1>6. IsFiniteSet(T) /\ Cardinality(T) = Cardinality(S)
  BY <1>5, FS_Bijection DEF ExistsBijection
<1> QED BY <1>6 DEF T

LEMMA T10HasCause ==
  ASSUME EvidenceOK,
         \A c \in Centres : closes[c] = 1 /\ EntriesOf(log[c], "EXAM_CLOSED") # <<>>
  PROVE  T10
<1>1. ASSUME NEW c \in Centres PROVE DOMAIN EntriesOf(log[c], "EXAM_CLOSED") = {1}
  <2>1. PICK n : n = Len(EntriesOf(log[c], "EXAM_CLOSED"))
    OBVIOUS
  <2>2. n \in Nat /\ n <= closes[c] /\ n # 0 /\ closes[c] = 1
    BY <2>1, ClosingsBound
  <2>3. n = 1
    BY <2>2
  <2> QED BY <2>1, <2>3, ClosingsBound
<1>2. Closings = {<<c, 1>> : c \in Centres}
  BY <1>1 DEF Closings
<1> QED BY <1>2, OncePerCentre, ExamAssumption DEF T10, Closings

\* A centre that was never closed is missed, unless another was closed twice.
LEMMA T10IsEarned ==
  ASSUME EvidenceOK, T10
  PROVE  \/ \A c \in Centres : closes[c] > 0
         \/ \E c \in Centres : closes[c] > 1
<1> SUFFICES ASSUME NEW d \in Centres, ~(closes[d] > 0), \A c \in Centres : ~(closes[c] > 1)
             PROVE  FALSE
  OBVIOUS
<1>1. PICK open : open = {<<c, 1>> : c \in Centres \ {d}}
  OBVIOUS
<1>2. Closings \subseteq open
  <2> SUFFICES ASSUME NEW c \in Centres, NEW i \in DOMAIN EntriesOf(log[c], "EXAM_CLOSED")
               PROVE  <<c, i>> \in open
    BY ClosingsMember
  <2>1. closes[c] = 1 /\ i = 1
    BY ClosingsBound
  <2>2. c # d
    BY <2>1
  <2> QED BY <1>1, <2>1, <2>2
<1>3. /\ IsFiniteSet(Centres \ {d}) /\ Cardinality(Centres \ {d}) = Cardinality(Centres) - 1
      /\ Cardinality(Centres) \in Nat
  BY ExamAssumption, FS_RemoveElement, FS_CardinalityType
<1>4. IsFiniteSet(open) /\ Cardinality(open) = Cardinality(Centres) - 1
  BY <1>1, <1>3, OncePerCentre
<1>5. Cardinality(Closings) <= Cardinality(open) /\ IsFiniteSet(Closings)
  BY <1>2, <1>4, FS_Subset
<1>6. Cardinality(Closings) = Cardinality(Centres)
  BY DEF T10, Closings
<1> QED BY <1>3, <1>4, <1>5, <1>6

-----------------------------------------------------------------------------

LEMMA InvAccusationsHaveCause == EvidenceOK => AccusationsHaveCause
<1> SUFFICES ASSUME EvidenceOK, EarlierIsInOrder PROVE AccusationsHaveCause
  BY DEF AccusationsHaveCause
<1>1. T2(Earlier) /\ T9(Earlier)
  BY DEF EarlierIsInOrder
<1>2. ~T1(Authority) =>
        ~Shows("authority", "BUNDLE_CREATED", Created("thisExam", "paper", Content))
  BY T1HasCause
<1>3. ~T2(Authority) =>
        \/ \E r \in releases : r.at < r.tzero
        \/ \E r \in releases : r.tzero # announced[Len(announced)]
        \/ announced # <<>> /\ ~LastIsLogged
  <2>1. \A r \in releases : r.at \in 0..MaxTime /\ r.tzero \in 1..MaxTime
    BY EvidenceParts DEF CallsOK
  <2>2. \A r \in releases : r.at < r.tzero \/ r.at >= r.tzero
    BY <2>1, ExamAssumption
  <2> QED BY <1>1, <2>2, T2HasCause
<1>4. ~T9(Authority) =>
        \/ \E r \in releases : r.by \intersect Latecomers # {}
        \/ ~Shows("authority", "SHARES_ISSUED", Issued("thisExam", "paper"))
  BY <1>1, T9HasCause
<1>5. ~T3(Authority) =>
        \E c \in distributed : ~Shows("authority", "BUNDLE_DISTRIBUTED", Distribution(c))
  BY T3HasCause
<1>6. ~T7 => \E card \in checkedIn :
               ~Shows(CentreOf[card], "CANDIDATE_CHECKED_IN", CheckIn(card))
  BY T7HasCause
<1>7. ~T4(Authority, Content) =>
        \/ ~Shows("authority", "BUNDLE_CREATED", Created("thisExam", "paper", Content))
        \/ \E e \in Range(Earlier["BUNDLE_CREATED"]) : e.kind = "paper"
  BY T4HasCause
<1>8. ~T10 => \E c \in Centres : closes[c] # 1 \/ EntriesOf(log[c], "EXAM_CLOSED") = <<>>
  BY T10HasCause
<1> QED BY <1>2, <1>3, <1>4, <1>5, <1>6, <1>7, <1>8 DEF AccusationsHaveCause

(* Whatever the audit complains of has a cause: an entry that is missing,  *)
(* an attempt before T-0, a schedule changed after the release or crossed  *)
(* on its way to the log, a custodian without a share, a centre not closed *)
(* exactly once (audit.ts).                                                *)
THEOREM ComplaintsAreJust == Spec => []AccusationsHaveCause
  BY ShapeInvariant, EvidenceInvariant, InvAccusationsHaveCause, PTL DEF EvidenceOK

\* The rows T2 and T9 of a report that passes, call by call.
LEMMA ReleaseIsEarned ==
  ASSUME EvidenceOK, T2(Authority), T9(Authority), LastIsLogged, NEW r \in releases,
         r.at < r.tzero => Shows("authority", "EARLY_RELEASE_ATTEMPT", Attempt(r.by)),
         ~(r.at < r.tzero) => Shows("authority", "KEK_RELEASED", Release(r.at, r.by))
  PROVE  /\ r.at >= r.tzero
         /\ r.at >= announced[Len(announced)]
         /\ r.by \subseteq Custodians
<1>1. ~(r.at < r.tzero)
  <2>1. EntriesOf(Authority, "EARLY_RELEASE_ATTEMPT") = <<>>
    BY DEF T2
  <2>2. ~Shows("authority", "EARLY_RELEASE_ATTEMPT", Attempt(r.by))
    BY <2>1, EmptySeq DEF Shows, Range, Authority
  <2> QED BY <2>2
<1>2. r.at \in 0..MaxTime /\ r.tzero \in 1..MaxTime
  BY EvidenceParts DEF CallsOK
<1>3. PICK p : p = Release(r.at, r.by)
  OBVIOUS
<1>4. p.bundle = PaperBundle /\ p.at = r.at /\ p.custodians = r.by
  BY <1>3 DEF Release
<1>5. p \in Range(EntriesOf(Authority, "KEK_RELEASED"))
  BY <1>1, <1>3 DEF Shows, Authority
<1>6. OnTime(Authority, p) /\ ByQuorum(Authority, p)
  BY <1>5 DEF T2, T9
<1>7. r.at >= announced[Len(announced)]
  BY <1>4, <1>6 DEF OnTime, LastIsLogged
<1>8. r.by \subseteq Custodians
  BY <1>4, <1>6, FirstIssueIsOurs DEF ByQuorum
<1> QED BY <1>1, <1>2, <1>7, <1>8

LEMMA InvPassIsEarned == EvidenceOK => PassIsEarned
<1> SUFFICES ASSUME EvidenceOK, Overall PROVE PassIsEarned
  BY DEF PassIsEarned
<1>1. T2(Authority) /\ T9(Authority) /\ T10
  BY DEF Overall
<1>2. \/ \A c \in Centres : closes[c] > 0
      \/ \E c \in Centres : closes[c] > 1
  BY <1>1, T10IsEarned
<1>3. ASSUME NEW r \in releases, LastIsLogged,
             IF r.at < r.tzero
               THEN Shows("authority", "EARLY_RELEASE_ATTEMPT", Attempt(r.by))
               ELSE Shows("authority", "KEK_RELEASED", Release(r.at, r.by))
      PROVE  /\ r.at >= r.tzero
             /\ r.at >= announced[Len(announced)]
             /\ r.by \subseteq Custodians
  BY <1>1, <1>3, ReleaseIsEarned
<1>4. ASSUME NEW c \in Centres, NEW gen \in Range(EntriesOf(log[c], "PAPER_GENERATED"))
      PROVE  /\ gen.card \in checkedIn /\ CentreOf[gen.card] = c /\ SeatOf[gen.card] = gen.seat
             /\ c \in received \intersect released
  BY PaperOfCard, EvidenceParts DEF RowsOK, CallInv
<1> QED BY <1>2, <1>3, <1>4 DEF PassIsEarned

(* A report that passes is earned: every centre was closed or one of them  *)
(* twice, whatever release the log shows was on time by the T-0 announced  *)
(* last and approved by holders of shares, and every logged paper belongs  *)
(* to a candidate who sat there and whose centre had bundle and key        *)
(* (audit.ts).                                                             *)
THEOREM PassesAreEarned == Spec => []PassIsEarned
  BY ShapeInvariant, EvidenceInvariant, InvPassIsEarned, PTL DEF EvidenceOK
=============================================================================
