----------------------------- MODULE ExamAudit -----------------------------
(***************************************************************************)
(* One exam as the logs of its authority and its centres show it, and the  *)
(* audit of these logs (verifier/src/audit.ts).                            *)
(*                                                                         *)
(* Who may do what, step by step, is the matter of ThresholdRelease,       *)
(* Provisioning and CentreNode; here a command is its guard, its row and   *)
(* its entry.  The row is written first and the entry appended afterwards: *)
(* it may be late, be rejected, or come after its log was exported.  The   *)
(* last two leave the same evidence as an entry that stays delayed, so     *)
(* every state is one in which the logs may be audited.                    *)
(*                                                                         *)
(* The audit reads a log type by type (entriesOf), so a log is a sequence  *)
(* for each type, and what its chain and its checkpoints must satisfy (T6) *)
(* is LogVerify's; T5 is TimeStamp's; the search for names of persons (T8) *)
(* is left out.  The hash of a content, of a bundle or of a paper is what  *)
(* it commits to.  There is one card for each candidate.                   *)
(***************************************************************************)
EXTENDS Integers, Sequences, FiniteSets, FiniteSetsExt, Functions

CONSTANTS
  Centres,     \* the centres of this exam
  Cards,       \* the admit tokens of its candidates
  CentreOf,    \* the centre and the seat a card is for
  SeatOf,
  Custodians,  \* who was enrolled when the exam was provisioned
  Latecomers,  \* who was enrolled as a custodian since
  Threshold,
  Content,     \* what the paper bundle holds
  Earlier,     \* the authority's entries for the exams before this one
  MaxTime,     \* bounds: the clock,
  MaxSchedules,  \* the schedules signed,
  MaxReleases,   \* the calls of release,
  MaxCloses,     \* the closings of one centre,
  MaxFaults      \* the entries delayed or rejected

Logs == {"authority"} \union Centres

ASSUME ExamAssumption ==
  /\ "authority" \notin Centres /\ IsFiniteSet(Centres)
  /\ CentreOf \in [Cards -> Centres] /\ DOMAIN SeatOf = Cards
  /\ Custodians \intersect Latecomers = {}
  /\ IsFiniteSet(Custodians) /\ Threshold \in 1..Cardinality(Custodians)
  /\ MaxTime \in Nat /\ MaxSchedules \in Nat /\ MaxReleases \in Nat
  /\ MaxCloses \in Nat /\ MaxFaults \in Nat

VARIABLES
  now,         \* the authority's clock
  provisioned, \* the paper bundle has a row in bundles
  shared,      \* and its shares have theirs
  schedule,    \* the row of the paper bundle in schedules, 0 when there is none
  distributed, \* the centres with a row in distributions
  releasing,   \* calls of release past their checks
  released,    \* the centres with a row in releases
  received,    \* the centres that hold the bundle
  checkedIn,   \* the cards with a row in checkins
  papers,      \* the cards with a row in papers
  log,         \* the entries of each log, by type
  delayed,     \* entries that were not appended with their rows
  faults,      \* how many there have been
  \* history
  announced,   \* the T-0 of every schedule, in the order of the rows
  releases,    \* the calls of release: when, by whom, and the T-0 that was read
  closes       \* how often each centre was closed

rows    == <<provisioned, shared, schedule, distributed, released, received, checkedIn, papers>>
history == <<announced, releases, closes>>
vars    == <<now, rows, releasing, log, delayed, faults, history>>

-----------------------------------------------------------------------------
(* The entries, as far as the audit reads them.                            *)

Types == {"BUNDLE_CREATED", "SHARES_ISSUED", "BUNDLE_DISTRIBUTED", "RELEASE_SCHEDULED",
          "EARLY_RELEASE_ATTEMPT", "KEK_RELEASED", "BUNDLE_RECEIVED",
          "CANDIDATE_CHECKED_IN", "PAPER_GENERATED", "EXAM_CLOSED"}

BundleId(exam, kind) == <<exam, kind>>
PaperBundle          == BundleId("thisExam", "paper")
AnswerBundle         == BundleId("thisExam", "answers")

OfBundles == {"BUNDLE_CREATED", "SHARES_ISSUED", "BUNDLE_DISTRIBUTED", "RELEASE_SCHEDULED",
              "EARLY_RELEASE_ATTEMPT", "KEK_RELEASED"}

\* What was logged for other exams is about their bundles, each of which was
\* created once and has a key of its own.
ASSUME EarlierAssumption ==
  /\ Earlier \in [Types -> Seq(UNION {Range(Earlier[t]) : t \in Types})]
  /\ \A t \in OfBundles : \A e \in Range(Earlier[t]) :
       e.bundle \notin {PaperBundle, AnswerBundle}
  /\ \A i, j \in DOMAIN Earlier["BUNDLE_CREATED"] :
       Earlier["BUNDLE_CREATED"][i].bundle = Earlier["BUNDLE_CREATED"][j].bundle => i = j
  /\ \A e \in Range(Earlier["BUNDLE_CREATED"]) : e.kek = e.bundle

Paper(content, centre, seat, card) ==
  [content |-> content, centre |-> centre, seat |-> seat, card |-> card]

Created(exam, kind, content) ==
  [bundle |-> BundleId(exam, kind), kind |-> kind, kek |-> BundleId(exam, kind),
   content |-> content]
Issued(exam, kind) == [bundle |-> BundleId(exam, kind), custodians |-> Custodians]
Distribution(c)    == [bundle |-> PaperBundle, centre |-> c, hash |-> PaperBundle]
Schedule(at)       == [bundle |-> PaperBundle, at |-> at]
Attempt(by)        == [bundle |-> PaperBundle, custodians |-> by]
Release(at, by)    == [bundle |-> PaperBundle, at |-> at, threshold |-> Threshold,
                       custodians |-> by]
CheckIn(card)      == [card |-> card, seat |-> SeatOf[card]]
Generation(card)   == [card |-> card, seat |-> SeatOf[card], centre |-> CentreOf[card],
                       paper |-> Paper(Content, CentreOf[card], SeatOf[card], card)]
Closing            == [closed |-> TRUE]

Entry(where, type, payload) == [log |-> where, type |-> type, payload |-> payload]

EntriesOf(exported, type) == exported[type]

Authority == log["authority"]

Shows(a, type, payload) == payload \in Range(EntriesOf(log[a], type))

\* The custodians of a call; more of them make no difference to the audit.
Approvals == kSubset(Threshold, Custodians \union Latecomers)

Init ==
  /\ now = 0
  /\ provisioned = FALSE /\ shared = FALSE
  /\ schedule = 0
  /\ distributed = {} /\ released = {} /\ received = {}
  /\ checkedIn = {} /\ papers = {}
  /\ releasing = {}
  /\ log = [a \in Logs |-> IF a = "authority" THEN Earlier ELSE [t \in Types |-> <<>>]]
  /\ delayed = {} /\ faults = 0
  /\ announced = <<>> /\ releases = {} /\ closes = [c \in Centres |-> 0]

-----------------------------------------------------------------------------
(* Appends and the clock.                                                  *)

Recorded(e) == [log EXCEPT ![e.log][e.type] = Append(@, e.payload)]

\* A command's entry, with its row or later than that.
Record(e) ==
  \/ log' = Recorded(e) /\ UNCHANGED <<delayed, faults>>
  \/ /\ e \notin delayed /\ faults < MaxFaults
     /\ delayed' = delayed \union {e}
     /\ faults' = faults + 1
     /\ UNCHANGED log

AppendLate(e) ==
  /\ e \in delayed
  /\ delayed' = delayed \ {e}
  /\ log' = Recorded(e)
  /\ UNCHANGED <<now, rows, releasing, faults, history>>

Tick ==
  /\ now < MaxTime
  /\ now' = now + 1
  /\ UNCHANGED <<rows, releasing, log, delayed, faults, history>>

-----------------------------------------------------------------------------
(* The authority.                                                          *)

\* provision: the bundle and its shares are stored and recorded, first for
\* the paper, then for the answers; it ends with the append that is rejected.
Provision(n) ==
  /\ ~provisioned
  /\ n = 4 \/ faults < MaxFaults
  /\ provisioned' = TRUE
  /\ shared' = (n >= 1)
  /\ log' = [log EXCEPT
       !["authority"]["BUNDLE_CREATED"] = @ \o
         SubSeq(<<Created("thisExam", "paper", Content), Created("thisExam", "answers", "key")>>,
                1, (n + 1) \div 2),
       !["authority"]["SHARES_ISSUED"] = @ \o
         SubSeq(<<Issued("thisExam", "paper"), Issued("thisExam", "answers")>>, 1, n \div 2)]
  /\ faults' = IF n = 4 THEN faults ELSE faults + 1
  /\ UNCHANGED <<now, schedule, distributed, released, received, checkedIn, papers,
                 releasing, delayed, history>>

\* recordDistribution, repeated if its entry was rejected.
Distribute(c) ==
  /\ provisioned
  /\ ~Shows("authority", "BUNDLE_DISTRIBUTED", Distribution(c))
  /\ distributed' = distributed \union {c}
  /\ Record(Entry("authority", "BUNDLE_DISTRIBUTED", Distribution(c)))
  /\ UNCHANGED <<now, provisioned, shared, schedule, released, received, checkedIn, papers,
                 releasing, history>>

\* scheduleRelease: a second schedule takes the place of the first.
ScheduleRelease(at) ==
  /\ provisioned /\ Len(announced) < MaxSchedules
  /\ schedule' = at
  /\ announced' = Append(announced, at)
  /\ Record(Entry("authority", "RELEASE_SCHEDULED", Schedule(at)))
  /\ UNCHANGED <<now, provisioned, shared, distributed, released, received, checkedIn, papers,
                 releasing, releases, closes>>

\* performRelease, up to the check of the clock: the refusal is recorded.
ReleaseRefused(by) ==
  /\ schedule # 0 /\ now < schedule
  /\ Cardinality(releases) < MaxReleases
  /\ releases' = releases \union {[at |-> now, tzero |-> schedule, by |-> by]}
  /\ releases' # releases
  /\ Record(Entry("authority", "EARLY_RELEASE_ATTEMPT", Attempt(by)))
  /\ UNCHANGED <<now, rows, releasing, announced, closes>>

\* performRelease, past its checks; only a quorum of stored shares opens.
StartRelease(by) ==
  /\ schedule # 0 /\ now >= schedule
  /\ shared
  /\ distributed # {}
  /\ Cardinality(releases) < MaxReleases
  /\ LET call == [at |-> now, tzero |-> schedule, by |-> by]
     IN /\ call \notin releases
        /\ releases' = releases \union {call}
        /\ releasing' = releasing \union {[at |-> now, by |-> by, to |-> distributed]}
  /\ UNCHANGED <<now, rows, log, delayed, faults, announced, closes>>

\* The keys are stored, and KEK_RELEASED is appended.
FinishRelease(r) ==
  /\ r \in releasing
  /\ releasing' = releasing \ {r}
  /\ released' = released \union r.to
  /\ Record(Entry("authority", "KEK_RELEASED", Release(r.at, r.by)))
  /\ UNCHANGED <<now, provisioned, shared, schedule, distributed, received, checkedIn, papers,
                 history>>

-----------------------------------------------------------------------------
(* A centre.                                                               *)

\* Mutant: the bundle is served to whoever asks.
ReceiveUndistributed(c) ==
  /\ provisioned /\ c \notin received
  /\ received' = received \union {c}
  /\ Record(Entry(c, "BUNDLE_RECEIVED", Distribution(c)))
  /\ UNCHANGED <<now, provisioned, shared, schedule, distributed, released, checkedIn, papers,
                 releasing, history>>

\* receiveBundle: the authority serves the bundle once the row is there.
Receive(c) ==
  /\ c \in distributed \ received
  /\ received' = received \union {c}
  /\ Record(Entry(c, "BUNDLE_RECEIVED", Distribution(c)))
  /\ UNCHANGED <<now, provisioned, shared, schedule, distributed, released, checkedIn, papers,
                 releasing, history>>

\* checkIn of a card that verifies.
CheckInCandidate(card) ==
  /\ card \notin checkedIn
  /\ \A other \in checkedIn :
       CentreOf[other] = CentreOf[card] => SeatOf[other] # SeatOf[card]
  /\ checkedIn' = checkedIn \union {card}
  /\ Record(Entry(CentreOf[card], "CANDIDATE_CHECKED_IN", CheckIn(card)))
  /\ UNCHANGED <<now, provisioned, shared, schedule, distributed, released, received, papers,
                 releasing, history>>

\* generatePaper, with the key received.
Generate(card) ==
  /\ card \in checkedIn \ papers
  /\ CentreOf[card] \in received \intersect released
  /\ papers' = papers \union {card}
  /\ Record(Entry(CentreOf[card], "PAPER_GENERATED", Generation(card)))
  /\ UNCHANGED <<now, provisioned, shared, schedule, distributed, released, received, checkedIn,
                 releasing, history>>

\* closeExam leaves no mark but its entry.
Close(c) ==
  /\ closes[c] < MaxCloses
  /\ closes' = [closes EXCEPT ![c] = @ + 1]
  /\ Record(Entry(c, "EXAM_CLOSED", Closing))
  /\ UNCHANGED <<now, rows, releasing, announced, releases>>

Next ==
  \/ Tick
  \/ \E e \in delayed : AppendLate(e)
  \/ \E n \in 0..4 : Provision(n)
  \/ \E at \in 1..MaxTime : ScheduleRelease(at)
  \/ \E by \in Approvals : ReleaseRefused(by) \/ StartRelease(by)
  \/ \E r \in releasing : FinishRelease(r)
  \/ \E c \in Centres : Distribute(c) \/ Receive(c) \/ Close(c)
  \/ \E card \in Cards : CheckInCandidate(card) \/ Generate(card)

Spec == Init /\ [][Next]_vars

-----------------------------------------------------------------------------
(* The audit, row by row: whether the row passes, given what the authority *)
(* exported.                                                               *)

FromCentres(type) == UNION {Range(EntriesOf(log[c], type)) : c \in Centres}

T1(authority) ==
  LET created == EntriesOf(authority, "BUNDLE_CREATED")
  IN /\ created # <<>>
     /\ Cardinality({e.kek : e \in Range(created)}) = Len(created)

\* Where a log has the entries for a bundle, a receipt, or a card.
SchedulesOf(authority, bundle) ==
  {i \in DOMAIN EntriesOf(authority, "RELEASE_SCHEDULED") :
     EntriesOf(authority, "RELEASE_SCHEDULED")[i].bundle = bundle}

IssuesOf(authority, bundle) ==
  {i \in DOMAIN EntriesOf(authority, "SHARES_ISSUED") :
     EntriesOf(authority, "SHARES_ISSUED")[i].bundle = bundle}

SentFor(authority, receipt) ==
  {i \in DOMAIN EntriesOf(authority, "BUNDLE_DISTRIBUTED") :
     LET sent == EntriesOf(authority, "BUNDLE_DISTRIBUTED")[i]
     IN sent.bundle = receipt.bundle /\ sent.centre = receipt.centre}

EnteredWith(c, card) ==
  {i \in DOMAIN EntriesOf(log[c], "CANDIDATE_CHECKED_IN") :
     EntriesOf(log[c], "CANDIDATE_CHECKED_IN")[i].card = card}

PaperBundles(authority) ==
  {i \in DOMAIN EntriesOf(authority, "BUNDLE_CREATED") :
     EntriesOf(authority, "BUNDLE_CREATED")[i].kind = "paper"}

FirstOf(exported, type, places) == EntriesOf(exported, type)[Min(places)]
LastOf(exported, type, places)  == EntriesOf(exported, type)[Max(places)]

\* Mutant: a schedule that is there already is kept.
OnTimeByFirst(authority, release) ==
  LET schedules == SchedulesOf(authority, release.bundle)
  IN schedules # {} /\ release.at >= FirstOf(authority, "RELEASE_SCHEDULED", schedules).at

\* Mutant: a release at T-0 is not yet on time.
OnTimeLater(authority, release) ==
  LET schedules == SchedulesOf(authority, release.bundle)
  IN schedules # {} /\ release.at > LastOf(authority, "RELEASE_SCHEDULED", schedules).at

\* A release is judged by the schedule that the log shows last.
OnTime(authority, release) ==
  LET schedules == SchedulesOf(authority, release.bundle)
  IN schedules # {} /\ release.at >= LastOf(authority, "RELEASE_SCHEDULED", schedules).at

T2(authority) ==
  /\ \A release \in Range(EntriesOf(authority, "KEK_RELEASED")) : OnTime(authority, release)
  /\ EntriesOf(authority, "EARLY_RELEASE_ATTEMPT") = <<>>

\* A quorum of those the shares were issued to, by the first entry that says so.
ByQuorum(authority, release) ==
  LET issues == IssuesOf(authority, release.bundle)
  IN /\ issues # {}
     /\ Cardinality(release.custodians) >= release.threshold
     /\ release.custodians \subseteq FirstOf(authority, "SHARES_ISSUED", issues).custodians

T9(authority) ==
  \A release \in Range(EntriesOf(authority, "KEK_RELEASED")) : ByQuorum(authority, release)

T3(authority) ==
  \A receipt \in FromCentres("BUNDLE_RECEIVED") :
    LET sent == SentFor(authority, receipt)
    IN sent # {} /\ LastOf(authority, "BUNDLE_DISTRIBUTED", sent).hash = receipt.hash

T7 ==
  \A c \in Centres : \A gen \in Range(EntriesOf(log[c], "PAPER_GENERATED")) :
    LET entered == EnteredWith(c, gen.card)
    IN entered # {} /\ LastOf(log[c], "CANDIDATE_CHECKED_IN", entered).seat = gen.seat

\* The content that is disclosed against the first paper bundle in the log,
\* and every paper derived again from it.
T4(authority, disclosed) ==
  LET papersOf(c) == EntriesOf(log[c], "PAPER_GENERATED")
  IN /\ PaperBundles(authority) # {}
     /\ FirstOf(authority, "BUNDLE_CREATED", PaperBundles(authority)).content = disclosed
     /\ \A gen \in FromCentres("PAPER_GENERATED") :
          gen.paper = Paper(disclosed, gen.centre, gen.seat, gen.card)
     /\ \A c, d \in Centres : \A i \in DOMAIN papersOf(c), j \in DOMAIN papersOf(d) :
          papersOf(c)[i].paper = papersOf(d)[j].paper => c = d /\ i = j

\* As many closings as there are centres.
T10 ==
  Cardinality(UNION {{c} \X DOMAIN EntriesOf(log[c], "EXAM_CLOSED") : c \in Centres})
    = Cardinality(Centres)

Overall ==
  /\ T1(Authority) /\ T2(Authority) /\ T9(Authority) /\ T3(Authority)
  /\ T4(Authority, Content) /\ T7 /\ T10

-----------------------------------------------------------------------------
(* The rows, the logs and the calls are what they are declared to be.      *)
TypeOK ==
  /\ now \in 0..MaxTime /\ schedule \in 0..MaxTime
  /\ provisioned \in BOOLEAN /\ shared \in BOOLEAN
  /\ distributed \subseteq Centres /\ released \subseteq distributed /\ received \subseteq distributed
  /\ papers \subseteq checkedIn /\ checkedIn \subseteq Cards
  /\ releasing \subseteq [at : 0..MaxTime, by : Approvals, to : SUBSET distributed]
  /\ DOMAIN log = Logs
  /\ \A a \in Logs : DOMAIN log[a] = Types
  /\ \A e \in delayed : e.log \in Logs /\ e.type \in Types
  /\ faults \in 0..MaxFaults
  /\ \A i \in DOMAIN announced : announced[i] \in 1..MaxTime
  /\ \A r \in releases : r.at \in 0..MaxTime /\ r.tzero \in 1..MaxTime
  /\ closes \in [Centres -> 0..MaxCloses]

(* The last schedule of this exam in the log is the one announced last.    *)
LastIsLogged ==
  /\ SchedulesOf(Authority, PaperBundle) # {}
  /\ LastOf(Authority, "RELEASE_SCHEDULED", SchedulesOf(Authority, PaperBundle)).at
       = announced[Len(announced)]

\* The exams before this one give no cause for complaint.
EarlierIsInOrder == T2(Earlier) /\ T9(Earlier)

(* Where nobody did wrong the audit has no complaint but for what really   *)
(* happened: a rejected append or an early export hides the entry that a   *)
(* row of the tables has, somebody tried too early, the exam was put off   *)
(* after the release or its schedules crossed on the way to the log,       *)
(* somebody approved who held no share, or a centre was not closed, or     *)
(* closed twice; that a disclosed paper is called another one may also     *)
(* come from an earlier exam in the same log (DisclosedPaperIsAccepted).   *)
AccusationsHaveCause ==
  EarlierIsInOrder /\ provisioned =>
    /\ ~T1(Authority) =>
         ~Shows("authority", "BUNDLE_CREATED", Created("thisExam", "paper", Content))
    /\ ~T2(Authority) =>
         \/ \E r \in releases : r.at < r.tzero
         \/ \E r \in releases : r.tzero # announced[Len(announced)]
         \/ announced # <<>> /\ ~LastIsLogged
    /\ ~T9(Authority) =>
         \/ \E r \in releases : r.by \intersect Latecomers # {}
         \/ ~Shows("authority", "SHARES_ISSUED", Issued("thisExam", "paper"))
    /\ ~T3(Authority) =>
         \E c \in distributed : ~Shows("authority", "BUNDLE_DISTRIBUTED", Distribution(c))
    /\ ~T7 => \E card \in checkedIn :
                ~Shows(CentreOf[card], "CANDIDATE_CHECKED_IN", CheckIn(card))
    /\ ~T4(Authority, Content) =>
         \/ ~Shows("authority", "BUNDLE_CREATED", Created("thisExam", "paper", Content))
         \/ \E e \in Range(Earlier["BUNDLE_CREATED"]) : e.kind = "paper"
    /\ ~T10 => \E c \in Centres : closes[c] # 1 \/ EntriesOf(log[c], "EXAM_CLOSED") = <<>>

(* An exam that passes is one where every centre was closed, unless one of *)
(* them was closed twice; where no attempt was made before its T-0 and no  *)
(* key was released before the T-0 that was announced last, unless the     *)
(* entries of these are missing or out of order; where whoever approved    *)
(* held a share; and where each logged paper is that of a candidate who    *)
(* sat there and whose centre had the bundle and the key.                  *)
PassIsEarned ==
  Overall =>
    LET Logged(r) == IF r.at < r.tzero
                       THEN Shows("authority", "EARLY_RELEASE_ATTEMPT", Attempt(r.by))
                       ELSE Shows("authority", "KEK_RELEASED", Release(r.at, r.by))
    IN /\ \/ \A c \in Centres : closes[c] > 0
          \/ \E c \in Centres : closes[c] > 1
       /\ \A r \in releases : Logged(r) /\ LastIsLogged =>
            /\ r.at >= r.tzero
            /\ r.at >= announced[Len(announced)]
            /\ r.by \subseteq Custodians
       /\ \A c \in Centres : \A gen \in Range(EntriesOf(log[c], "PAPER_GENERATED")) :
            /\ gen.card \in checkedIn /\ CentreOf[gen.card] = c /\ SeatOf[gen.card] = gen.seat
            /\ c \in received \intersect released

(* An honest disclosure, of the very content whose hash the authority's    *)
(* log commits to, is not called another one.                              *)
DisclosedPaperIsAccepted ==
  Shows("authority", "BUNDLE_CREATED", Created("thisExam", "paper", Content)) =>
    T4(Authority, Content)

=============================================================================
