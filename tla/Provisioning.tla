---------------------------- MODULE Provisioning ----------------------------
(***************************************************************************)
(* Preparation of one exam at the authority: custodians enrolled under the *)
(* keys of their machines, the two bundles built and their keys split      *)
(* among the custodians (authority/src/provision.ts), and the admit tokens *)
(* of one centre issued (authority/src/authority.ts, issueAdmitTokens).    *)
(*                                                                         *)
(* Every zw-authority command is a process of its own on the same two      *)
(* databases: its statements and log appends are single steps, nothing     *)
(* spans them, and it may die between any two (Fail).  A statement that a  *)
(* key of its table refuses ends the command with an error.                *)
(*                                                                         *)
(* A bundle is the key it is encrypted with: which key (id), and one byte  *)
(* of it, the others being shared alike.  A share is sealed to a public    *)
(* key.  A log entry is kept as the facts it states; the order of entries  *)
(* is TransparencyLog's.  The exam's items and their validation are        *)
(* ExamAudit's.  reported, cards and lastRead are history.  MaxBegun,      *)
(* MaxEnrolments and MaxFaults, with MaxDrawn, only bound the model.       *)
(***************************************************************************)
EXTENDS KeyStore, SecretSharing, Functions
LOCAL INSTANCE SequencesExt
LOCAL INSTANCE FiniteSetsExt

CONSTANTS
  BoxKey,        \* the name of the key shares are sealed to
  Commands,      \* processes, one zw-authority command at a time each
  Threshold,     \* --threshold
  Secrets,       \* bytes a new key may have
  Coefficients,  \* bytes a split may draw
  Rosters,       \* that issue-admit may be given: sequences of [who, seat]
  Enrolled,      \* the custodians' keys at the start
  Operations,    \* "provision", "admit": the commands an operator gives
  MaxBegun, MaxEnrolments, MaxFaults

VARIABLES
  custodians,  \* table: the box key of each custodian, or None
  bundles,     \* table: the key of each bundle, or NoBundle
  shares,      \* table
  admits,      \* table: the tokens
  log,         \* facts stated by the authority's log
  command,     \* what each command is in the middle of
  minted,      \* bundle keys made
  begun,       \* commands begun
  enrolments,  \* enrol-custodian commands given
  faults,      \* commands that failed
  reported,    \* the custodians' keys of each provisioning that succeeded
  cards,       \* admit tokens written out for candidates
  lastRead     \* the keys read by the last provisioning that came to its end

tableVars == <<custodians, bundles, shares, admits, log>>
otherVars == <<minted, begun, enrolments, faults, reported, cards, lastRead>>
vars == <<keyVars, tableVars, command, otherVars>>

Kinds == {"paper", "answers"}
None  == 0   \* not enrolled
Wrong == -1  \* enrolled under a key nobody holds

NoBundle == [id |-> None, byte |-> None]

Keks   == [id: Nat \ {0}, byte: Secrets]
Keys   == Nat \union {Wrong}
Shares == [kind: Kinds, holder: Machines, to: Keys,
           share: [set: Nat, x: 1..Order, threshold: {Threshold}, y: Field]]
Tokens == UNION {{[who |-> r[i].who, seat |-> r[i].seat, issue |-> n] :
                    i \in DOMAIN r, n \in 1..MaxBegun} : r \in Rosters}

Created(kind, kek)    == [type |-> "BUNDLE_CREATED", kind |-> kind, kek |-> kek]
Issued(kind, sealed)  == [type |-> "SHARES_ISSUED", kind |-> kind, shares |-> sealed]
AdmitsIssued(tokens)  == [type |-> "ADMIT_TOKENS_ISSUED", tokens |-> tokens]

Facts == [type: {"BUNDLE_CREATED"}, kind: Kinds, kek: Keks]
    \union [type: {"SHARES_ISSUED"}, kind: Kinds, shares: SUBSET Shares]
    \union [type: {"ADMIT_TOKENS_ISSUED"}, tokens: SUBSET Tokens]

ASSUME ProvisioningAssumption ==
  /\ Machines \subseteq Nat /\ IsFiniteSet(Machines)
  /\ BoxKey \in Names
  /\ Threshold \in Nat /\ Threshold >= 2
  /\ Secrets \subseteq Field /\ Coefficients \subseteq Field
  /\ Enrolled \in [Machines -> Keys]
  /\ \A c \in Machines : Enrolled[c] \notin {None, Wrong} =>
       /\ FirstFiles[c] # NoFile
       /\ \E i \in DOMAIN FirstFiles[c].entries :
            /\ FirstFiles[c].entries[i].name = BoxKey
            /\ FirstFiles[c].entries[i].seed = Enrolled[c]
  /\ \A r \in Rosters : r \in Seq(Range(r)) /\ IsInjective([i \in DOMAIN r |-> r[i].who])
  /\ Operations \subseteq {"provision", "admit"}
  /\ MaxBegun \in Nat /\ MaxEnrolments \in Nat /\ MaxFaults \in Nat

Ready == [stage |-> "ready"]

\* A command that builds a bundle and stores it; read is the custodians it read.
Building(kind, read) == [stage |-> "build", kind |-> kind, read |-> read]
Storing(stage, kind, read, kek, left, sealed) ==
  [stage |-> stage, kind |-> kind, read |-> read, kek |-> kek,
   left |-> left, sealed |-> sealed]
\* A command that issues tokens.
Issuing(stage, left, tokens) == [stage |-> stage, left |-> left, tokens |-> tokens]

CommandStates ==
  {Ready} \union [stage: {"build"}, kind: Kinds, read: [Machines -> Keys]]
    \union [stage: {"created", "shares"}, kind: Kinds, read: [Machines -> Keys],
            kek: Keks, left: Seq(Shares), sealed: SUBSET Shares]
    \union [stage: {"rows", "handOut"}, left: Seq(Tokens), tokens: SUBSET Tokens]

Become(w, state) == command' = [command EXCEPT ![w] = state]

At(w, stage) == command[w].stage = stage

-----------------------------------------------------------------------------
Init ==
  /\ KeyStoreInit
  /\ custodians = Enrolled
  /\ bundles = [kind \in Kinds |-> NoBundle]
  /\ shares = {}
  /\ admits = {}
  /\ log = {}
  /\ command = [w \in Commands |-> Ready]
  /\ minted = 0
  /\ begun = 0
  /\ enrolments = 0
  /\ faults = 0
  /\ reported = {}
  /\ cards = {}
  /\ lastRead = {}

\* enrol-custodian: the operator types the key the custodian's machine has
\* shown, or mistypes it; a custodian enrolled before is updated.
Enrol(c) ==
  /\ enrolments < MaxEnrolments
  /\ \E key \in {Wrong} \union {k.seed : k \in {k \in published :
                                   k.machine = c /\ k.name = BoxKey}} :
       key # custodians[c] /\ custodians' = [custodians EXCEPT ![c] = key]
  /\ enrolments' = enrolments + 1
  /\ UNCHANGED <<keyVars, bundles, shares, admits, log, command, minted, begun,
                 faults, reported, cards, lastRead>>

-----------------------------------------------------------------------------
(* provision                                                               *)

Holders(read) == {c \in Machines : read[c] # None}

\* The custodians in the order of their ids.
Recipients(read) ==
  CHOOSE to \in [1..Cardinality(Holders(read)) -> Holders(read)] :
    \A i, j \in DOMAIN to : i < j => to[i] < to[j]

\* Mutant: the envelopes are addressed in the wrong order.
ReversedSplit(kind, kek, coeffs, read) ==
  LET to    == Recipients(read)
      split == ShamirSplit(kek.id, kek.byte, coeffs, Len(to))
  IN [i \in DOMAIN to |-> [kind |-> kind, holder |-> to[i], share |-> split[i],
                           to |-> read[to[Len(to) + 1 - i]]]]

\* splitAndDestroy: share i goes to the i-th custodian, sealed to its key.
SplitAndDestroy(kind, kek, coeffs, read) ==
  LET to    == Recipients(read)
      split == ShamirSplit(kek.id, kek.byte, coeffs, Len(to))
  IN [i \in DOMAIN to |-> [kind |-> kind, holder |-> to[i], share |-> split[i],
                           to |-> read[to[i]]]]

StartProvision(w) ==
  /\ "provision" \in Operations
  /\ At(w, "ready") /\ begun < MaxBegun
  /\ Cardinality(Holders(custodians)) >= Threshold
  /\ begun' = begun + 1
  /\ Become(w, Building("paper", custodians))
  /\ UNCHANGED <<keyVars, tableVars, minted, enrolments, faults,
                 reported, cards, lastRead>>

\* Mutant: putBundle replaces a bundle that is there.
CanPutAgain(kind) == TRUE

\* The primary key of bundles.
CanPutBundle(kind) == bundles[kind] = NoBundle

\* There is a place of the field for every share.
CanSplit(read) == Cardinality(Holders(read)) <= Order

\* The key is made, the bundle encrypted, the key split and destroyed, and the
\* bundle stored: one statement is all that others can see of it.
Build(w) ==
  /\ At(w, "build")
  /\ LET kind == command[w].kind
         read == command[w].read
     IN /\ CanPutBundle(kind) /\ CanSplit(read)
        /\ \E byte \in Secrets, coeffs \in [1..(Threshold - 1) -> Coefficients] :
             LET kek    == [id |-> minted + 1, byte |-> byte]
                 sealed == SplitAndDestroy(kind, kek, coeffs, read)
             IN /\ minted' = minted + 1
                /\ bundles' = [bundles EXCEPT ![kind] = kek]
                /\ Become(w, Storing("created", kind, read, kek, sealed, Range(sealed)))
  /\ UNCHANGED <<keyVars, custodians, shares, admits, log, begun, enrolments,
                 faults, reported, cards, lastRead>>

\* The key cannot be split or the bundle exists: the command ends with nothing
\* stored, and the key is in no table.
BuildRefused(w) ==
  /\ At(w, "build")
  /\ ~(CanPutBundle(command[w].kind) /\ CanSplit(command[w].read))
  /\ Become(w, Ready)
  /\ lastRead' = {command[w].read}
  /\ UNCHANGED <<keyVars, tableVars, minted, begun, enrolments, faults,
                 reported, cards>>

AppendCreated(w) ==
  /\ At(w, "created")
  /\ log' = log \union {Created(command[w].kind, command[w].kek)}
  /\ Become(w, [command[w] EXCEPT !.stage = "shares"])
  /\ UNCHANGED <<keyVars, custodians, bundles, shares, admits, otherVars>>

PutShare(w) ==
  /\ At(w, "shares") /\ command[w].left # <<>>
  /\ LET row == Head(command[w].left)
     IN IF \E s \in shares : s.kind = row.kind /\ s.holder = row.holder
          THEN Become(w, Ready) /\ UNCHANGED shares
          ELSE /\ shares' = shares \union {row}
               /\ Become(w, [command[w] EXCEPT !.left = Tail(@)])
  /\ UNCHANGED <<keyVars, custodians, bundles, admits, log, otherVars>>

\* Mutant: the entry is appended before the shares are stored.
AllSharesAnyway(w) == At(w, "shares")

AllSharesStored(w) == At(w, "shares") /\ command[w].left = <<>>

\* The last entry of a bundle; then the next bundle, or the command's success.
AppendIssued(w) ==
  /\ AllSharesStored(w)
  /\ LET kind == command[w].kind
         read == command[w].read
     IN /\ log' = log \union {Issued(kind, command[w].sealed)}
        /\ IF kind = "paper"
             THEN Become(w, Building("answers", read)) /\ UNCHANGED <<reported, lastRead>>
             ELSE /\ Become(w, Ready)
                  /\ reported' = reported \union {read}
                  /\ lastRead' = {read}
  /\ UNCHANGED <<keyVars, custodians, bundles, shares, admits, minted, begun,
                 enrolments, faults, cards>>

-----------------------------------------------------------------------------
(* issue-admit                                                             *)

\* Every token is signed first.
StartAdmit(w) ==
  /\ "admit" \in Operations
  /\ At(w, "ready") /\ begun < MaxBegun
  /\ begun' = begun + 1
  /\ \E roster \in Rosters :
       LET tokens == [i \in DOMAIN roster |-> [who |-> roster[i].who,
                        seat |-> roster[i].seat, issue |-> begun + 1]]
       IN Become(w, Issuing("rows", tokens, Range(tokens)))
  /\ UNCHANGED <<keyVars, tableVars, minted, enrolments, faults,
                 reported, cards, lastRead>>

\* Mutant: the table has no key over seats.
AnySeatFree(seat) == TRUE

\* The unique key over exam, centre and seat.
SeatFree(seat) == \A t \in admits : t.seat # seat

\* A seat that is taken ends the command; the rows before it stay.
PutToken(w) ==
  /\ At(w, "rows") /\ command[w].left # <<>>
  /\ LET token == Head(command[w].left)
     IN IF SeatFree(token.seat)
          THEN /\ admits' = admits \union {token}
               /\ Become(w, [command[w] EXCEPT !.left = Tail(@)])
          ELSE Become(w, Ready) /\ UNCHANGED admits
  /\ UNCHANGED <<keyVars, custodians, bundles, shares, log, otherVars>>

AppendAdmits(w) ==
  /\ At(w, "rows") /\ command[w].left = <<>>
  /\ log' = log \union {AdmitsIssued(command[w].tokens)}
  /\ Become(w, [command[w] EXCEPT !.stage = "handOut"])
  /\ UNCHANGED <<keyVars, custodians, bundles, shares, admits, otherVars>>

\* The command writes the tokens to a file.
HandOut(w) ==
  /\ At(w, "handOut")
  /\ cards' = cards \union command[w].tokens
  /\ Become(w, Ready)
  /\ UNCHANGED <<keyVars, tableVars, minted, begun, enrolments, faults,
                 reported, lastRead>>

-----------------------------------------------------------------------------
\* A command dies, or a statement or an append fails.
Fail(w) ==
  /\ ~At(w, "ready")
  /\ faults < MaxFaults
  /\ faults' = faults + 1
  /\ Become(w, Ready)
  /\ UNCHANGED <<keyVars, tableVars, minted, begun, enrolments, reported, cards, lastRead>>

CommandStep(w) ==
  \/ StartProvision(w) \/ Build(w) \/ BuildRefused(w) \/ AppendCreated(w)
  \/ PutShare(w) \/ AppendIssued(w)
  \/ StartAdmit(w) \/ PutToken(w) \/ AppendAdmits(w) \/ HandOut(w) \/ Fail(w)

KeyStep == KeyStoreNext /\ UNCHANGED <<tableVars, command, otherVars>>

Next == \/ KeyStep
        \/ \E c \in Machines : Enrol(c)
        \/ \E w \in Commands : CommandStep(w)

Spec == Init /\ [][Next]_vars

-----------------------------------------------------------------------------
TypeOK ==
  /\ KeyStoreTypeOK
  /\ custodians \in [Machines -> Keys]
  /\ bundles \in [Kinds -> Keks \union {NoBundle}]
  /\ shares \subseteq Shares
  /\ admits \subseteq Tokens
  /\ log \subseteq Facts
  /\ command \in [Commands -> CommandStates]
  /\ minted \in Nat /\ begun \in Nat /\ enrolments \in Nat /\ faults \in Nat
  /\ reported \subseteq [Machines -> Keys]
  /\ cards \subseteq Tokens
  /\ lastRead \subseteq [Machines -> Keys]

SharesOf(kind) == {s \in shares : s.kind = kind}

(* A stored share can be opened by the custodian it belongs to: unless the *)
(* operator mistyped the key, it is sealed to a key on the file of that    *)
(* custodian's machine, whatever the machine's programs did before and     *)
(* after (kek-engine.ts splitAndDestroy, keystore.ts flush).               *)
SharesOpen ==
  \A s \in shares : s.to # Wrong /\ s.holder \notin overtaken =>
    /\ disk[s.holder] # NoFile
    /\ [machine |-> s.holder, name |-> BoxKey, seed |-> s.to]
         \in Shown(s.holder, disk[s.holder].entries)

\* Every polynomial of a split, by its values.
Polynomials ==
  {[x \in Field |-> GfPolyEval(coeffs, x)] : coeffs \in [1..Threshold -> Field]}

\* Up to four shares of any byte by any polynomial: as many as its threshold,
\* in any order, give back the byte.
SharingIsExact ==
  \A n \in 2..4, t \in 2..3 : t <= n /\ n <= Order =>
    \A coeffs \in [1..t -> Field] :
      LET split == ShamirSplit(1, Head(coeffs), Tail(coeffs), n)
      IN \A order \in [1..t -> 1..n] : IsInjective(order) =>
           LET blobs == [i \in 1..t |-> split[order[i]]]
           IN Combinable(blobs) /\ ShamirCombine(blobs) = Head(coeffs)

(* Any Threshold of the shares stored for a bundle give back the byte of   *)
(* the bundle's key, in any order, and fewer fit every byte equally well   *)
(* (crypto/src/shamir.ts: "t-1 reveal nothing").  Holds after any failure  *)
(* and any overlap of provisioning commands: shares of two splits are      *)
(* never found together, nor with the bundle of another key.               *)
ThresholdIsExact ==
  /\ SharingIsExact
  /\ \A kind \in Kinds :
       LET blobs == {s.share : s \in SharesOf(kind)}
       IN /\ \A some \in [1..Threshold -> blobs] :
               IsInjective(some) =>
                 Combinable(some) /\ ShamirCombine(some) = bundles[kind].byte
          /\ \A few \in [1..(Threshold - 1) -> blobs] :
               {f[0] : f \in {f \in Polynomials :
                                 \A i \in DOMAIN few : f[few[i].x] = few[i].y}} = Field

(* What a provisioning command that succeeded reported can be released:    *)
(* both bundles are stored, with exactly one share for each custodian it   *)
(* read, sealed to the key it read, and both entries of each in the log.   *)
(* No other command, overlapping or repeated, can replace a part of it.    *)
ReportedIsReleasable ==
  \A read \in reported, kind \in Kinds :
    /\ bundles[kind] # NoBundle
    /\ {<<s.holder, s.to>> : s \in SharesOf(kind)} = {<<c, read[c]>> : c \in Holders(read)}
    /\ Cardinality(SharesOf(kind)) = Cardinality(Holders(read))
    /\ \A s \in SharesOf(kind) : s.share.set = bundles[kind].id
    /\ Created(kind, bundles[kind]) \in log
    /\ Issued(kind, SharesOf(kind)) \in log

(* The log never runs ahead of the tables: what an entry says was created  *)
(* or issued is stored, whatever died since; of a bundle at most one       *)
(* creation and one issue are stated.  The audit takes the log's word.     *)
IssuedIsStored ==
  /\ \A f \in log :
       /\ f.type = "BUNDLE_CREATED" => bundles[f.kind] = f.kek
       /\ f.type = "SHARES_ISSUED" =>
            f.shares = SharesOf(f.kind) /\ Created(f.kind, bundles[f.kind]) \in log
       /\ f.type = "ADMIT_TOKENS_ISSUED" => f.tokens \subseteq admits

(* Every admit token in a candidate's hands has its row and its hash in    *)
(* the log, and no seat has two of them, though issue-admit stores tokens  *)
(* one by one and may stop half way or meet another issue-admit.           *)
CardsAreOnRecord ==
  /\ cards \subseteq admits
  /\ \A card \in cards :
       \E f \in log : f.type = "ADMIT_TOKENS_ISSUED" /\ card \in f.tokens
  /\ \A one, two \in cards : one.seat = two.seat => one = two

(* What the key ceremony's runbook says of a share that cannot be opened:  *)
(* step 1 again with the right key, then step 2, replaces the shares.      *)
(* When the last provisioning came to its end and none is in progress, no  *)
(* share is sealed to a wrong key of a custodian whose right key it read.  *)
RepeatedStep2Reissues ==
  (\A w \in Commands : At(w, "ready")) =>
    ~ \E read \in lastRead, s \in shares : s.to = Wrong /\ read[s.holder] # Wrong

=============================================================================
