----------------------- MODULE CertificateAuthority -----------------------
(***************************************************************************)
(* The internal certificate authority (ca/src): zw-ca commands, each a     *)
(* process that reads ca.json when it opens the directory (ca.ts, open),   *)
(* decides on its copy, and writes whole files one after another, and the  *)
(* services that hold a CRL in memory and check their peers against it     *)
(* (ca/src/mtls.ts, loaded by authority/src/daemon.ts).                    *)
(*                                                                         *)
(*  - A command is: Open; the decisions of its operation, which come to a  *)
(*    list of files to write; the writes, each an atomic rename            *)
(*    (writeFileAtomic); Reply.  Nothing locks the directory.              *)
(*  - A command may end between any two of its steps: Fail.                *)
(*  - A service reads the CRL once, when it starts.                        *)
(*                                                                         *)
(* Serials are random; the model draws 1, 2, 3, ...  A certificate is its  *)
(* subject (role, name, hardware and SANs in one), its issuer and whether  *)
(* it was revoked; its PEM, usages and expiry are left out.  keys is all   *)
(* private keys on file, the root's also when it was moved to offline      *)
(* media.  delivered, annulled and overwritten are history.                *)
(* MaxSerials, MaxCommands and MaxTime only bound the model; begun counts  *)
(* the commands for it.                                                    *)
(***************************************************************************)
EXTENDS Integers, Sequences, FiniteSets

CONSTANTS
  Commands,     \* processes, one zw-ca command at a time each
  Identities,   \* subjects of leaf certificates
  Services,     \* that check their peers
  RootCa, IssuingCa, \* the two other subjects
  Absent,       \* no certificate of that serial
  Validity,     \* of a CRL (--hours)
  MaxSerials, MaxCommands, MaxTime

VARIABLES
  clock,
  ca,           \* ca.json
  keys,         \* private/*.key.pem: the serials
  crl,          \* crl.pem
  loaded,       \* the CRL each service has in memory
  task,         \* what each command is in the middle of
  minted,       \* serials drawn
  begun,        \* commands begun
  delivered,    \* certificates returned to an operator
  annulled,     \* serials an operator was told are revoked
  overwritten   \* a command has replaced a ca.json it had not read

vars == <<clock, ca, keys, crl, loaded, task, minted, begun,
          delivered, annulled, overwritten>>

Files   == <<ca, keys, crl, overwritten>>
History == <<delivered, annulled>>

Serials  == 1..MaxSerials
Subjects == Identities \union {RootCa, IssuingCa}
None     == 0                             \* no serial
Valid    == [at |-> -1, why |-> "valid"]  \* not revoked
Reasons  == {"superseded", "keyCompromise"}

Revocations  == {Valid} \union [at: 0..MaxTime, why: Reasons]
Certificates == [subject: Subjects, issuer: Serials \union {None},
                 revoked: Revocations]

ASSUME CaAssumption ==
  /\ {RootCa, IssuingCa} \intersect Identities = {} /\ RootCa # IssuingCa
  /\ Validity \in Nat
  /\ MaxSerials \in Nat /\ MaxCommands \in Nat /\ MaxTime \in Nat
  /\ Absent \notin Certificates

\* The contents of ca.json; NoCa when the file is absent.
CaStates == [certificates: [Serials -> Certificates \union {Absent}],
             active: Serials \union {None}, crlNumber: Nat]
NoCa == [certificates |-> [s \in Serials |-> Absent], active |-> None, crlNumber |-> 0]

\* A CRL; until is its nextUpdate.
Crls  == [serials: SUBSET Serials, until: 0..(MaxTime + Validity)]
NoCrl == [serials |-> {}, until |-> -1]

\* The files a command writes.
KeyFile(s)   == [file |-> "key", key |-> s]
CaFile(next) == [file |-> "ca", ca |-> next]
CrlFile(c)   == [file |-> "crl", crl |-> c]
Writes == [file: {"key"}, key: Serials] \union [file: {"ca"}, ca: CaStates]
            \union [file: {"crl"}, crl: Crls]

\* A command that has opened the directory, and one that writes its files.
Opened(base)                == [stage |-> "opened", base |-> base]
Writing(base, files, reply) == [stage |-> "writing", base |-> base, files |-> files,
                                reply |-> reply]

Idle    == [stage |-> "idle"]
Replies == [certs: SUBSET Serials, revoked: SUBSET Serials]
Nothing == [certs |-> {}, revoked |-> {}]

TaskStates ==
  {Idle} \union [stage: {"opened"}, base: CaStates]
         \union [stage: {"writing"}, base: CaStates, files: Seq(Writes), reply: Replies]

Become(t, state) == task' = [task EXCEPT ![t] = state]

-----------------------------------------------------------------------------
(* What the operations read from and do to a copy of ca.json.              *)

OnRecord(c) == {s \in Serials : c.certificates[s] # Absent}

IsRevoked(c, s) == c.certificates[s].revoked # Valid

\* record, then push: a new certificate.
WithCertificate(c, s, subject, issuer) ==
  [c EXCEPT !.certificates =
    [@ EXCEPT ![s] = [subject |-> subject, issuer |-> issuer, revoked |-> Valid]]]

\* issueIntermediate: the new certificate also becomes the issuer.
WithIntermediate(c, s, root) ==
  [WithCertificate(c, s, IssuingCa, root) EXCEPT !.active = s]

\* Mutant: the date of the revocation is not recorded.
WithRevocationUndated(c, s, why) ==
  LET old == c.certificates[s]
  IN [c EXCEPT !.certificates =
       [@ EXCEPT ![s] = [subject |-> old.subject, issuer |-> old.issuer,
                         revoked |-> [why |-> why]]]]

WithRevocation(c, s, why) ==
  LET old == c.certificates[s]
  IN [c EXCEPT !.certificates =
       [@ EXCEPT ![s] = [subject |-> old.subject, issuer |-> old.issuer,
                         revoked |-> [at |-> clock, why |-> why]]]]

IsRoot(c, s) == s \in OnRecord(c) /\ c.certificates[s].subject = RootCa

IsLeaf(c, s) == s \in OnRecord(c) /\ c.certificates[s].subject \in Identities

\* activeIssuer: there is one, it is not revoked, and its key can be read.
CanSign(c) ==
  /\ c.active \in OnRecord(c)
  /\ ~IsRevoked(c, c.active)
  /\ c.active \in keys

\* The certificates a CRL lists: only those of the issuer that signs it.
Listed(c) ==
  {s \in OnRecord(c) : IsRevoked(c, s) /\ c.certificates[s].issuer = c.active}

-----------------------------------------------------------------------------
Init ==
  /\ clock = 0
  /\ ca = NoCa
  /\ keys = {}
  /\ crl = NoCrl
  /\ loaded = [v \in Services |-> NoCrl]
  /\ task = [t \in Commands |-> Idle]
  /\ minted = 0
  /\ begun = 0
  /\ delivered = {}
  /\ annulled = {}
  /\ overwritten = FALSE

Tick ==
  /\ clock < MaxTime
  /\ clock' = clock + 1
  /\ UNCHANGED <<Files, History, loaded, task, minted, begun>>

-----------------------------------------------------------------------------
(* A command begins: ca.json is read, whole.                               *)

Open(t) ==
  /\ task[t] = Idle
  /\ begun < MaxCommands
  /\ begun' = begun + 1
  /\ Become(t, Opened(ca))
  /\ UNCHANGED <<clock, Files, loaded, minted, History>>

Deciding(t) == task[t].stage = "opened"

\* It draws n serials and goes on to write its files.
Proceed(t, n, files, reply) ==
  /\ minted + n <= MaxSerials
  /\ minted' = minted + n
  /\ Become(t, Writing(task[t].base, files, reply))
  /\ UNCHANGED <<clock, Files, loaded, begun, delivered, annulled>>

\* initialize.
Initialize(t) ==
  LET c    == task[t].base
      root == minted + 1
      int  == minted + 2
      next == WithIntermediate(WithCertificate(c, root, RootCa, None), int, root)
  IN /\ Deciding(t)
     /\ OnRecord(c) = {}
     /\ Proceed(t, 2, <<KeyFile(int), CaFile(next), KeyFile(root)>>,
                [certs |-> {root, int}, revoked |-> {}])

\* Mutant: the key is written last, as the root's is.
RotateIntermediateKeyLast(t) ==
  LET c   == task[t].base
      int == minted + 1
  IN /\ Deciding(t)
     /\ \E root \in keys :
          /\ IsRoot(c, root)
          /\ Proceed(t, 1, <<CaFile(WithIntermediate(c, int, root)), KeyFile(int)>>,
                     [certs |-> {int}, revoked |-> {}])

\* rotateIntermediate; the operator has the root's key at hand (--root-key).
RotateIntermediate(t) ==
  LET c   == task[t].base
      int == minted + 1
  IN /\ Deciding(t)
     /\ \E root \in keys :
          /\ IsRoot(c, root)
          /\ Proceed(t, 1, <<KeyFile(int), CaFile(WithIntermediate(c, int, root))>>,
                     [certs |-> {int}, revoked |-> {}])

\* issue.
Issue(t, id) ==
  LET c == task[t].base
      s == minted + 1
  IN /\ Deciding(t)
     /\ CanSign(c)
     /\ Proceed(t, 1, <<CaFile(WithCertificate(c, s, id, c.active))>>,
                [certs |-> {s}, revoked |-> {}])

\* Mutant: revoke first, then issue.
RotateRevokingFirst(t, old) ==
  LET c       == task[t].base
      new     == minted + 1
      revoked == WithRevocation(c, old, "superseded")
  IN /\ Deciding(t)
     /\ IsLeaf(c, old)
     /\ CanSign(c)
     /\ ~IsRevoked(c, old)
     /\ Proceed(t, 1, <<CaFile(revoked),
                        CaFile(WithCertificate(revoked, new, c.certificates[old].subject,
                                               c.active))>>,
                [certs |-> {new}, revoked |-> {old}])

\* rotate: issue a replacement, then revoke; revoke throws when that was
\* done before, and the replacement, already on record, is not returned.
Rotate(t, old) ==
  LET c      == task[t].base
      new    == minted + 1
      issued == WithCertificate(c, new, c.certificates[old].subject, c.active)
  IN /\ Deciding(t)
     /\ IsLeaf(c, old)
     /\ CanSign(c)
     /\ \/ /\ ~IsRevoked(c, old)
           /\ Proceed(t, 1, <<CaFile(issued),
                              CaFile(WithRevocation(issued, old, "superseded"))>>,
                      [certs |-> {new}, revoked |-> {old}])
        \/ /\ IsRevoked(c, old)
           /\ Proceed(t, 1, <<CaFile(issued)>>, Nothing)

\* revoke; the model keeps the reason "superseded" for rotations.
Revoke(t, s) ==
  LET c == task[t].base
  IN /\ Deciding(t)
     /\ s \in OnRecord(c)
     /\ ~IsRevoked(c, s)
     /\ Proceed(t, 0, <<CaFile(WithRevocation(c, s, "keyCompromise"))>>,
                [certs |-> {}, revoked |-> {s}])

\* generateCrl: the counter is stored before the CRL is.
GenerateCrl(t) ==
  LET c    == task[t].base
      next == [c EXCEPT !.crlNumber = @ + 1]
  IN /\ Deciding(t)
     /\ CanSign(c)
     /\ Proceed(t, 0, <<CaFile(next),
                        CrlFile([serials |-> Listed(next), until |-> clock + Validity])>>,
                Nothing)

\* A CaError before anything is written (ALREADY_INITIALIZED, NO_ISSUER,
\* UNKNOWN_CERT, ...); in every state there are requests that meet one.
Refuse(t) ==
  /\ Deciding(t)
  /\ Become(t, Idle)
  /\ UNCHANGED <<clock, Files, loaded, minted, begun, History>>

-----------------------------------------------------------------------------
(* The files are written in turn, then the operator is answered.           *)

NextFile(t, kind) ==
  /\ task[t].stage = "writing"
  /\ task[t].files # <<>>
  /\ Head(task[t].files).file = kind

WriteKey(t) ==
  /\ NextFile(t, "key")
  /\ keys' = keys \union {Head(task[t].files).key}
  /\ Become(t, [task[t] EXCEPT !.files = Tail(@)])
  /\ UNCHANGED <<clock, ca, crl, overwritten, loaded, minted, begun, History>>

\* persist.
Persist(t) ==
  /\ NextFile(t, "ca")
  /\ ca' = Head(task[t].files).ca
  /\ overwritten' = (overwritten \/ ca # task[t].base)
  /\ Become(t, Writing(ca', Tail(task[t].files), task[t].reply))
  /\ UNCHANGED <<clock, keys, crl, loaded, minted, begun, History>>

WriteCrl(t) ==
  /\ NextFile(t, "crl")
  /\ crl' = Head(task[t].files).crl
  /\ Become(t, [task[t] EXCEPT !.files = Tail(@)])
  /\ UNCHANGED <<clock, ca, keys, overwritten, loaded, minted, begun, History>>

\* Mutant: the writes are not awaited, and the process ends.
ReplyAtOnce(t) ==
  /\ task[t].stage = "writing"
  /\ delivered' = delivered \union task[t].reply.certs
  /\ annulled' = annulled \union task[t].reply.revoked
  /\ Become(t, Idle)
  /\ UNCHANGED <<clock, Files, loaded, minted, begun>>

Reply(t) ==
  /\ task[t].stage = "writing"
  /\ task[t].files = <<>>
  /\ delivered' = delivered \union task[t].reply.certs
  /\ annulled' = annulled \union task[t].reply.revoked
  /\ Become(t, Idle)
  /\ UNCHANGED <<clock, Files, loaded, minted, begun>>

\* A write fails, or the process ends: what is written stays.
Fail(t) ==
  /\ task[t] # Idle
  /\ Become(t, Idle)
  /\ UNCHANGED <<clock, Files, loaded, minted, begun, History>>

-----------------------------------------------------------------------------
(* Services.                                                               *)

\* assertFresh.
IsFresh(c) == clock <= c.until

\* Starting, or starting again: the CRL must be there and fresh (I-CA-3).
StartService(v) ==
  /\ crl # NoCrl
  /\ IsFresh(crl)
  /\ loaded' = [loaded EXCEPT ![v] = crl]
  /\ UNCHANGED <<clock, Files, History, task, minted, begun>>

\* Mutant: freshness is only checked when the service starts.
AcceptsOnceStarted(v, s) == loaded[v] # NoCrl /\ s \notin loaded[v].serials

\* checkPeerCertificate of a peer that presents certificate s, by a service
\* that is running.
Accepts(v, s) == IsFresh(loaded[v]) /\ s \notin loaded[v].serials

-----------------------------------------------------------------------------
Next ==
  \/ Tick
  \/ \E v \in Services : StartService(v)
  \/ \E t \in Commands :
       \/ Open(t)
       \/ Initialize(t) \/ RotateIntermediate(t) \/ GenerateCrl(t) \/ Refuse(t)
       \/ \E id \in Identities : Issue(t, id)
       \/ \E s \in Serials : Rotate(t, s) \/ Revoke(t, s)
       \/ WriteKey(t) \/ Persist(t) \/ WriteCrl(t) \/ Reply(t) \/ Fail(t)

Spec == Init /\ [][Next]_vars

-----------------------------------------------------------------------------
TypeOK ==
  /\ clock \in 0..MaxTime
  /\ ca \in CaStates
  /\ keys \subseteq Serials
  /\ crl \in Crls \union {NoCrl}
  /\ loaded \in [Services -> Crls \union {NoCrl}]
  /\ task \in [Commands -> TaskStates]
  /\ minted \in 0..MaxSerials
  /\ begun \in 0..MaxCommands
  /\ delivered \subseteq Serials
  /\ annulled \subseteq Serials
  /\ overwritten \in BOOLEAN

(***************************************************************************)
(* Whatever commands overlap and wherever they end, the issuer that        *)
(* ca.json names is on record and has its private key on file: the key is  *)
(* written before the state that needs it (issueIntermediate).             *)
(***************************************************************************)
ActiveHasKey == ca.active # None => ca.active \in OnRecord(ca) /\ ca.active \in keys

(***************************************************************************)
(* A certificate that a rotation superseded has a successor of the same    *)
(* identity on record, also after a rotation that ended half way and after *)
(* commands that overwrote each other's state: rotation leaves no identity *)
(* with none (the comment on rotate).                                      *)
(***************************************************************************)
SupersededHasSuccessor ==
  \A s \in OnRecord(ca) :
    ca.certificates[s].revoked.why = "superseded" =>
      \E n \in OnRecord(ca) :
        n > s /\ ca.certificates[n].subject = ca.certificates[s].subject

(***************************************************************************)
(* What an operator was told is on record: the certificates they hold can  *)
(* be found (and revoked), the serials they revoked are revoked.  Commands *)
(* may end anywhere and may overlap as long as none replaces a state that  *)
(* it has not read: then, and only then, records can be lost.              *)
(***************************************************************************)
AckedIsOnRecord ==
  overwritten \/ ( /\ delivered \subseteq OnRecord(ca)
                   /\ \A s \in annulled : s \in OnRecord(ca) /\ IsRevoked(ca, s))

(***************************************************************************)
(* A revoked leaf of the active intermediate is accepted by no service for *)
(* longer than one CRL is valid, even when services keep the CRL they      *)
(* loaded and CRLs replace each other out of order: staleness fails        *)
(* closed (I-CA-3).                                                        *)
(***************************************************************************)
ExposureIsBounded ==
  overwritten \/
    \A v \in Services, s \in OnRecord(ca) :
      IsRevoked(ca, s) /\ ca.certificates[s].issuer = ca.active /\ Accepts(v, s)
        => clock <= ca.certificates[s].revoked.at + Validity

-----------------------------------------------------------------------------
(***************************************************************************)
(* A revoked leaf is accepted by no service for longer than a CRL that was *)
(* published before is valid.                                              *)
(* ca.ts:332, of the certificates of a previous intermediate: they "remain *)
(* valid until they expire or are individually revoked."                   *)
(***************************************************************************)
RevocationTakesEffect ==
  overwritten \/
    \A v \in Services, s \in OnRecord(ca) :
      IsLeaf(ca, s) /\ IsRevoked(ca, s) /\ Accepts(v, s)
        => clock <= ca.certificates[s].revoked.at + Validity

=============================================================================
