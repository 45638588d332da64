--------------------- MODULE CertificateAuthorityProofs ---------------------
(***************************************************************************)
(* Theorems about CertificateAuthority, for any commands, identities and   *)
(* services and any bounds.                                                *)
(***************************************************************************)
EXTENDS CertificateAuthority, SequenceTheorems, TLAPS

-----------------------------------------------------------------------------
(* What the operators on a copy of ca.json do.                             *)

LEMMA NoCaFacts == NoCa \in CaStates /\ OnRecord(NoCa) = {} /\ NoCa.active = None
  BY CaAssumption DEF NoCa, CaStates, OnRecord, None

LEMMA AbsentFacts == Absent \notin Certificates /\ Validity \in Nat
  BY CaAssumption

LEMMA WithCertificateFacts ==
  ASSUME NEW c \in CaStates, NEW s \in Serials, NEW subject \in Subjects,
         NEW issuer \in Serials \union {None}
  PROVE  LET d == WithCertificate(c, s, subject, issuer)
         IN /\ d \in CaStates
            /\ d.active = c.active /\ d.crlNumber = c.crlNumber
            /\ d.certificates[s].subject = subject
            /\ d.certificates[s].issuer = issuer
            /\ d.certificates[s].revoked = Valid
            /\ \A x \in Serials \ {s} : d.certificates[x] = c.certificates[x]
            /\ OnRecord(d) = OnRecord(c) \union {s}
<1> DEFINE new == [subject |-> subject, issuer |-> issuer, revoked |-> Valid]
           f   == [c.certificates EXCEPT ![s] = new]
           d   == WithCertificate(c, s, subject, issuer)
<1>1. new \in Certificates
  BY DEF Certificates, Revocations
<1>2. /\ c.certificates \in [Serials -> Certificates \union {Absent}]
      /\ c.active \in Serials \union {None} /\ c.crlNumber \in Nat
  BY DEF CaStates
<1>3. /\ f \in [Serials -> Certificates \union {Absent}]
      /\ f[s] = new /\ \A x \in Serials \ {s} : f[x] = c.certificates[x]
  <2> HIDE DEF new
  <2> QED BY <1>1, <1>2
<1>4. d = [certificates |-> f, active |-> c.active, crlNumber |-> c.crlNumber]
  BY DEF WithCertificate, CaStates
<1>5. d.certificates = f /\ d.active = c.active /\ d.crlNumber = c.crlNumber
      /\ d \in CaStates
  <2> HIDE DEF f, d
  <2> QED BY <1>2, <1>3, <1>4 DEF CaStates
<1>6. OnRecord(d) = OnRecord(c) \union {s}
  <2> HIDE DEF f, d, new
  <2> QED BY <1>1, <1>3, <1>5, AbsentFacts DEF OnRecord
<1> QED BY <1>3, <1>5, <1>6

LEMMA WithRevocationFacts ==
  ASSUME NEW c \in CaStates, NEW s \in OnRecord(c), NEW why \in Reasons,
         clock \in 0..MaxTime
  PROVE  LET d == WithRevocation(c, s, why)
         IN /\ d \in CaStates
            /\ d.active = c.active /\ d.crlNumber = c.crlNumber
            /\ d.certificates[s].subject = c.certificates[s].subject
            /\ d.certificates[s].issuer = c.certificates[s].issuer
            /\ d.certificates[s].revoked.at = clock
            /\ d.certificates[s].revoked.why = why
            /\ \A x \in Serials \ {s} : d.certificates[x] = c.certificates[x]
            /\ OnRecord(d) = OnRecord(c)
<1> DEFINE old == c.certificates[s]
           new == [subject |-> old.subject, issuer |-> old.issuer,
                   revoked |-> [at |-> clock, why |-> why]]
           f   == [c.certificates EXCEPT ![s] = new]
           d   == WithRevocation(c, s, why)
<1>1. s \in Serials /\ old \in Certificates
  BY DEF OnRecord, CaStates
<1>2. new \in Certificates
  BY <1>1 DEF Certificates, Revocations
<1>3. /\ c.certificates \in [Serials -> Certificates \union {Absent}]
      /\ c.active \in Serials \union {None} /\ c.crlNumber \in Nat
  BY DEF CaStates
<1>4. /\ f \in [Serials -> Certificates \union {Absent}]
      /\ f[s] = new /\ \A x \in Serials \ {s} : f[x] = c.certificates[x]
  <2> HIDE DEF new
  <2> QED BY <1>1, <1>2, <1>3
<1>5. d = [certificates |-> f, active |-> c.active, crlNumber |-> c.crlNumber]
  BY DEF WithRevocation, CaStates
<1>6. d.certificates = f /\ d.active = c.active /\ d.crlNumber = c.crlNumber
      /\ d \in CaStates
  <2> HIDE DEF f, d
  <2> QED BY <1>3, <1>4, <1>5 DEF CaStates
<1>7. OnRecord(d) = OnRecord(c)
  <2> HIDE DEF f, d, new
  <2> QED BY <1>1, <1>2, <1>4, <1>6, AbsentFacts DEF OnRecord
<1> QED BY <1>4, <1>6, <1>7

LEMMA WithIntermediateFacts ==
  ASSUME NEW c \in CaStates, NEW s \in Serials, NEW root \in Serials
  PROVE  LET d == WithIntermediate(c, s, root)
         IN /\ d \in CaStates
            /\ d.active = s /\ d.crlNumber = c.crlNumber
            /\ d.certificates[s].subject = IssuingCa
            /\ d.certificates[s].issuer = root
            /\ d.certificates[s].revoked = Valid
            /\ \A x \in Serials \ {s} : d.certificates[x] = c.certificates[x]
            /\ OnRecord(d) = OnRecord(c) \union {s}
<1> DEFINE e == WithCertificate(c, s, IssuingCa, root)
           d == WithIntermediate(c, s, root)
<1>1. /\ e \in CaStates
      /\ e.crlNumber = c.crlNumber
      /\ e.certificates[s].subject = IssuingCa /\ e.certificates[s].issuer = root
      /\ e.certificates[s].revoked = Valid
      /\ \A x \in Serials \ {s} : e.certificates[x] = c.certificates[x]
      /\ OnRecord(e) = OnRecord(c) \union {s}
  <2>1. IssuingCa \in Subjects /\ root \in Serials \union {None}
    BY DEF Subjects
  <2> QED BY <2>1, WithCertificateFacts
<1>2. d = [e EXCEPT !.active = s]
  BY DEF WithIntermediate
<1> HIDE DEF e, d
<1>3. /\ d.certificates = e.certificates /\ d.active = s /\ d.crlNumber = e.crlNumber
      /\ d \in CaStates
  BY <1>1, <1>2 DEF CaStates
<1>4. OnRecord(d) = OnRecord(e)
  BY <1>3 DEF OnRecord
<1> QED BY <1>1, <1>3, <1>4 DEF d

-----------------------------------------------------------------------------
(* Types.                                                                  *)

LEMMA WritesFacts ==
  /\ \A s \in Serials : KeyFile(s) \in Writes
  /\ \A c \in CaStates : CaFile(c) \in Writes
  /\ \A c \in Crls : CrlFile(c) \in Writes
  /\ \A w \in Writes :
       /\ w.file \in {"key", "ca", "crl"}
       /\ w.file = "key" => w.key \in Serials
       /\ w.file = "ca" => w.ca \in CaStates
       /\ w.file = "crl" => w.crl \in Crls
  BY DEF Writes, KeyFile, CaFile, CrlFile

LEMMA TaskFacts ==
  ASSUME NEW x \in TaskStates
  PROVE  /\ x.stage \in {"idle", "opened", "writing"}
         /\ x.stage = "idle" <=> x = Idle
         /\ x.stage = "opened" => x.base \in CaStates /\ x = Opened(x.base)
         /\ x.stage = "writing" =>
              /\ x.base \in CaStates /\ x.files \in Seq(Writes) /\ x.reply \in Replies
              /\ x = Writing(x.base, x.files, x.reply)
  BY DEF TaskStates, Idle, Opened, Writing

LEMMA NewTaskFacts ==
  ASSUME NEW base \in CaStates
  PROVE  /\ Opened(base) \in TaskStates
         /\ Opened(base).stage = "opened" /\ Opened(base).base = base
         /\ \A q \in Seq(Writes), r \in Replies :
              /\ Writing(base, q, r) \in TaskStates
              /\ Writing(base, q, r).stage = "writing"
              /\ Writing(base, q, r).base = base
              /\ Writing(base, q, r).files = q
              /\ Writing(base, q, r).reply = r
  BY DEF TaskStates, Opened, Writing

LEMMA BecomeFacts ==
  ASSUME task \in [Commands -> TaskStates], NEW t \in Commands,
         NEW x \in TaskStates, Become(t, x)
  PROVE  /\ task' \in [Commands -> TaskStates]
         /\ task'[t] = x /\ \A u \in Commands \ {t} : task'[u] = task[u]
  BY DEF Become

\* The first write is done.
LEMMA TailFacts ==
  ASSUME NEW q \in Seq(Writes), q # <<>>
  PROVE  /\ Head(q) = q[1] /\ Head(q) \in Writes
         /\ Len(q) \in Nat /\ Len(q) >= 1
         /\ Tail(q) \in Seq(Writes)
         /\ Len(Tail(q)) = Len(q) - 1
         /\ \A k \in 1..Len(Tail(q)) : Tail(q)[k] = q[k + 1]
<1>1. Len(q) \in Nat /\ Len(q) >= 1
  BY EmptySeq, LenProperties
<1> QED BY <1>1, HeadTailProperties, LenProperties, ElementOfSeq

-----------------------------------------------------------------------------
(* What is said of one state, or of two, of ca.json.                       *)

\* Serials up to m have been drawn; the issuer and successors are on record.
Sound(c, m) ==
  /\ c.active # None => c.active \in OnRecord(c)
  /\ \A s \in OnRecord(c) : s <= m /\ c.certificates[s].issuer <= m
  /\ \A s \in OnRecord(c) :
       c.certificates[s].revoked.why = "superseded" =>
         \E n \in OnRecord(c) :
           n > s /\ c.certificates[n].subject = c.certificates[s].subject

\* c keeps all that is on record in b.
Extends(b, c) ==
  /\ b.crlNumber <= c.crlNumber
  /\ \A s \in OnRecord(b) :
       /\ s \in OnRecord(c)
       /\ c.certificates[s].subject = b.certificates[s].subject
       /\ c.certificates[s].issuer = b.certificates[s].issuer
       /\ IsRevoked(b, s) => c.certificates[s].revoked = b.certificates[s].revoked
  /\ c.active = b.active \/ (c.active \in OnRecord(c) /\ c.active \notin OnRecord(b))

\* c has what the answer r says.
Covers(c, r) ==
  /\ r.certs \subseteq OnRecord(c)
  /\ \A s \in r.revoked : s \in OnRecord(c) /\ IsRevoked(c, s)

\* What c revokes is listed by cr, or cr expires in time.
Bounded(cr, c) ==
  \A s \in OnRecord(c) :
    IsRevoked(c, s) /\ c.certificates[s].issuer = c.active =>
      s \in cr.serials \/ cr.until <= c.certificates[s].revoked.at + Validity

\* What c revokes is revoked in b, or was revoked now.
Recent(b, c) ==
  \A s \in OnRecord(c) :
    IsRevoked(c, s) /\ c.certificates[s].issuer = c.active =>
      \/ s \in OnRecord(b) /\ b.active = c.active /\ b.certificates[s] = c.certificates[s]
      \/ c.certificates[s].revoked.at = clock

LEMMA RecordFacts ==
  ASSUME NEW c \in CaStates, NEW s \in OnRecord(c)
  PROVE  /\ s \in Serials /\ c.certificates[s] \in Certificates
         /\ c.certificates[s].subject \in Subjects
         /\ c.certificates[s].issuer \in Serials \union {None}
         /\ c.certificates[s].revoked \in Revocations
         /\ c.certificates[s].revoked # Valid =>
              c.certificates[s].revoked.at \in 0..MaxTime
<1>1. s \in Serials /\ c.certificates[s] \in Certificates
  BY DEF OnRecord, CaStates
<1>2. c.certificates[s].revoked \in Revocations
  BY <1>1 DEF Certificates
<1> QED BY <1>1, <1>2 DEF Certificates, Revocations

LEMMA ExtendsReflexive ==
  ASSUME NEW c \in CaStates PROVE Extends(c, c)
  BY DEF Extends, CaStates

LEMMA ExtendsTransitive ==
  ASSUME NEW b \in CaStates, NEW c \in CaStates, NEW d \in CaStates,
         Extends(b, c), Extends(c, d)
  PROVE  Extends(b, d)
<1>1. b.crlNumber <= d.crlNumber
  BY DEF Extends, CaStates
<1>2. \A s \in OnRecord(b) :
       /\ s \in OnRecord(d)
       /\ d.certificates[s].subject = b.certificates[s].subject
       /\ d.certificates[s].issuer = b.certificates[s].issuer
       /\ IsRevoked(b, s) => d.certificates[s].revoked = b.certificates[s].revoked
  BY DEF Extends, IsRevoked
<1>3. d.active = b.active \/ (d.active \in OnRecord(d) /\ d.active \notin OnRecord(b))
  BY DEF Extends
<1> QED BY <1>1, <1>2, <1>3 DEF Extends

LEMMA ExtendsAntisymmetric ==
  ASSUME NEW b \in CaStates, NEW c \in CaStates, Extends(b, c), Extends(c, b)
  PROVE  b = c
<1>1. OnRecord(b) = OnRecord(c)
  BY DEF Extends
<1>2. ASSUME NEW s \in Serials PROVE b.certificates[s] = c.certificates[s]
  <2>1. CASE s \in OnRecord(b)
    <3>1. /\ b.certificates[s] \in Certificates /\ c.certificates[s] \in Certificates
      BY <1>1, <2>1, RecordFacts
    <3>2. /\ b.certificates[s].subject = c.certificates[s].subject
          /\ b.certificates[s].issuer = c.certificates[s].issuer
          /\ b.certificates[s].revoked = c.certificates[s].revoked
      BY <1>1, <2>1 DEF Extends, IsRevoked
    <3> QED BY <3>1, <3>2 DEF Certificates
  <2>2. CASE s \notin OnRecord(b)
    BY <1>1, <2>2 DEF OnRecord
  <2> QED BY <2>1, <2>2
<1>3. b.certificates = c.certificates
  BY <1>2 DEF CaStates
<1>4. b.active = c.active /\ b.crlNumber = c.crlNumber
  BY <1>1 DEF Extends, CaStates
<1> QED BY <1>3, <1>4 DEF CaStates

LEMMA CoversGrows ==
  ASSUME NEW b, NEW c, NEW r, Extends(b, c), Covers(b, r)
  PROVE  Covers(c, r)
  BY DEF Extends, Covers, IsRevoked

LEMMA SoundLater ==
  ASSUME NEW c \in CaStates, NEW m \in Nat, NEW n \in Nat, m <= n, Sound(c, m)
  PROVE  Sound(c, n)
<1>1. \A s \in OnRecord(c) : s <= n /\ c.certificates[s].issuer <= n
  BY RecordFacts DEF Sound, Serials, None
<1> QED BY <1>1 DEF Sound

\* A CRL written before the revocations of c expires soon enough after them.
LEMMA BoundedByRecent ==
  ASSUME NEW b \in CaStates, NEW c \in CaStates, NEW cr,
         Bounded(cr, b), Recent(b, c), cr.until <= clock + Validity
  PROVE  Bounded(cr, c)
  BY DEF Bounded, Recent, IsRevoked

-----------------------------------------------------------------------------
(* What one change of ca.json keeps.                                       *)

LEMMA IssueKeeps ==
  ASSUME NEW c \in CaStates, NEW m \in Nat, Sound(c, m),
         NEW s \in Serials, s \in Nat, m < s, NEW subject \in Subjects,
         NEW issuer \in Serials \union {None}, issuer <= s
  PROVE  LET d == WithCertificate(c, s, subject, issuer)
         IN /\ d \in CaStates /\ Sound(d, s) /\ Extends(c, d) /\ Recent(c, d)
            /\ d.active = c.active /\ OnRecord(d) = OnRecord(c) \union {s}
            /\ d.certificates[s].subject = subject
<1> DEFINE d == WithCertificate(c, s, subject, issuer)
<1>1. /\ d \in CaStates
      /\ d.active = c.active /\ d.crlNumber = c.crlNumber
      /\ d.certificates[s].subject = subject /\ d.certificates[s].issuer = issuer
      /\ d.certificates[s].revoked = Valid
      /\ \A x \in Serials \ {s} : d.certificates[x] = c.certificates[x]
      /\ OnRecord(d) = OnRecord(c) \union {s}
  BY WithCertificateFacts
<1> HIDE DEF d
<1>2. \A x \in OnRecord(c) : /\ x \in Serials \ {s}
                             /\ d.certificates[x] = c.certificates[x]
  BY <1>1, RecordFacts DEF Sound, Serials
<1>3. d.certificates[s].revoked = Valid /\ d.certificates[s].issuer = issuer
      /\ d.certificates[s].revoked.why # "superseded"
  BY <1>1 DEF Valid
<1>4. Extends(c, d)
  BY <1>1, <1>2 DEF Extends, CaStates
<1>5. Recent(c, d)
  BY <1>1, <1>2, <1>3 DEF Recent, IsRevoked
<1>6. Sound(d, s)
  <2>1. d.active # None => d.active \in OnRecord(d)
    BY <1>1 DEF Sound
  <2>2. \A x \in OnRecord(d) : x <= s /\ d.certificates[x].issuer <= s
    <3>1. \A x \in OnRecord(c) : x <= s /\ d.certificates[x].issuer <= s
      BY <1>2, SoundLater DEF Sound
    <3> QED BY <1>1, <1>3, <3>1
  <2>3. ASSUME NEW x \in OnRecord(d), d.certificates[x].revoked.why = "superseded"
        PROVE  \E y \in OnRecord(d) :
                 y > x /\ d.certificates[y].subject = d.certificates[x].subject
    <3>1. x \in OnRecord(c)
      BY <1>1, <1>3, <2>3
    <3>2. PICK y \in OnRecord(c) :
                 y > x /\ c.certificates[y].subject = c.certificates[x].subject
      BY <1>2, <2>3, <3>1 DEF Sound
    <3> QED BY <1>1, <1>2, <3>1, <3>2
  <2> QED BY <2>1, <2>2, <2>3 DEF Sound
<1>7. d.certificates[s].subject = subject
  BY <1>1
<1> QED BY <1>1, <1>4, <1>5, <1>6, <1>7 DEF d

LEMMA IssueLeaves ==
  ASSUME NEW c \in CaStates, NEW s \in Serials, NEW subject \in Subjects,
         NEW issuer \in Serials \union {None}, NEW x \in OnRecord(c), x # s
  PROVE  WithCertificate(c, s, subject, issuer).certificates[x] = c.certificates[x]
<1>1. x \in Serials \ {s}
  BY DEF OnRecord
<1> QED BY <1>1, WithCertificateFacts

LEMMA IntermediateKeeps ==
  ASSUME NEW c \in CaStates, NEW m \in Nat, Sound(c, m),
         NEW s \in Serials, s \in Nat, m < s, NEW root \in Serials, root < s
  PROVE  LET d == WithIntermediate(c, s, root)
         IN /\ d \in CaStates /\ Sound(d, s) /\ Extends(c, d) /\ Recent(c, d)
            /\ d.active = s /\ OnRecord(d) = OnRecord(c) \union {s}
<1> DEFINE d == WithIntermediate(c, s, root)
<1>1. /\ d \in CaStates
      /\ d.active = s /\ d.crlNumber = c.crlNumber
      /\ d.certificates[s].subject = IssuingCa /\ d.certificates[s].issuer = root
      /\ d.certificates[s].revoked = Valid
      /\ \A x \in Serials \ {s} : d.certificates[x] = c.certificates[x]
      /\ OnRecord(d) = OnRecord(c) \union {s}
  BY WithIntermediateFacts
<1> HIDE DEF d
<1>2. \A x \in OnRecord(c) : /\ x \in Serials \ {s}
                             /\ d.certificates[x] = c.certificates[x]
                             /\ d.certificates[x].issuer < s
  BY <1>1, RecordFacts DEF Sound, Serials, None
<1>3. d.certificates[s].revoked = Valid /\ d.certificates[s].issuer = root
      /\ d.certificates[s].revoked.why # "superseded"
  BY <1>1 DEF Valid
<1>4. Extends(c, d)
  BY <1>1, <1>2 DEF Extends, CaStates
<1>5. Recent(c, d)
  BY <1>1, <1>2, <1>3 DEF Recent, IsRevoked, Serials
<1>6. Sound(d, s)
  <2>1. d.active # None => d.active \in OnRecord(d)
    BY <1>1
  <2>2. \A x \in OnRecord(d) : x <= s /\ d.certificates[x].issuer <= s
    <3>1. \A x \in OnRecord(c) : x <= s /\ d.certificates[x].issuer <= s
      BY <1>2, SoundLater DEF Sound
    <3> QED BY <1>1, <1>3, <3>1 DEF Serials
  <2>3. ASSUME NEW x \in OnRecord(d), d.certificates[x].revoked.why = "superseded"
        PROVE  \E y \in OnRecord(d) :
                 y > x /\ d.certificates[y].subject = d.certificates[x].subject
    <3>1. x \in OnRecord(c)
      BY <1>1, <1>3, <2>3
    <3>2. PICK y \in OnRecord(c) :
                 y > x /\ c.certificates[y].subject = c.certificates[x].subject
      BY <1>2, <2>3, <3>1 DEF Sound
    <3> QED BY <1>1, <1>2, <3>1, <3>2
  <2> QED BY <2>1, <2>2, <2>3 DEF Sound
<1> QED BY <1>1, <1>4, <1>5, <1>6 DEF d

LEMMA RevocationKeeps ==
  ASSUME NEW c \in CaStates, NEW m \in Nat, Sound(c, m), clock \in 0..MaxTime,
         NEW s \in OnRecord(c), ~IsRevoked(c, s), NEW why \in Reasons,
         why = "superseded" =>
           \E n \in OnRecord(c) :
             n > s /\ c.certificates[n].subject = c.certificates[s].subject
  PROVE  LET d == WithRevocation(c, s, why)
         IN /\ d \in CaStates /\ Sound(d, m) /\ Extends(c, d) /\ Recent(c, d)
            /\ d.active = c.active /\ OnRecord(d) = OnRecord(c) /\ IsRevoked(d, s)
<1> DEFINE d == WithRevocation(c, s, why)
<1>1. /\ d \in CaStates
      /\ d.active = c.active /\ d.crlNumber = c.crlNumber
      /\ d.certificates[s].subject = c.certificates[s].subject
      /\ d.certificates[s].issuer = c.certificates[s].issuer
      /\ d.certificates[s].revoked.at = clock /\ d.certificates[s].revoked.why = why
      /\ \A x \in Serials \ {s} : d.certificates[x] = c.certificates[x]
      /\ OnRecord(d) = OnRecord(c)
  BY WithRevocationFacts
<1> HIDE DEF d
<1>2. \A x \in OnRecord(c) \ {s} : d.certificates[x] = c.certificates[x]
  BY <1>1, RecordFacts
<1>3. \A x \in OnRecord(c) : /\ d.certificates[x].subject = c.certificates[x].subject
                             /\ d.certificates[x].issuer = c.certificates[x].issuer
  BY <1>1, <1>2
<1>4. d.certificates[s].revoked.at = clock /\ d.certificates[s].revoked.why = why
  BY <1>1
<1>5. IsRevoked(d, s)
  BY <1>4 DEF IsRevoked, Valid
<1>6. Extends(c, d)
  BY <1>1, <1>2, <1>3 DEF Extends, CaStates, IsRevoked
<1>7. Recent(c, d)
  BY <1>1, <1>2, <1>4 DEF Recent, IsRevoked
<1>8. Sound(d, m)
  <2>1. ASSUME NEW x \in OnRecord(d), d.certificates[x].revoked.why = "superseded"
        PROVE  \E y \in OnRecord(d) :
                 y > x /\ d.certificates[y].subject = d.certificates[x].subject
    <3>1. CASE x = s
      BY <1>1, <1>3, <1>4, <2>1, <3>1
    <3>2. CASE x # s
      BY <1>1, <1>2, <1>3, <2>1, <3>2 DEF Sound
    <3> QED BY <3>1, <3>2
  <2> QED BY <1>1, <1>3, <2>1 DEF Sound
<1> QED BY <1>1, <1>5, <1>6, <1>7, <1>8 DEF d

LEMMA CrlNumberKeeps ==
  ASSUME NEW c \in CaStates, NEW m \in Nat, Sound(c, m)
  PROVE  LET d == [c EXCEPT !.crlNumber = @ + 1]
         IN /\ d \in CaStates /\ Sound(d, m) /\ Extends(c, d) /\ Recent(c, d)
            /\ d.crlNumber > c.crlNumber /\ d.active = c.active
            /\ \A cr : cr.serials = Listed(d) => Bounded(cr, d)
<1> DEFINE d == [c EXCEPT !.crlNumber = @ + 1]
<1>1. /\ d \in CaStates /\ d.certificates = c.certificates
      /\ d.active = c.active /\ d.crlNumber = c.crlNumber + 1 /\ c.crlNumber \in Nat
  BY DEF CaStates
<1> HIDE DEF d
<1>2. OnRecord(d) = OnRecord(c)
  BY <1>1 DEF OnRecord
<1>3. Extends(c, d) /\ Recent(c, d) /\ Sound(d, m)
  BY <1>1, <1>2 DEF Extends, Recent, Sound
<1>4. \A cr : cr.serials = Listed(d) => Bounded(cr, d)
  BY DEF Bounded, Listed
<1> QED BY <1>1, <1>3, <1>4 DEF d

-----------------------------------------------------------------------------
(* The files that a command has still to write.                            *)

Keyed(c, ks) == c.active = None \/ c.active \in ks

IsCa(q, k) == k \in 1..Len(q) /\ q[k].file = "ca"

IsCrl(q, k) == k \in 1..Len(q) /\ q[k].file = "crl"

\* A key is on file before the state that names it is.
KeysFirst(q, ks) ==
  \A k \in 1..Len(q) :
    IsCa(q, k) => \/ Keyed(q[k].ca, ks)
                  \/ \E j \in 1..(k - 1) : q[j] = KeyFile(q[k].ca.active)

\* Each state keeps what is in those before it.
Growing(b, q) ==
  /\ \A k \in 1..Len(q) : IsCa(q, k) => Extends(b, q[k].ca)
  /\ \A j, k \in 1..Len(q) : j < k /\ IsCa(q, j) /\ IsCa(q, k) => Extends(q[j].ca, q[k].ca)

\* The answer is on record once all is written.
Answered(b, q, r) ==
  Covers(b, r) \/ \E k \in 1..Len(q) : IsCa(q, k) /\ Covers(q[k].ca, r)

\* A CRL is the last file, and comes after the state it was made from.
CrlLast(b, q) ==
  \A k \in 1..Len(q) :
    IsCrl(q, k) =>
      /\ k = Len(q) /\ k <= 2
      /\ k = 2 => /\ IsCa(q, 1)
                  /\ q[1].ca.crlNumber > b.crlNumber
                  /\ Bounded(q[2].crl, q[1].ca)

Planned(b, q, r, ks, m) ==
  /\ q \in Seq(Writes) /\ r \in Replies
  /\ \A k \in 1..Len(q) : IsCa(q, k) => Sound(q[k].ca, m)
  /\ KeysFirst(q, ks)
  /\ Growing(b, q)
  /\ Answered(b, q, r)
  /\ CrlLast(b, q)

LEMMA PlannedLater ==
  ASSUME NEW b \in CaStates, NEW q, NEW r, NEW ks, NEW ls, NEW m \in Nat, NEW n \in Nat,
         Planned(b, q, r, ks, m), ks \subseteq ls, m <= n
  PROVE  Planned(b, q, r, ls, n)
<1>1. \A k \in 1..Len(q) : IsCa(q, k) => Sound(q[k].ca, n)
  <2> SUFFICES ASSUME NEW k \in 1..Len(q), IsCa(q, k) PROVE Sound(q[k].ca, n)
    OBVIOUS
  <2>1. q[k] \in Writes
    BY ElementOfSeq DEF Planned
  <2> QED BY <2>1, WritesFacts, SoundLater DEF Planned, IsCa
<1>2. KeysFirst(q, ls)
  BY DEF Planned, KeysFirst, Keyed
<1> QED BY <1>1, <1>2 DEF Planned

LEMMA KeyWritten ==
  ASSUME NEW b \in CaStates, NEW q \in Seq(Writes), NEW r, NEW ks, NEW m,
         Planned(b, q, r, ks, m), q # <<>>, Head(q).file = "key"
  PROVE  Planned(b, Tail(q), r, ks \union {Head(q).key}, m)
<1> DEFINE w == Tail(q)
           ls == ks \union {Head(q).key}
<1>1. /\ Head(q) = q[1] /\ Len(q) \in Nat /\ Len(q) >= 1
      /\ w \in Seq(Writes) /\ Len(w) = Len(q) - 1
      /\ \A k \in 1..Len(w) : w[k] = q[k + 1]
  BY TailFacts
<1> HIDE DEF w
<1>2. \A k \in 1..Len(w) : /\ k + 1 \in 1..Len(q)
                           /\ IsCa(w, k) <=> IsCa(q, k + 1)
                           /\ IsCrl(w, k) <=> IsCrl(q, k + 1)
  BY <1>1 DEF IsCa, IsCrl
<1>3. \A k \in 1..Len(w) : IsCa(w, k) => Sound(w[k].ca, m)
  BY <1>1, <1>2 DEF Planned
<1>4. KeysFirst(w, ls)
  <2> SUFFICES ASSUME NEW k \in 1..Len(w), IsCa(w, k), ~Keyed(w[k].ca, ls)
               PROVE  \E j \in 1..(k - 1) : w[j] = KeyFile(w[k].ca.active)
    BY DEF KeysFirst
  <2>1. k + 1 \in 1..Len(q) /\ IsCa(q, k + 1) /\ q[k + 1] = w[k]
    BY <1>1, <1>2
  <2>2. ~Keyed(q[k + 1].ca, ks)
    BY <2>1 DEF Keyed
  <2>3. PICK j \in 1..k : q[j] = KeyFile(w[k].ca.active)
    BY <2>1, <2>2 DEF Planned, KeysFirst
  <2>4. j # 1
    BY <1>1, <2>3 DEF Keyed, KeyFile
  <2>5. j - 1 \in 1..(k - 1) /\ w[j - 1] = q[j]
    BY <1>1, <2>3, <2>4
  <2> QED BY <2>3, <2>5
<1>5. Growing(b, w)
  <2>1. Growing(b, q)
    BY DEF Planned
  <2>2. \A k \in 1..Len(w) : IsCa(w, k) => Extends(b, w[k].ca)
    BY <1>1, <1>2, <2>1 DEF Growing
  <2>3. ASSUME NEW j \in 1..Len(w), NEW k \in 1..Len(w), j < k, IsCa(w, j), IsCa(w, k)
        PROVE  Extends(w[j].ca, w[k].ca)
    <3>1. /\ j + 1 \in 1..Len(q) /\ IsCa(q, j + 1) /\ k + 1 \in 1..Len(q) /\ IsCa(q, k + 1)
          /\ j + 1 < k + 1 /\ w[j] = q[j + 1] /\ w[k] = q[k + 1]
      BY <1>1, <1>2, <2>3
    <3> QED BY <2>1, <3>1 DEF Growing
  <2> QED BY <2>2, <2>3 DEF Growing
<1>6. Answered(b, w, r)
  <2>1. CASE Covers(b, r)
    BY <2>1 DEF Answered
  <2>2. CASE \E k \in 1..Len(q) : IsCa(q, k) /\ Covers(q[k].ca, r)
    <3>1. PICK k \in 1..Len(q) : IsCa(q, k) /\ Covers(q[k].ca, r)
      BY <2>2
    <3>2. k # 1
      BY <1>1, <3>1 DEF IsCa
    <3>3. k - 1 \in 1..Len(w) /\ w[k - 1] = q[k]
      BY <1>1, <3>2
    <3> QED BY <3>1, <3>3 DEF Answered, IsCa
  <2> QED BY <2>1, <2>2 DEF Planned, Answered
<1>7. CrlLast(b, w)
  <2> SUFFICES ASSUME NEW k \in 1..Len(w), IsCrl(w, k) PROVE FALSE
    BY DEF CrlLast
  <2>1. k + 1 \in 1..Len(q) /\ IsCrl(q, k + 1)
    BY <1>2
  <2>2. k + 1 <= 2 /\ (k + 1 = 2 => IsCa(q, 1))
    BY <2>1 DEF Planned, CrlLast
  <2> QED BY <1>1, <2>2 DEF IsCa
<1> QED BY <1>1, <1>3, <1>4, <1>5, <1>6, <1>7 DEF Planned, w

LEMMA CrlWritten ==
  ASSUME NEW b \in CaStates, NEW q \in Seq(Writes), NEW r, NEW ks, NEW m,
         Planned(b, q, r, ks, m), q # <<>>, Head(q).file = "crl"
  PROVE  Planned(b, Tail(q), r, ks, m) /\ Tail(q) = <<>>
<1>1. Head(q) = q[1] /\ Len(q) \in Nat /\ Len(q) >= 1
      /\ Tail(q) \in Seq(Writes) /\ Len(Tail(q)) = Len(q) - 1
  BY TailFacts
<1>2. 1 \in 1..Len(q) /\ IsCrl(q, 1)
  BY <1>1 DEF IsCrl
<1>3. Len(q) = 1
  <2>1. CrlLast(b, q)
    BY DEF Planned
  <2> QED BY <1>2, <2>1 DEF CrlLast
<1>4. Tail(q) = <<>> /\ 1..Len(Tail(q)) = {}
  <2>1. Len(Tail(q)) = 0
    BY <1>1, <1>3
  <2>2. Tail(q) = <<>>
    BY <1>1, <2>1, EmptySeq
  <2> QED BY <2>1, <2>2
<1>5. Covers(b, r)
  <2>1. ~\E k \in 1..Len(q) : IsCa(q, k)
    BY <1>1, <1>3 DEF IsCa
  <2> QED BY <2>1 DEF Planned, Answered
<1>6. KeysFirst(Tail(q), ks) /\ Growing(b, Tail(q)) /\ CrlLast(b, Tail(q))
  BY <1>4 DEF KeysFirst, Growing, CrlLast
<1> QED
  BY <1>1, <1>4, <1>5, <1>6 DEF Planned, Answered

LEMMA CaWritten ==
  ASSUME NEW b \in CaStates, NEW q \in Seq(Writes), NEW r, NEW ks, NEW m,
         Planned(b, q, r, ks, m), q # <<>>, Head(q).file = "ca"
  PROVE  LET c == Head(q).ca
         IN /\ c \in CaStates /\ Sound(c, m) /\ Keyed(c, ks) /\ Extends(b, c)
            /\ Planned(c, Tail(q), r, ks, m)
<1> DEFINE w == Tail(q)
           c == q[1].ca
<1>1. /\ Head(q) = q[1] /\ Len(q) \in Nat /\ Len(q) >= 1
      /\ w \in Seq(Writes) /\ Len(w) = Len(q) - 1
      /\ \A k \in 1..Len(w) : w[k] = q[k + 1]
      /\ q[1] \in Writes
  BY TailFacts
<1> HIDE DEF w
<1>2. \A k \in 1..Len(w) : /\ k + 1 \in 1..Len(q)
                           /\ IsCa(w, k) <=> IsCa(q, k + 1)
                           /\ IsCrl(w, k) <=> IsCrl(q, k + 1)
  BY <1>1 DEF IsCa, IsCrl
<1>3. 1 \in 1..Len(q) /\ IsCa(q, 1)
  BY <1>1 DEF IsCa
<1>4. c \in CaStates /\ Sound(c, m) /\ Extends(b, c)
  BY <1>1, <1>3, WritesFacts DEF Planned, Growing, IsCa
<1>5. Keyed(c, ks)
  BY <1>3 DEF Planned, KeysFirst
<1>6. \A k \in 1..Len(w) : IsCa(w, k) => Sound(w[k].ca, m)
  BY <1>1, <1>2 DEF Planned
<1>7. KeysFirst(w, ks)
  <2> SUFFICES ASSUME NEW k \in 1..Len(w), IsCa(w, k), ~Keyed(w[k].ca, ks)
               PROVE  \E j \in 1..(k - 1) : w[j] = KeyFile(w[k].ca.active)
    BY DEF KeysFirst
  <2>1. k + 1 \in 1..Len(q) /\ IsCa(q, k + 1) /\ q[k + 1] = w[k]
    BY <1>1, <1>2
  <2>2. PICK j \in 1..k : q[j] = KeyFile(w[k].ca.active)
    BY <2>1 DEF Planned, KeysFirst
  <2>3. j # 1
    BY <1>3, <2>2 DEF IsCa, KeyFile
  <2>4. j - 1 \in 1..(k - 1) /\ w[j - 1] = q[j]
    BY <1>1, <2>2, <2>3
  <2> QED BY <2>2, <2>4
<1>8. Growing(c, w)
  <2>1. Growing(b, q)
    BY DEF Planned
  <2>2. ASSUME NEW k \in 1..Len(w), IsCa(w, k) PROVE Extends(c, w[k].ca)
    <3>1. k + 1 \in 1..Len(q) /\ IsCa(q, k + 1) /\ 1 < k + 1 /\ w[k] = q[k + 1]
      BY <1>1, <1>2, <2>2
    <3> QED BY <1>3, <2>1, <3>1 DEF Growing
  <2>3. ASSUME NEW j \in 1..Len(w), NEW k \in 1..Len(w), j < k, IsCa(w, j), IsCa(w, k)
        PROVE  Extends(w[j].ca, w[k].ca)
    <3>1. /\ j + 1 \in 1..Len(q) /\ IsCa(q, j + 1) /\ k + 1 \in 1..Len(q) /\ IsCa(q, k + 1)
          /\ j + 1 < k + 1 /\ w[j] = q[j + 1] /\ w[k] = q[k + 1]
      BY <1>1, <1>2, <2>3
    <3> QED BY <2>1, <3>1 DEF Growing
  <2> QED BY <2>2, <2>3 DEF Growing
<1>9. Answered(c, w, r)
  <2>1. CASE Covers(b, r)
    BY <1>4, <2>1, CoversGrows DEF Answered
  <2>2. CASE \E k \in 1..Len(q) : IsCa(q, k) /\ Covers(q[k].ca, r)
    <3>1. PICK k \in 1..Len(q) : IsCa(q, k) /\ Covers(q[k].ca, r)
      BY <2>2
    <3>2. CASE k = 1
      BY <3>1, <3>2 DEF Answered
    <3>3. CASE k # 1
      <4>1. k - 1 \in 1..Len(w) /\ w[k - 1] = q[k]
        BY <1>1, <3>3
      <4> QED BY <3>1, <4>1 DEF Answered, IsCa
    <3> QED BY <3>2, <3>3
  <2> QED BY <2>1, <2>2 DEF Planned, Answered
<1>10. CrlLast(c, w)
  <2> SUFFICES ASSUME NEW k \in 1..Len(w), IsCrl(w, k)
               PROVE  k = Len(w) /\ k = 1
    BY DEF CrlLast
  <2>1. k + 1 \in 1..Len(q) /\ IsCrl(q, k + 1)
    BY <1>2
  <2>2. k + 1 <= 2 /\ k + 1 = Len(q)
    BY <2>1 DEF Planned, CrlLast
  <2> QED BY <1>1, <2>2
<1> QED
  BY <1>1, <1>4, <1>5, <1>6, <1>7, <1>8, <1>9, <1>10 DEF Planned, w

-----------------------------------------------------------------------------
(* The plans of the operations.                                            *)

\* At the time of the decision.
Timely(b, q) ==
  /\ \A k \in 1..Len(q) : IsCa(q, k) => Recent(b, q[k].ca)
  /\ \A k \in 1..Len(q) : IsCrl(q, k) => k # 1 /\ q[k].crl.until <= clock + Validity

\* One state is written.
LEMMA OneState ==
  ASSUME NEW b \in CaStates, NEW d \in CaStates, NEW r \in Replies, NEW ks, NEW m,
         Sound(d, m), Keyed(d, ks), Extends(b, d), Recent(b, d),
         Covers(b, r) \/ Covers(d, r)
  PROVE  LET q == <<CaFile(d)>> IN Planned(b, q, r, ks, m) /\ Timely(b, q)
<1> DEFINE q == <<CaFile(d)>>
<1>1. /\ q \in Seq(Writes) /\ Len(q) = 1 /\ 1..Len(q) = {1}
      /\ IsCa(q, 1) /\ q[1].ca = d /\ ~IsCrl(q, 1)
  BY WritesFacts DEF CaFile, IsCa, IsCrl
<1> HIDE DEF q
<1>2. KeysFirst(q, ks) /\ Answered(b, q, r) /\ CrlLast(b, q)
  BY <1>1 DEF KeysFirst, Answered, CrlLast
<1>3. Growing(b, q)
  BY <1>1 DEF Growing
<1> QED BY <1>1, <1>2, <1>3 DEF Planned, Timely, q

\* Two states are written.
LEMMA TwoStates ==
  ASSUME NEW b \in CaStates, NEW d \in CaStates, NEW e \in CaStates,
         NEW r \in Replies, NEW ks, NEW m,
         Sound(d, m), Keyed(d, ks), Extends(b, d), Recent(b, d),
         Sound(e, m), Keyed(e, ks), Extends(d, e), Recent(b, e), Covers(e, r)
  PROVE  LET q == <<CaFile(d), CaFile(e)>> IN Planned(b, q, r, ks, m) /\ Timely(b, q)
<1> DEFINE q == <<CaFile(d), CaFile(e)>>
<1>1. /\ q \in Seq(Writes) /\ Len(q) = 2 /\ 1..Len(q) = {1, 2}
      /\ IsCa(q, 1) /\ q[1].ca = d /\ ~IsCrl(q, 1)
      /\ IsCa(q, 2) /\ q[2].ca = e /\ ~IsCrl(q, 2)
  BY WritesFacts DEF CaFile, IsCa, IsCrl
<1> HIDE DEF q
<1>2. KeysFirst(q, ks) /\ Answered(b, q, r) /\ CrlLast(b, q)
  BY <1>1 DEF KeysFirst, Answered, CrlLast
<1>3. Growing(b, q)
  BY <1>1, ExtendsTransitive DEF Growing
<1> QED BY <1>1, <1>2, <1>3 DEF Planned, Timely, q

\* A state, and a CRL made from it.
LEMMA StateThenCrl ==
  ASSUME NEW b \in CaStates, NEW d \in CaStates, NEW cr \in Crls,
         NEW r \in Replies, NEW ks, NEW m,
         Sound(d, m), Keyed(d, ks), Extends(b, d), Recent(b, d),
         d.crlNumber > b.crlNumber, Bounded(cr, d), cr.until <= clock + Validity,
         Covers(b, r)
  PROVE  LET q == <<CaFile(d), CrlFile(cr)>> IN Planned(b, q, r, ks, m) /\ Timely(b, q)
<1> DEFINE q == <<CaFile(d), CrlFile(cr)>>
<1>1. /\ q \in Seq(Writes) /\ Len(q) = 2 /\ 1..Len(q) = {1, 2}
      /\ IsCa(q, 1) /\ q[1].ca = d /\ ~IsCrl(q, 1)
      /\ IsCrl(q, 2) /\ q[2].crl = cr /\ ~IsCa(q, 2)
  BY WritesFacts DEF CaFile, CrlFile, IsCa, IsCrl
<1> HIDE DEF q
<1>2. KeysFirst(q, ks) /\ Answered(b, q, r) /\ CrlLast(b, q)
  BY <1>1 DEF KeysFirst, Answered, CrlLast
<1>3. Growing(b, q)
  BY <1>1 DEF Growing
<1> QED BY <1>1, <1>2, <1>3 DEF Planned, Timely, q

\* A key, and the state that names it.
LEMMA KeyThenState ==
  ASSUME NEW b \in CaStates, NEW d \in CaStates, NEW s \in Serials,
         NEW r \in Replies, NEW ks, NEW m,
         Sound(d, m), d.active = s, Extends(b, d), Recent(b, d), Covers(d, r)
  PROVE  LET q == <<KeyFile(s), CaFile(d)>> IN Planned(b, q, r, ks, m) /\ Timely(b, q)
<1> DEFINE q == <<KeyFile(s), CaFile(d)>>
<1>1. /\ q \in Seq(Writes) /\ Len(q) = 2 /\ 1..Len(q) = {1, 2}
      /\ q[1] = KeyFile(s) /\ ~IsCa(q, 1) /\ ~IsCrl(q, 1)
      /\ IsCa(q, 2) /\ q[2].ca = d /\ ~IsCrl(q, 2)
  BY WritesFacts DEF KeyFile, CaFile, IsCa, IsCrl
<1> HIDE DEF q
<1>2. KeysFirst(q, ks) /\ Answered(b, q, r) /\ CrlLast(b, q)
  BY <1>1 DEF KeysFirst, Answered, CrlLast
<1>3. Growing(b, q)
  BY <1>1 DEF Growing
<1> QED BY <1>1, <1>2, <1>3 DEF Planned, Timely, q

\* The same, and another key.
LEMMA KeyStateKey ==
  ASSUME NEW b \in CaStates, NEW d \in CaStates, NEW s \in Serials, NEW x \in Serials,
         NEW r \in Replies, NEW ks, NEW m,
         Sound(d, m), d.active = s, Extends(b, d), Recent(b, d), Covers(d, r)
  PROVE  LET q == <<KeyFile(s), CaFile(d), KeyFile(x)>>
         IN Planned(b, q, r, ks, m) /\ Timely(b, q)
<1> DEFINE q == <<KeyFile(s), CaFile(d), KeyFile(x)>>
<1>1. /\ q \in Seq(Writes) /\ Len(q) = 3 /\ 1..Len(q) = {1, 2, 3}
      /\ q[1] = KeyFile(s) /\ ~IsCa(q, 1) /\ ~IsCrl(q, 1)
      /\ IsCa(q, 2) /\ q[2].ca = d /\ ~IsCrl(q, 2)
      /\ ~IsCa(q, 3) /\ ~IsCrl(q, 3)
  BY WritesFacts DEF KeyFile, CaFile, IsCa, IsCrl
<1> HIDE DEF q
<1>2. KeysFirst(q, ks) /\ Answered(b, q, r) /\ CrlLast(b, q)
  BY <1>1 DEF KeysFirst, Answered, CrlLast
<1>3. Growing(b, q)
  BY <1>1 DEF Growing
<1> QED BY <1>1, <1>2, <1>3 DEF Planned, Timely, q

-----------------------------------------------------------------------------
(* Every decision is such a plan.                                          *)

\* Of command t.
TaskSafe(t) ==
  /\ task[t].stage # "idle" =>
       Sound(task[t].base, minted) /\ Keyed(task[t].base, keys)
  /\ task[t].stage = "writing" =>
       Planned(task[t].base, task[t].files, task[t].reply, keys, minted)

Decides(t) ==
  /\ task[t].stage = "opened"
  /\ \E q \in Seq(Writes), r \in Replies :
       /\ Become(t, Writing(task[t].base, q, r))
       /\ Planned(task[t].base, q, r, keys, minted')
       /\ Timely(task[t].base, q)
  /\ minted' \in 0..MaxSerials /\ minted <= minted'
  /\ UNCHANGED <<clock, Files, loaded, begun, delivered, annulled>>

LEMMA ProceedFacts ==
  ASSUME TypeOK, NEW t \in Commands, Deciding(t), NEW n \in Nat,
         NEW q, NEW r \in Replies, Proceed(t, n, q, r),
         Planned(task[t].base, q, r, keys, minted + n), Timely(task[t].base, q)
  PROVE  Decides(t)
<1>1. minted' = minted + n /\ minted + n <= MaxSerials
  BY DEF Proceed
<1>2. minted' \in 0..MaxSerials /\ minted <= minted'
  BY <1>1, CaAssumption DEF TypeOK
<1>3. Planned(task[t].base, q, r, keys, minted')
  BY <1>1
<1>4. q \in Seq(Writes)
  BY DEF Planned
<1> QED BY <1>2, <1>3, <1>4 DEF Decides, Deciding, Proceed

\* Before a decision.
LEMMA DecidingFacts ==
  ASSUME TypeOK, NEW t \in Commands, TaskSafe(t), Deciding(t)
  PROVE  LET b == task[t].base
         IN /\ b \in CaStates /\ Sound(b, minted) /\ Keyed(b, keys)
            /\ minted \in Nat /\ clock \in 0..MaxTime
            /\ \A n \in Nat \ {0} :
                 minted + n <= MaxSerials =>
                   minted + n \in Serials /\ minted + n \in Nat /\ minted < minted + n
            /\ \A s \in OnRecord(b) : s \in Serials /\ s <= minted
<1>1. task[t] \in TaskStates /\ task[t].stage = "opened"
  BY DEF TypeOK, Deciding
<1>2. task[t].base \in CaStates
  BY <1>1, TaskFacts
<1>3. minted \in Nat /\ clock \in 0..MaxTime
  BY DEF TypeOK
<1>4. \A n \in Nat \ {0} :
        minted + n <= MaxSerials =>
          minted + n \in Serials /\ minted + n \in Nat /\ minted < minted + n
  BY <1>3, CaAssumption DEF Serials
<1> QED BY <1>1, <1>2, <1>3, <1>4 DEF TaskSafe, Sound, OnRecord

LEMMA RecentTransitive ==
  ASSUME NEW b, NEW c, NEW d, Recent(b, c), Recent(c, d) PROVE Recent(b, d)
  BY DEF Recent, IsRevoked

LEMMA InitializeDecides ==
  ASSUME TypeOK, NEW t \in Commands, TaskSafe(t), Initialize(t) PROVE Decides(t)
<1> DEFINE c    == task[t].base
           root == minted + 1
           int  == minted + 2
           d    == WithCertificate(c, root, RootCa, None)
           e    == WithIntermediate(d, int, root)
           q    == <<KeyFile(int), CaFile(e), KeyFile(root)>>
           r    == [certs |-> {root, int}, revoked |-> {}]
<1>1. Deciding(t) /\ Proceed(t, 2, q, r) /\ minted + 2 <= MaxSerials
  BY DEF Initialize, Proceed, TypeOK
<1>2. /\ c \in CaStates /\ Sound(c, minted) /\ minted \in Nat
      /\ root \in Serials /\ int \in Serials /\ root \in Nat /\ int \in Nat
      /\ minted < root /\ root < int
  BY <1>1, DecidingFacts, CaAssumption DEF Serials
<1>3. /\ d \in CaStates /\ Sound(d, root) /\ Extends(c, d) /\ Recent(c, d)
      /\ root \in OnRecord(d)
  <2>1. RootCa \in Subjects /\ None \in Serials \union {None} /\ None <= root
    BY <1>2 DEF Subjects, None
  <2> HIDE DEF c, root, int, e, q, r
  <2>2. minted < root /\ root <= root /\ root \in Nat
    BY <1>2
  <2>3. /\ d \in CaStates /\ Sound(d, root) /\ Extends(c, d) /\ Recent(c, d)
        /\ OnRecord(d) = OnRecord(c) \union {root}
    BY <1>2, <2>1, <2>2, IssueKeeps
  <2> QED BY <2>3
<1> HIDE DEF d
<1>4. /\ e \in CaStates /\ Sound(e, int) /\ Extends(d, e) /\ Recent(d, e)
      /\ e.active = int /\ OnRecord(e) = OnRecord(d) \union {int}
  <2> HIDE DEF c, root, int, q, r
  <2>1. int <= int
    BY <1>2
  <2> QED BY <1>2, <1>3, <2>1, IntermediateKeeps
<1> HIDE DEF e
<1>5. Extends(c, e) /\ Recent(c, e)
  BY <1>2, <1>3, <1>4, ExtendsTransitive, RecentTransitive
<1>6. r \in Replies /\ Covers(e, r)
  BY <1>2, <1>3, <1>4 DEF Replies, Covers
<1>7. Planned(c, q, r, keys, minted + 2) /\ Timely(c, q)
  <2> HIDE DEF r, root, c
  <2> QED BY <1>2, <1>4, <1>5, <1>6, KeyStateKey
<1> QED
  <2> HIDE DEF q, r
  <2> QED BY <1>1, <1>6, <1>7, ProceedFacts

LEMMA RotateIntermediateDecides ==
  ASSUME TypeOK, NEW t \in Commands, TaskSafe(t), RotateIntermediate(t) PROVE Decides(t)
<1> DEFINE c   == task[t].base
           int == minted + 1
           r   == [certs |-> {int}, revoked |-> {}]
<1>1. PICK root \in keys :
        /\ IsRoot(c, root)
        /\ Proceed(t, 1, <<KeyFile(int), CaFile(WithIntermediate(c, int, root))>>, r)
  BY DEF RotateIntermediate
<1> DEFINE d == WithIntermediate(c, int, root)
           q == <<KeyFile(int), CaFile(d)>>
<1>2. Deciding(t) /\ minted + 1 <= MaxSerials
  BY <1>1 DEF RotateIntermediate, Proceed, TypeOK
<1>3. /\ c \in CaStates /\ Sound(c, minted) /\ minted \in Nat
      /\ int \in Serials /\ int \in Nat /\ minted < int
      /\ root \in Serials /\ root < int
  <2>1. root \in OnRecord(c)
    BY <1>1 DEF IsRoot
  <2> QED BY <1>2, <2>1, DecidingFacts DEF Serials
<1>4. /\ d \in CaStates /\ Sound(d, int) /\ Extends(c, d) /\ Recent(c, d)
      /\ d.active = int /\ OnRecord(d) = OnRecord(c) \union {int}
  <2> HIDE DEF c, int
  <2> QED BY <1>3, IntermediateKeeps
<1> HIDE DEF d
<1>5. r \in Replies /\ Covers(d, r)
  BY <1>3, <1>4 DEF Replies, Covers
<1>6. Planned(c, q, r, keys, minted + 1) /\ Timely(c, q)
  <2> HIDE DEF r, c
  <2> QED BY <1>3, <1>4, <1>5, KeyThenState
<1> QED
  <2>1. Proceed(t, 1, q, r)
    BY <1>1 DEF d
  <2> HIDE DEF q, r
  <2> QED BY <1>2, <1>5, <1>6, <2>1, ProceedFacts

\* The operations that sign read the issuer first.
LEMMA CanSignFacts ==
  ASSUME NEW c \in CaStates, CanSign(c), NEW m \in Nat, Sound(c, m)
  PROVE  c.active \in Serials /\ c.active <= m /\ c.active \in keys
  BY DEF CanSign, OnRecord, Sound

LEMMA IssueDecides ==
  ASSUME TypeOK, NEW t \in Commands, TaskSafe(t), NEW id \in Identities, Issue(t, id)
  PROVE  Decides(t)
<1> DEFINE c == task[t].base
           s == minted + 1
           d == WithCertificate(c, s, id, c.active)
           q == <<CaFile(d)>>
           r == [certs |-> {s}, revoked |-> {}]
<1>1. /\ Deciding(t) /\ CanSign(c) /\ Proceed(t, 1, q, r) /\ minted + 1 <= MaxSerials
  BY DEF Issue, Proceed, TypeOK
<1>2. /\ c \in CaStates /\ Sound(c, minted) /\ Keyed(c, keys) /\ minted \in Nat
      /\ s \in Serials /\ s \in Nat /\ minted < s
  BY <1>1, DecidingFacts
<1>3. c.active \in Serials \union {None} /\ c.active <= s /\ id \in Subjects
  BY <1>1, <1>2, CanSignFacts DEF Subjects, Serials
<1>4. /\ d \in CaStates /\ Sound(d, s) /\ Extends(c, d) /\ Recent(c, d)
      /\ d.active = c.active /\ OnRecord(d) = OnRecord(c) \union {s}
      /\ d.certificates[s].subject = id
  <2> HIDE DEF c, s, q, r
  <2>1. /\ c \in CaStates /\ Sound(c, minted) /\ minted \in Nat
        /\ s \in Serials /\ s \in Nat /\ minted < s
    BY <1>2
  <2> QED BY <1>3, <2>1, IssueKeeps
<1> HIDE DEF d
<1>5. r \in Replies /\ Covers(d, r) /\ Keyed(d, keys)
  BY <1>2, <1>4 DEF Replies, Covers, Keyed
<1>6. Planned(c, q, r, keys, minted + 1) /\ Timely(c, q)
  <2> HIDE DEF r, c
  <2> QED BY <1>2, <1>4, <1>5, OneState
<1> QED
  <2> HIDE DEF q, r
  <2> QED BY <1>1, <1>5, <1>6, ProceedFacts

LEMMA RotateDecides ==
  ASSUME TypeOK, NEW t \in Commands, TaskSafe(t), NEW old \in Serials, Rotate(t, old)
  PROVE  Decides(t)
<1> DEFINE c == task[t].base
           s == minted + 1
           id == c.certificates[old].subject
           d == WithCertificate(c, s, id, c.active)
           e == WithRevocation(d, old, "superseded")
           r == [certs |-> {s}, revoked |-> {old}]
<1>1. /\ Deciding(t) /\ CanSign(c) /\ IsLeaf(c, old) /\ minted + 1 <= MaxSerials
  BY DEF Rotate, Proceed, TypeOK
<1>2. /\ c \in CaStates /\ Sound(c, minted) /\ Keyed(c, keys) /\ minted \in Nat
      /\ s \in Serials /\ s \in Nat /\ minted < s
      /\ old \in OnRecord(c) /\ old <= minted
  BY <1>1, DecidingFacts DEF IsLeaf
<1>3. c.active \in Serials \union {None} /\ c.active <= s /\ id \in Subjects
  <2>1. c.active \in Serials \union {None} /\ c.active <= s
    BY <1>1, <1>2, CanSignFacts DEF Serials
  <2>2. id \in Subjects
    BY <1>1 DEF IsLeaf, Subjects
  <2> QED BY <2>1, <2>2
<1> HIDE DEF id
<1>4. /\ d \in CaStates /\ Sound(d, s) /\ Extends(c, d) /\ Recent(c, d)
      /\ d.active = c.active /\ OnRecord(d) = OnRecord(c) \union {s}
      /\ d.certificates[s].subject = id
      /\ d.certificates[old] = c.certificates[old]
  <2>1. old # s
    BY <1>2
  <2> HIDE DEF c, s, r, e
  <2>2. /\ d \in CaStates /\ Sound(d, s) /\ Extends(c, d) /\ Recent(c, d)
        /\ d.active = c.active /\ OnRecord(d) = OnRecord(c) \union {s}
        /\ d.certificates[s].subject = id
    <3>1. /\ c \in CaStates /\ Sound(c, minted) /\ minted \in Nat
            /\ s \in Serials /\ s \in Nat /\ minted < s
      BY <1>2
    <3>2. PICK a, i : a = c.active /\ i = id
      OBVIOUS
    <3>3. d = WithCertificate(c, s, i, a)
      BY <3>2
    <3>4. a \in Serials \union {None} /\ a <= s /\ i \in Subjects
      BY <1>3, <3>2
    <3> HIDE DEF d
    <3>5. /\ d \in CaStates /\ Sound(d, s) /\ Extends(c, d) /\ Recent(c, d)
          /\ d.active = c.active /\ OnRecord(d) = OnRecord(c) \union {s}
          /\ d.certificates[s].subject = i
      BY <3>1, <3>3, <3>4, IssueKeeps
    <3> QED BY <3>2, <3>5
  <2>3. d.certificates[old] = c.certificates[old]
    BY <1>2, <1>3, <2>1, IssueLeaves
  <2> QED BY <2>2, <2>3
<1> HIDE DEF d
<1>5. Keyed(d, keys)
  BY <1>2, <1>4 DEF Keyed
<1>6. CASE ~IsRevoked(c, old) /\ Proceed(t, 1, <<CaFile(d), CaFile(e)>>, r)
  <2> DEFINE q == <<CaFile(d), CaFile(e)>>
  <2>1. /\ old \in OnRecord(d) /\ ~IsRevoked(d, old)
        /\ s \in OnRecord(d) /\ s > old
        /\ d.certificates[old].subject = id
    <3>1. s > old
      BY <1>2 DEF Serials
    <3>2. old \in OnRecord(d) /\ s \in OnRecord(d)
      <4>1. old \in OnRecord(c) /\ OnRecord(d) = OnRecord(c) \union {s}
        BY <1>2, <1>4
      <4> QED BY <4>1
    <3>3. ~IsRevoked(d, old)
      BY <1>4, <1>6 DEF IsRevoked
    <3>4. d.certificates[old].subject = id
      BY <1>4 DEF id
    <3> QED BY <3>1, <3>2, <3>3, <3>4
  <2>2. /\ e \in CaStates /\ Sound(e, s) /\ Extends(d, e) /\ Recent(d, e)
        /\ e.active = d.active /\ OnRecord(e) = OnRecord(d) /\ IsRevoked(e, old)
    <3>1. clock \in 0..MaxTime /\ "superseded" \in Reasons
      BY DEF TypeOK, Reasons
    <3>2. \E n \in OnRecord(d) :
            n > old /\ d.certificates[n].subject = d.certificates[old].subject
      BY <1>4, <2>1
    <3> HIDE DEF s
    <3> QED BY <1>2, <1>4, <2>1, <3>1, <3>2, RevocationKeeps
  <2> HIDE DEF e
  <2>3. Recent(c, e)
    BY <1>4, <2>2, RecentTransitive
  <2>4. r \in Replies /\ Covers(e, r) /\ Keyed(e, keys)
    BY <1>2, <1>4, <1>5, <2>1, <2>2 DEF Replies, Covers, Keyed, OnRecord
  <2>5. Planned(c, q, r, keys, minted + 1) /\ Timely(c, q)
    <3> HIDE DEF r, c
    <3> QED BY <1>2, <1>4, <1>5, <2>2, <2>3, <2>4, TwoStates
  <2>6. Proceed(t, 1, q, r)
    BY <1>6
  <2> QED
    <3> HIDE DEF q, r
    <3> QED BY <1>1, <2>4, <2>5, <2>6, ProceedFacts
<1>7. CASE Proceed(t, 1, <<CaFile(d)>>, Nothing)
  <2> DEFINE q == <<CaFile(d)>>
  <2>1. Nothing \in Replies /\ Covers(d, Nothing)
    BY DEF Nothing, Replies, Covers
  <2>2. Planned(c, q, Nothing, keys, minted + 1) /\ Timely(c, q)
    <3> HIDE DEF c
    <3> QED BY <1>2, <1>4, <1>5, <2>1, OneState
  <2>3. Proceed(t, 1, q, Nothing)
    BY <1>7
  <2> HIDE DEF q
  <2> QED BY <1>1, <2>1, <2>2, <2>3, ProceedFacts
<1> QED BY <1>6, <1>7 DEF Rotate, d, id

LEMMA RevokeDecides ==
  ASSUME TypeOK, NEW t \in Commands, TaskSafe(t), NEW s \in Serials, Revoke(t, s)
  PROVE  Decides(t)
<1> DEFINE c == task[t].base
           d == WithRevocation(c, s, "keyCompromise")
           q == <<CaFile(d)>>
           r == [certs |-> {}, revoked |-> {s}]
<1>1. /\ Deciding(t) /\ Proceed(t, 0, q, r) /\ s \in OnRecord(c) /\ ~IsRevoked(c, s)
  BY DEF Revoke, Proceed, TypeOK
<1>2. /\ c \in CaStates /\ Sound(c, minted) /\ Keyed(c, keys) /\ minted \in Nat
      /\ clock \in 0..MaxTime
  BY <1>1, DecidingFacts
<1>3. /\ d \in CaStates /\ Sound(d, minted) /\ Extends(c, d) /\ Recent(c, d)
      /\ OnRecord(d) = OnRecord(c) /\ IsRevoked(d, s) /\ d.active = c.active
  <2> HIDE DEF c, q, r
  <2>1. "keyCompromise" \in Reasons /\ "keyCompromise" # "superseded"
    BY DEF Reasons
  <2> QED BY <1>1, <1>2, <2>1, RevocationKeeps
<1> HIDE DEF d
<1>4. r \in Replies /\ Covers(d, r) /\ Keyed(d, keys)
  BY <1>1, <1>2, <1>3 DEF Replies, Covers, Keyed
<1>5. Planned(c, q, r, keys, minted + 0) /\ Timely(c, q)
  <2>1. minted + 0 = minted
    BY <1>2
  <2> HIDE DEF r, c
  <2> QED BY <1>2, <1>3, <1>4, <2>1, OneState
<1> QED
  <2> HIDE DEF q, r
  <2> QED BY <1>1, <1>4, <1>5, ProceedFacts

LEMMA GenerateCrlDecides ==
  ASSUME TypeOK, NEW t \in Commands, TaskSafe(t), GenerateCrl(t)
  PROVE  Decides(t)
<1> DEFINE c  == task[t].base
           d  == [c EXCEPT !.crlNumber = @ + 1]
           cr == [serials |-> Listed(d), until |-> clock + Validity]
           q  == <<CaFile(d), CrlFile(cr)>>
<1>1. /\ Deciding(t) /\ Proceed(t, 0, q, Nothing)
  BY DEF GenerateCrl, Proceed, TypeOK
<1>2. /\ c \in CaStates /\ Sound(c, minted) /\ Keyed(c, keys) /\ minted \in Nat
      /\ clock \in 0..MaxTime
  BY <1>1, DecidingFacts
<1>3. /\ d \in CaStates /\ Sound(d, minted) /\ Extends(c, d) /\ Recent(c, d)
      /\ d.crlNumber > c.crlNumber /\ d.active = c.active
      /\ \A x : x.serials = Listed(d) => Bounded(x, d)
  <2> HIDE DEF c
  <2> QED BY <1>2, CrlNumberKeeps
<1> HIDE DEF d
<1>4. /\ cr \in Crls /\ Bounded(cr, d) /\ cr.until <= clock + Validity
  <2>1. Listed(d) \subseteq Serials
    BY DEF Listed, OnRecord
  <2>2. clock + Validity \in 0..(MaxTime + Validity) /\ clock + Validity <= clock + Validity
    BY <1>2, CaAssumption
  <2> QED BY <1>3, <2>1, <2>2 DEF Crls
<1> HIDE DEF cr
<1>5. Nothing \in Replies /\ Covers(c, Nothing) /\ Keyed(d, keys)
  BY <1>2, <1>3 DEF Nothing, Replies, Covers, Keyed
<1>6. Planned(c, q, Nothing, keys, minted + 0) /\ Timely(c, q)
  <2>1. minted + 0 = minted
    BY <1>2
  <2> HIDE DEF c
  <2> QED BY <1>2, <1>3, <1>4, <1>5, <2>1, StateThenCrl
<1> QED
  <2> HIDE DEF q
  <2> QED BY <1>1, <1>5, <1>6, ProceedFacts

-----------------------------------------------------------------------------
(* The writes.                                                             *)

\* In the middle of its writes.
LEMMA WritingFacts ==
  ASSUME TypeOK, NEW t \in Commands, TaskSafe(t), task[t].stage = "writing"
  PROVE  /\ task[t].base \in CaStates /\ task[t].files \in Seq(Writes)
         /\ task[t].reply \in Replies
         /\ Sound(task[t].base, minted) /\ Keyed(task[t].base, keys)
         /\ Planned(task[t].base, task[t].files, task[t].reply, keys, minted)
<1>1. task[t] \in TaskStates
  BY DEF TypeOK
<1> QED BY <1>1, TaskFacts DEF TaskSafe

LEMMA NextFileFacts ==
  ASSUME TypeOK, NEW t \in Commands, NEW kind, NextFile(t, kind)
  PROVE  /\ task[t].stage = "writing"
         /\ [task[t] EXCEPT !.files = Tail(@)] =
              Writing(task[t].base, Tail(task[t].files), task[t].reply)
         /\ Writing(task[t].base, Tail(task[t].files), task[t].reply) \in TaskStates
         /\ task[t].files # <<>> /\ Head(task[t].files) \in Writes
         /\ Head(task[t].files).file = kind
         /\ Head(task[t].files) = task[t].files[1] /\ 1 \in 1..Len(task[t].files)
<1>1. task[t] \in TaskStates /\ task[t].stage = "writing"
  BY DEF TypeOK, NextFile
<1> DEFINE b == task[t].base
           q == task[t].files
           r == task[t].reply
<1>2. /\ b \in CaStates /\ q \in Seq(Writes) /\ r \in Replies
      /\ task[t] = Writing(b, q, r)
  BY <1>1, TaskFacts
<1>3. q # <<>> /\ Head(q).file = kind
  BY DEF NextFile
<1>4. Head(q) = q[1] /\ Head(q) \in Writes /\ Tail(q) \in Seq(Writes)
      /\ 1 \in 1..Len(q)
  <2> HIDE DEF q
  <2> QED BY <1>2, <1>3, TailFacts
<1>5. Writing(b, Tail(q), r) \in TaskStates
  BY <1>2, <1>4, NewTaskFacts
<1>6. [task[t] EXCEPT !.files = Tail(@)] = Writing(b, Tail(q), r)
  <2> HIDE DEF b, q, r
  <2>1. Writing(b, q, r).files = q
    BY DEF Writing
  <2>2. \A w : [Writing(b, q, r) EXCEPT !.files = w] = Writing(b, w, r)
    BY DEF Writing
  <2> QED BY <1>2, <2>1, <2>2
<1> QED BY <1>1, <1>3, <1>4, <1>5, <1>6

\* Three kinds of write, by what they leave to be done.
LEMMA WriteKeyFacts ==
  ASSUME TypeOK, NEW t \in Commands, TaskSafe(t), WriteKey(t)
  PROVE  LET q == task[t].files
         IN /\ Become(t, Writing(task[t].base, Tail(q), task[t].reply))
            /\ Writing(task[t].base, Tail(q), task[t].reply) \in TaskStates
            /\ keys \subseteq keys' /\ keys' \subseteq Serials
            /\ Planned(task[t].base, Tail(q), task[t].reply, keys', minted)
            /\ task[t].stage = "writing" /\ q # <<>>
<1> DEFINE q == task[t].files
<1>1. NextFile(t, "key") /\ keys' = keys \union {Head(q).key}
      /\ Become(t, [task[t] EXCEPT !.files = Tail(@)])
  BY DEF WriteKey
<1>2. /\ task[t].stage = "writing" /\ q # <<>> /\ Head(q) \in Writes
      /\ Head(q).file = "key"
      /\ [task[t] EXCEPT !.files = Tail(@)] = Writing(task[t].base, Tail(q), task[t].reply)
      /\ Writing(task[t].base, Tail(q), task[t].reply) \in TaskStates
  BY <1>1, NextFileFacts
<1>3. Head(q).key \in Serials
  BY <1>2, WritesFacts
<1>4. Planned(task[t].base, Tail(q), task[t].reply, keys', minted)
  BY <1>1, <1>2, WritingFacts, KeyWritten
<1> QED BY <1>1, <1>2, <1>3, <1>4 DEF TypeOK

LEMMA WriteCrlFacts ==
  ASSUME TypeOK, NEW t \in Commands, TaskSafe(t), WriteCrl(t)
  PROVE  LET q == task[t].files
         IN /\ Become(t, Writing(task[t].base, Tail(q), task[t].reply))
            /\ Writing(task[t].base, Tail(q), task[t].reply) \in TaskStates
            /\ crl' = q[1].crl /\ crl' \in Crls /\ IsCrl(q, 1)
            /\ Planned(task[t].base, Tail(q), task[t].reply, keys, minted)
            /\ Tail(q) = <<>>
            /\ task[t].stage = "writing" /\ q # <<>>
<1> DEFINE q == task[t].files
<1>1. NextFile(t, "crl") /\ crl' = Head(q).crl
      /\ Become(t, [task[t] EXCEPT !.files = Tail(@)])
  BY DEF WriteCrl
<1>2. /\ task[t].stage = "writing" /\ q # <<>> /\ Head(q) \in Writes
      /\ Head(q).file = "crl" /\ Head(q) = q[1] /\ 1 \in 1..Len(q)
      /\ [task[t] EXCEPT !.files = Tail(@)] = Writing(task[t].base, Tail(q), task[t].reply)
      /\ Writing(task[t].base, Tail(q), task[t].reply) \in TaskStates
  BY <1>1, NextFileFacts
<1>3. Head(q).crl \in Crls /\ IsCrl(q, 1)
  BY <1>2, WritesFacts DEF IsCrl
<1>4. Planned(task[t].base, Tail(q), task[t].reply, keys, minted) /\ Tail(q) = <<>>
  BY <1>1, <1>2, WritingFacts, CrlWritten
<1> QED BY <1>1, <1>2, <1>3, <1>4

LEMMA PersistFacts ==
  ASSUME TypeOK, NEW t \in Commands, TaskSafe(t), Persist(t)
  PROVE  LET q == task[t].files
         IN /\ Become(t, Writing(ca', Tail(q), task[t].reply))
            /\ Writing(ca', Tail(q), task[t].reply) \in TaskStates
            /\ ca' = q[1].ca /\ ca' \in CaStates /\ IsCa(q, 1)
            /\ Sound(ca', minted) /\ Keyed(ca', keys) /\ Extends(task[t].base, ca')
            /\ Planned(ca', Tail(q), task[t].reply, keys, minted)
            /\ task[t].stage = "writing" /\ q # <<>>
<1> DEFINE q == task[t].files
<1>1. NextFile(t, "ca") /\ ca' = Head(q).ca
      /\ Become(t, Writing(ca', Tail(q), task[t].reply))
  BY DEF Persist
<1>2. /\ task[t].stage = "writing" /\ q # <<>> /\ Head(q) \in Writes
      /\ Head(q).file = "ca" /\ Head(q) = q[1] /\ 1 \in 1..Len(q)
  BY <1>1, NextFileFacts
<1>3. Head(q).ca \in CaStates /\ IsCa(q, 1)
  BY <1>2, WritesFacts DEF IsCa
<1>4. /\ Sound(ca', minted) /\ Keyed(ca', keys) /\ Extends(task[t].base, ca')
      /\ Planned(ca', Tail(q), task[t].reply, keys, minted)
  BY <1>1, <1>2, WritingFacts, CaWritten
<1>5. Tail(q) \in Seq(Writes) /\ task[t].reply \in Replies
  BY <1>4 DEF Planned
<1>6. Writing(ca', Tail(q), task[t].reply) \in TaskStates
  BY <1>1, <1>3, <1>5, NewTaskFacts
<1> QED BY <1>1, <1>2, <1>3, <1>4, <1>6

-----------------------------------------------------------------------------
(* The steps, by what they do to the commands: none but t moves.           *)

\* Nothing is decided or written.
Watches ==
  /\ \/ clock' = clock + 1 /\ clock < MaxTime /\ UNCHANGED loaded
     \/ \E v \in Services : loaded' = [loaded EXCEPT ![v] = crl] /\ UNCHANGED clock
  /\ UNCHANGED <<ca, keys, crl, overwritten, History, task, minted, begun>>

Ends(t) ==
  /\ task[t] # Idle
  /\ Become(t, Idle)
  /\ UNCHANGED <<clock, Files, loaded, minted, begun, History>>

Steps(t) == Open(t) \/ Decides(t) \/ Ends(t)
              \/ WriteKey(t) \/ Persist(t) \/ WriteCrl(t) \/ Reply(t)

\* What is said of ca.json and of the commands, and what the theorems need of
\* them: the types, the issuer's key and the successors.
KeyInv ==
  /\ TypeOK
  /\ Sound(ca, minted) /\ Keyed(ca, keys)
  /\ \A t \in Commands : TaskSafe(t)

LEMMA NextSteps ==
  ASSUME KeyInv, [Next]_vars
  PROVE  UNCHANGED vars \/ Watches \/ \E t \in Commands : Steps(t)
<1>1. CASE Tick
  BY <1>1 DEF Tick, Watches, Files, History
<1>2. CASE \E v \in Services : StartService(v)
  BY <1>2 DEF StartService, Watches, Files, History
<1>3. ASSUME NEW t \in Commands,
             \/ Open(t)
             \/ Initialize(t) \/ RotateIntermediate(t) \/ GenerateCrl(t) \/ Refuse(t)
             \/ \E id \in Identities : Issue(t, id)
             \/ \E s \in Serials : Rotate(t, s) \/ Revoke(t, s)
             \/ WriteKey(t) \/ Persist(t) \/ WriteCrl(t) \/ Reply(t) \/ Fail(t)
      PROVE  Steps(t)
  <2>1. TypeOK /\ TaskSafe(t)
    BY DEF KeyInv
  <2>2. Initialize(t) => Decides(t)
    BY <2>1, InitializeDecides
  <2>3. RotateIntermediate(t) => Decides(t)
    BY <2>1, RotateIntermediateDecides
  <2>4. GenerateCrl(t) => Decides(t)
    BY <2>1, GenerateCrlDecides
  <2>5. \A id \in Identities : Issue(t, id) => Decides(t)
    BY <2>1, IssueDecides
  <2>6. \A s \in Serials : Rotate(t, s) => Decides(t)
    BY <2>1, RotateDecides
  <2>7. \A s \in Serials : Revoke(t, s) => Decides(t)
    BY <2>1, RevokeDecides
  <2>8. Refuse(t) => Ends(t)
    <3>1. Deciding(t) => task[t] # Idle
      BY DEF Deciding, Idle
    <3> QED BY <3>1 DEF Refuse, Ends
  <2>9. Fail(t) => Ends(t)
    BY DEF Fail, Ends
  <2> QED BY <1>3, <2>2, <2>3, <2>4, <2>5, <2>6, <2>7, <2>8, <2>9 DEF Steps
<1> QED BY <1>1, <1>2, <1>3 DEF Next

LEMMA StageFacts ==
  /\ Idle \in TaskStates /\ Idle.stage = "idle"
  /\ "opened" # "idle" /\ "writing" # "idle" /\ "opened" # "writing"
  BY DEF Idle, TaskStates

\* The commands that do not move.
LEMMA OthersSafe ==
  ASSUME TypeOK, NEW u \in Commands, TaskSafe(u), task'[u] = task[u],
         keys \subseteq keys', minted' \in Nat, minted <= minted'
  PROVE  TaskSafe(u)'
<1>1. task[u] \in TaskStates /\ minted \in Nat
  BY DEF TypeOK
<1>2. ASSUME task[u].stage # "idle"
      PROVE  Sound(task[u].base, minted') /\ Keyed(task[u].base, keys')
  <2>1. task[u].base \in CaStates
    BY <1>1, <1>2, TaskFacts
  <2>2. Sound(task[u].base, minted) /\ Keyed(task[u].base, keys)
    BY <1>2 DEF TaskSafe
  <2>3. Keyed(task[u].base, keys')
    BY <2>2 DEF Keyed
  <2> QED BY <1>1, <2>1, <2>2, <2>3, SoundLater
<1>3. ASSUME task[u].stage = "writing"
      PROVE  Planned(task[u].base, task[u].files, task[u].reply, keys', minted')
  <2>1. task[u].base \in CaStates
    BY <1>1, <1>3, TaskFacts
  <2>2. Planned(task[u].base, task[u].files, task[u].reply, keys, minted)
    BY <1>3 DEF TaskSafe
  <2> QED BY <1>1, <2>1, <2>2, PlannedLater
<1> QED BY <1>2, <1>3 DEF TaskSafe

LEMMA OpenKeepsKeys ==
  ASSUME KeyInv, NEW t \in Commands, Open(t) PROVE KeyInv'
<1>1. TypeOK /\ ca \in CaStates /\ minted \in Nat
      /\ task \in [Commands -> TaskStates]
  BY DEF KeyInv, TypeOK
<1>2. /\ task' \in [Commands -> TaskStates]
      /\ task'[t] = Opened(ca) /\ \A u \in Commands \ {t} : task'[u] = task[u]
  BY <1>1, NewTaskFacts, BecomeFacts DEF Open
<1>3. TypeOK'
  <2>1. begun' \in 0..MaxCommands
    BY <1>1, CaAssumption DEF Open, TypeOK
  <2> QED BY <1>1, <1>2, <2>1 DEF Open, TypeOK, Files, History
<1>4. TaskSafe(t)'
  <2>1. task'[t].stage = "opened" /\ task'[t].base = ca
    BY <1>1, <1>2, NewTaskFacts
  <2> QED BY <2>1, StageFacts DEF KeyInv, TaskSafe, Open, Files
<1>5. \A u \in Commands : TaskSafe(u)'
  <2>1. keys' = keys /\ minted' = minted
    BY DEF Open, Files
  <2> QED BY <1>1, <1>2, <1>4, <2>1, OthersSafe DEF KeyInv
<1> QED BY <1>3, <1>5 DEF KeyInv, Open, Files

LEMMA DecideKeepsKeys ==
  ASSUME KeyInv, NEW t \in Commands, Decides(t) PROVE KeyInv'
<1>1. /\ TypeOK /\ ca \in CaStates /\ minted \in Nat /\ TaskSafe(t)
      /\ task \in [Commands -> TaskStates] /\ Deciding(t)
  BY DEF KeyInv, TypeOK, Decides, Deciding
<1> DEFINE b == task[t].base
<1>2. b \in CaStates /\ Sound(b, minted) /\ Keyed(b, keys)
  BY <1>1, DecidingFacts
<1> HIDE DEF b
<1>3. PICK q \in Seq(Writes), r \in Replies :
        Become(t, Writing(b, q, r)) /\ Planned(b, q, r, keys, minted')
  BY DEF Decides, b
<1>4. /\ minted' \in 0..MaxSerials /\ minted' \in Nat /\ minted <= minted'
      /\ keys' = keys /\ ca' = ca
  BY CaAssumption DEF Decides, Files
<1>5. /\ task' \in [Commands -> TaskStates]
      /\ task'[t] = Writing(b, q, r) /\ \A u \in Commands \ {t} : task'[u] = task[u]
  BY <1>1, <1>2, <1>3, NewTaskFacts, BecomeFacts
<1>6. TypeOK'
  BY <1>1, <1>4, <1>5 DEF Decides, TypeOK, Files
<1>7. TaskSafe(t)'
  <2>1. /\ task'[t].stage = "writing" /\ task'[t].base = b
        /\ task'[t].files = q /\ task'[t].reply = r
    BY <1>2, <1>5, NewTaskFacts
  <2>2. Sound(b, minted')
    BY <1>1, <1>2, <1>4, SoundLater
  <2> QED BY <1>2, <1>3, <1>4, <2>1, <2>2, StageFacts DEF TaskSafe
<1>8. \A u \in Commands : TaskSafe(u)'
  BY <1>1, <1>4, <1>5, <1>7, OthersSafe DEF KeyInv
<1>9. Sound(ca', minted') /\ Keyed(ca', keys')
  BY <1>1, <1>4, SoundLater DEF KeyInv
<1> QED BY <1>6, <1>8, <1>9 DEF KeyInv

LEMMA EndKeepsKeys ==
  ASSUME KeyInv, NEW t \in Commands, Ends(t) \/ Reply(t) PROVE KeyInv'
<1>1. TypeOK /\ minted \in Nat /\ task \in [Commands -> TaskStates] /\ Become(t, Idle)
  BY DEF KeyInv, TypeOK, Ends, Reply
<1>2. /\ task' \in [Commands -> TaskStates]
      /\ task'[t] = Idle /\ \A u \in Commands \ {t} : task'[u] = task[u]
  BY <1>1, StageFacts, BecomeFacts
<1>3. keys' = keys /\ minted' = minted /\ ca' = ca
  BY DEF Ends, Reply, Files
<1>4. TypeOK'
  <2>1. CASE Ends(t)
    BY <1>1, <1>2, <2>1 DEF Ends, TypeOK, Files, History
  <2>2. CASE Reply(t)
    <3>1. task[t].reply \in Replies
      BY <1>1, <2>2, WritingFacts DEF KeyInv, Reply
    <3>2. task[t].reply.certs \subseteq Serials /\ task[t].reply.revoked \subseteq Serials
      BY <3>1 DEF Replies
    <3> QED BY <1>1, <1>2, <2>2, <3>2 DEF Reply, TypeOK, Files
  <2> QED BY <2>1, <2>2
<1>5. TaskSafe(t)'
  BY <1>2, StageFacts DEF TaskSafe
<1>6. \A u \in Commands : TaskSafe(u)'
  BY <1>1, <1>2, <1>3, <1>5, OthersSafe DEF KeyInv
<1> QED BY <1>3, <1>4, <1>6 DEF KeyInv

LEMMA WriteKeepsKeys ==
  ASSUME KeyInv, NEW t \in Commands, WriteKey(t) \/ Persist(t) \/ WriteCrl(t) PROVE KeyInv'
<1>1. TypeOK /\ minted \in Nat /\ task \in [Commands -> TaskStates] /\ TaskSafe(t)
  BY DEF KeyInv, TypeOK
<1> DEFINE b == task[t].base
           w == Tail(task[t].files)
           r == task[t].reply
<1>2. task[t].stage = "writing"
  BY DEF WriteKey, Persist, WriteCrl, NextFile
<1>3. b \in CaStates /\ Sound(b, minted) /\ Keyed(b, keys)
  BY <1>1, <1>2, WritingFacts
<1>4. PICK d \in CaStates :
        /\ Become(t, Writing(d, w, r)) /\ Writing(d, w, r) \in TaskStates
        /\ Planned(d, w, r, keys', minted) /\ Sound(d, minted) /\ Keyed(d, keys')
        /\ keys \subseteq keys' /\ keys' \subseteq Serials
        /\ Sound(ca', minted) /\ Keyed(ca', keys') /\ ca' \in CaStates
        /\ crl' \in Crls \union {NoCrl}
  <2>1. CASE WriteKey(t)
    <3>1. /\ Become(t, Writing(b, w, r)) /\ Writing(b, w, r) \in TaskStates
          /\ keys \subseteq keys' /\ keys' \subseteq Serials
          /\ Planned(b, w, r, keys', minted)
      BY <1>1, <2>1, WriteKeyFacts
    <3>2. Keyed(b, keys') /\ Keyed(ca, keys') /\ ca' = ca /\ crl' = crl
      BY <1>3, <2>1, <3>1 DEF KeyInv, Keyed, WriteKey
    <3> HIDE DEF b, w, r
    <3> QED BY <1>1, <1>3, <3>1, <3>2 DEF KeyInv, TypeOK
  <2>2. CASE Persist(t)
    <3>1. /\ Become(t, Writing(ca', w, r)) /\ Writing(ca', w, r) \in TaskStates
          /\ ca' \in CaStates /\ Sound(ca', minted) /\ Keyed(ca', keys)
          /\ Planned(ca', w, r, keys, minted)
      BY <1>1, <2>2, PersistFacts
    <3>2. keys' = keys /\ crl' = crl
      BY <2>2 DEF Persist
    <3> HIDE DEF b, w, r
    <3> QED BY <1>1, <3>1, <3>2 DEF TypeOK
  <2>3. CASE WriteCrl(t)
    <3>1. /\ Become(t, Writing(b, w, r)) /\ Writing(b, w, r) \in TaskStates
          /\ crl' \in Crls /\ Planned(b, w, r, keys, minted)
      BY <1>1, <2>3, WriteCrlFacts
    <3>2. keys' = keys /\ ca' = ca
      BY <2>3 DEF WriteCrl
    <3> HIDE DEF b, w, r
    <3> QED BY <1>1, <1>3, <3>1, <3>2 DEF KeyInv, TypeOK
  <2> QED BY <2>1, <2>2, <2>3
<1> HIDE DEF b, w, r
<1>5. /\ task' \in [Commands -> TaskStates]
      /\ task'[t] = Writing(d, w, r) /\ \A u \in Commands \ {t} : task'[u] = task[u]
  BY <1>1, <1>4, BecomeFacts
<1>6. /\ minted' = minted
      /\ UNCHANGED <<clock, loaded, begun, delivered, annulled>>
      /\ overwritten' \in BOOLEAN
  BY <1>1 DEF WriteKey, Persist, WriteCrl, History, TypeOK
<1>7. TypeOK'
  BY <1>1, <1>4, <1>5, <1>6 DEF TypeOK
<1>8. TaskSafe(t)'
  <2>1. /\ task'[t].stage = "writing" /\ task'[t].base = d
        /\ task'[t].files = w /\ task'[t].reply = r
    BY <1>5 DEF Writing
  <2> QED BY <1>4, <1>6, <2>1 DEF TaskSafe
<1>9. \A u \in Commands : TaskSafe(u)'
  BY <1>1, <1>4, <1>5, <1>6, <1>8, OthersSafe DEF KeyInv
<1> QED BY <1>4, <1>6, <1>7, <1>9 DEF KeyInv

LEMMA StutterKeepsKeys ==
  ASSUME KeyInv, UNCHANGED vars PROVE KeyInv'
  BY DEF KeyInv, TypeOK, TaskSafe, vars

LEMMA WatchKeepsKeys ==
  ASSUME KeyInv, Watches PROVE KeyInv'
<1>1. TypeOK'
  <2>1. clock' \in 0..MaxTime
    BY CaAssumption DEF KeyInv, TypeOK, Watches
  <2>2. loaded' \in [Services -> Crls \union {NoCrl}]
    BY DEF KeyInv, TypeOK, Watches
  <2> QED BY <2>1, <2>2 DEF KeyInv, TypeOK, Watches, History
<1> QED BY <1>1 DEF KeyInv, TaskSafe, Watches

LEMMA KeyInvStep ==
  ASSUME KeyInv, [Next]_vars PROVE KeyInv'
  BY NextSteps, StutterKeepsKeys, WatchKeepsKeys, OpenKeepsKeys, DecideKeepsKeys,
     EndKeepsKeys, WriteKeepsKeys DEF Steps

LEMMA KeyInvInit ==
  ASSUME Init PROVE KeyInv
<1>1. NoCa \in CaStates /\ OnRecord(NoCa) = {} /\ NoCa.active = None
  BY NoCaFacts
<1>2. Sound(NoCa, 0) /\ Keyed(NoCa, {})
  BY <1>1 DEF Sound, Keyed
<1>3. TypeOK
  <2>1. 0 \in 0..MaxTime /\ 0 \in 0..MaxSerials /\ 0 \in 0..MaxCommands
    BY CaAssumption
  <2>2. task \in [Commands -> TaskStates]
    BY StageFacts DEF Init
  <2> QED BY <1>1, <2>1, <2>2 DEF Init, TypeOK
<1>4. \A t \in Commands : TaskSafe(t)
  BY StageFacts DEF Init, TaskSafe
<1> QED BY <1>2, <1>3, <1>4 DEF Init, KeyInv

LEMMA KeyInvHolds == Spec => []KeyInv
<1>1. Init => KeyInv
  BY KeyInvInit
<1>2. KeyInv /\ [Next]_vars => KeyInv'
  BY KeyInvStep
<1> QED BY <1>1, <1>2, PTL DEF Spec

(***************************************************************************)
(* The certificate authority keeps its types: what commands write, in any  *)
(* order and wherever they end, can be read back.                          *)
(***************************************************************************)
THEOREM CaTypes == Spec => []TypeOK
<1>1. KeyInv => TypeOK
  BY DEF KeyInv
<1> QED BY <1>1, KeyInvHolds, PTL

(***************************************************************************)
(* The issuer that ca.json names is on record and its key is on file.      *)
(* Every list of files a command has yet to write puts the key first or    *)
(* finds it there (KeysFirst), and keys are never removed.                 *)
(***************************************************************************)
THEOREM IssuerHasKey == Spec => []ActiveHasKey
<1>1. KeyInv => ActiveHasKey
  BY DEF KeyInv, Sound, Keyed, ActiveHasKey
<1> QED BY <1>1, KeyInvHolds, PTL

(***************************************************************************)
(* A superseded certificate has a successor: true of every state on file   *)
(* and of every one a command is about to write (Sound), so it does not    *)
(* matter which of them comes last.                                        *)
(***************************************************************************)
THEOREM SuccessorStays == Spec => []SupersededHasSuccessor
<1>1. KeyInv => SupersededHasSuccessor
  BY DEF KeyInv, Sound, SupersededHasSuccessor
<1> QED BY <1>1, KeyInvHolds, PTL

-----------------------------------------------------------------------------
(* What is kept as long as no state was overwritten.                       *)

WritingNow == {t \in Commands : task[t].stage = "writing"}

\* The CRLs made from a state on file: published, loaded, or about to be
\* published.
OutCrls ==
  {crl} \union {loaded[v] : v \in Services}
    \union {task[t].files[1].crl : t \in {u \in WritingNow : IsCrl(task[u].files, 1)}}

Told == [certs |-> delivered, revoked |-> annulled]

\* CRLs expire in time.
Expiring ==
  /\ \A cr \in OutCrls : cr.until <= clock + Validity
  /\ \A t \in WritingNow : \A k \in 1..Len(task[t].files) :
       IsCrl(task[t].files, k) => task[t].files[k].crl.until <= clock + Validity

BasesKept == \A t \in Commands : task[t].stage # "idle" => Extends(task[t].base, ca)

CrlsKept == \A cr \in OutCrls : Bounded(cr, ca)

\* So will they be after the next writes of a command that has read the
\* latest state.
CrlsStayKept ==
  \A t \in WritingNow : task[t].base = ca =>
    \A k \in 1..Len(task[t].files) : IsCa(task[t].files, k) =>
      \A cr \in OutCrls : Bounded(cr, task[t].files[k].ca)

Kept == BasesKept /\ Covers(ca, Told) /\ CrlsKept /\ CrlsStayKept

CrlInv == KeyInv /\ Expiring /\ (overwritten \/ Kept)

LEMMA UntilFacts ==
  ASSUME KeyInv PROVE \A cr \in OutCrls : cr.until \in Int
<1>1. /\ crl \in Crls \union {NoCrl}
      /\ \A v \in Services : loaded[v] \in Crls \union {NoCrl}
  BY DEF KeyInv, TypeOK
<1>2. \A t \in WritingNow : IsCrl(task[t].files, 1) => task[t].files[1].crl \in Crls
  <2> SUFFICES ASSUME NEW t \in WritingNow, IsCrl(task[t].files, 1)
               PROVE  task[t].files[1].crl \in Crls
    OBVIOUS
  <2>1. task[t].files \in Seq(Writes)
    BY WritingFacts DEF KeyInv, WritingNow
  <2>2. task[t].files[1] \in Writes
    BY <2>1, ElementOfSeq DEF IsCrl
  <2> QED BY <2>2, WritesFacts DEF IsCrl
<1>3. \A cr \in Crls \union {NoCrl} : cr.until \in Int
  BY CaAssumption DEF Crls, NoCrl
<1> QED BY <1>1, <1>2, <1>3 DEF OutCrls

\* A step of t that leaves ca.json alone, and no CRL comes to be published.
LEMMA QuietStep ==
  ASSUME CrlInv, KeyInv', NEW t \in Commands,
         \A u \in Commands \ {t} : task'[u] = task[u],
         loaded' = loaded, clock' = clock, ca' = ca, overwritten' = overwritten,
         crl' \in OutCrls,
         task'[t].stage = "writing" =>
           /\ ~IsCrl(task'[t].files, 1)
           /\ \A k \in 1..Len(task'[t].files) :
                IsCrl(task'[t].files, k) => task'[t].files[k].crl.until <= clock + Validity,
         Kept /\ ~overwritten =>
           /\ task'[t].stage # "idle" => Extends(task'[t].base, ca)
           /\ Covers(ca, Told')
           /\ task'[t].stage = "writing" /\ task'[t].base = ca =>
                \A k \in 1..Len(task'[t].files) : IsCa(task'[t].files, k) =>
                  \A cr \in OutCrls : Bounded(cr, task'[t].files[k].ca)
  PROVE  CrlInv'
<1>1. \A u \in WritingNow' : u = t \/ (u \in WritingNow /\ task'[u] = task[u])
  BY DEF WritingNow
<1>2. OutCrls' \subseteq OutCrls
  <2>1. OutCrls' = {crl'} \union {loaded'[v] : v \in Services}
          \union {task'[u].files[1].crl : u \in {x \in WritingNow' : IsCrl(task'[x].files, 1)}}
    BY DEF OutCrls, IsCrl
  <2>2. ASSUME NEW u \in WritingNow', IsCrl(task'[u].files, 1)
        PROVE  task'[u].files[1].crl \in OutCrls
    <3>1. u # t
      BY <2>2 DEF WritingNow
    <3> QED BY <1>1, <2>2, <3>1 DEF OutCrls
  <2>3. \A v \in Services : loaded'[v] \in OutCrls
    BY DEF OutCrls
  <2> QED BY <2>1, <2>2, <2>3
<1>3. Expiring'
  <2>1. \A cr \in OutCrls' : cr.until <= clock' + Validity
    BY <1>2 DEF CrlInv, Expiring
  <2>2. ASSUME NEW u \in WritingNow', NEW k \in 1..Len(task'[u].files),
               IsCrl(task'[u].files, k)
        PROVE  task'[u].files[k].crl.until <= clock' + Validity
    BY <1>1, <2>2 DEF CrlInv, Expiring, WritingNow
  <2> QED BY <2>1, <2>2 DEF Expiring, IsCrl
<1>4. ASSUME Kept, ~overwritten PROVE Kept'
  <2>1. BasesKept'
    BY <1>4 DEF Kept, BasesKept
  <2>2. Covers(ca, Told)'
    BY <1>4 DEF Covers, Told, OnRecord, IsRevoked
  <2>3. CrlsKept'
    BY <1>2, <1>4 DEF Kept, CrlsKept
  <2>4. CrlsStayKept'
    <3> SUFFICES ASSUME NEW u \in WritingNow', task'[u].base = ca,
                        NEW k \in 1..Len(task'[u].files), IsCa(task'[u].files, k),
                        NEW cr \in OutCrls
                 PROVE  Bounded(cr, task'[u].files[k].ca)
      BY <1>2 DEF CrlsStayKept, IsCa
    <3>1. CASE u = t
      BY <1>4, <3>1 DEF WritingNow
    <3>2. CASE u # t
      BY <1>1, <1>4, <3>2 DEF Kept, CrlsStayKept
    <3> QED BY <3>1, <3>2
  <2> QED BY <2>1, <2>2, <2>3, <2>4 DEF Kept
<1> QED BY <1>3, <1>4 DEF CrlInv

LEMMA WatchKeepsCrls ==
  ASSUME CrlInv, KeyInv', Watches PROVE CrlInv'
<1>1. /\ clock \in Int /\ clock' \in Int /\ clock <= clock' /\ Validity \in Int
      /\ UNCHANGED <<ca, crl, overwritten, task, delivered, annulled>>
  BY CaAssumption DEF CrlInv, KeyInv, TypeOK, Watches, History
<1>2. \A v \in Services : loaded'[v] \in OutCrls
  BY DEF CrlInv, KeyInv, TypeOK, Watches, OutCrls
<1>3. OutCrls' \subseteq OutCrls /\ WritingNow' = WritingNow
  BY <1>1, <1>2 DEF OutCrls, WritingNow, IsCrl
<1>4. Expiring'
  <2>1. ASSUME NEW cr \in OutCrls' PROVE cr.until <= clock' + Validity
    BY <1>1, <1>3, UntilFacts DEF CrlInv, Expiring
  <2>2. ASSUME NEW u \in WritingNow', NEW k \in 1..Len(task'[u].files),
               IsCrl(task'[u].files, k)
        PROVE  task'[u].files[k].crl.until <= clock' + Validity
    <3>1. u \in WritingNow /\ IsCrl(task[u].files, k) /\ task'[u] = task[u]
      BY <1>1, <1>3, <2>2
    <3>2. task[u].files[k].crl.until <= clock + Validity
      BY <3>1 DEF CrlInv, Expiring, IsCrl
    <3>3. task[u].files[k].crl.until \in Int
      <4>1. task[u].files \in Seq(Writes)
        BY <3>1, WritingFacts DEF CrlInv, KeyInv, WritingNow
      <4>2. task[u].files[k] \in Writes
        BY <3>1, <4>1, ElementOfSeq DEF IsCrl
      <4> QED BY <3>1, <4>2, WritesFacts, CaAssumption DEF IsCrl, Crls
    <3> QED BY <1>1, <3>1, <3>2, <3>3
  <2> QED BY <2>1, <2>2 DEF Expiring, IsCrl
<1>5. Kept => Kept'
  BY <1>1, <1>3
     DEF Kept, BasesKept, Covers, Told, OnRecord, IsRevoked, CrlsKept, CrlsStayKept, IsCa
<1> QED BY <1>1, <1>4, <1>5 DEF CrlInv

LEMMA OpenKeepsCrls ==
  ASSUME CrlInv, KeyInv', NEW t \in Commands, Open(t) PROVE CrlInv'
<1>1. ca \in CaStates /\ task \in [Commands -> TaskStates]
  BY DEF CrlInv, KeyInv, TypeOK
<1>2. task'[t] = Opened(ca) /\ \A u \in Commands \ {t} : task'[u] = task[u]
  BY <1>1, NewTaskFacts, BecomeFacts DEF Open
<1>3. task'[t].stage = "opened" /\ task'[t].base = ca
  BY <1>1, <1>2, NewTaskFacts
<1>4. Extends(ca, ca)
  BY <1>1, ExtendsReflexive
<1>5. UNCHANGED <<clock, ca, crl, overwritten, loaded, delivered, annulled>>
  BY DEF Open, Files, History
<1>6. Kept => Covers(ca, Told')
  BY <1>5 DEF Kept, Told
<1> QED BY <1>2, <1>3, <1>4, <1>5, <1>6, StageFacts, QuietStep DEF OutCrls

LEMMA EndKeepsCrls ==
  ASSUME CrlInv, KeyInv', NEW t \in Commands, Ends(t) \/ Reply(t) PROVE CrlInv'
<1>1. task \in [Commands -> TaskStates] /\ Become(t, Idle)
  BY DEF CrlInv, KeyInv, TypeOK, Ends, Reply
<1>2. task'[t] = Idle /\ \A u \in Commands \ {t} : task'[u] = task[u]
  BY <1>1, StageFacts, BecomeFacts
<1>3. UNCHANGED <<clock, ca, crl, overwritten, loaded>>
  BY DEF Ends, Reply, Files
<1>4. Kept => Covers(ca, Told')
  <2> SUFFICES ASSUME Kept PROVE Covers(ca, Told')
    OBVIOUS
  <2>1. CASE Ends(t)
    BY <2>1 DEF Ends, History, Kept, Told
  <2>2. CASE Reply(t)
    <3>1. task[t].stage = "writing" /\ task[t].files = <<>>
      BY <2>2 DEF Reply
    <3>2. Answered(task[t].base, <<>>, task[t].reply)
      BY <3>1, WritingFacts DEF CrlInv, KeyInv, Planned
    <3>3. Covers(task[t].base, task[t].reply)
      BY <3>2 DEF Answered
    <3>4. Covers(ca, task[t].reply)
      BY <3>1, <3>3, CoversGrows, StageFacts DEF Kept, BasesKept
    <3> QED BY <2>2, <3>4 DEF Reply, Kept, Covers, Told
  <2> QED BY <2>1, <2>2
<1> QED BY <1>2, <1>3, <1>4, StageFacts, QuietStep DEF OutCrls

LEMMA DecideKeepsCrls ==
  ASSUME CrlInv, KeyInv', NEW t \in Commands, Decides(t) PROVE CrlInv'
<1> DEFINE b == task[t].base
<1>1. /\ b \in CaStates /\ task \in [Commands -> TaskStates] /\ clock \in Nat
      /\ task[t].stage = "opened"
  <2>1. TypeOK /\ TaskSafe(t) /\ Deciding(t)
    BY DEF CrlInv, KeyInv, Decides, Deciding
  <2> QED BY <2>1, DecidingFacts DEF TypeOK, Deciding
<1>2. PICK q \in Seq(Writes), r \in Replies :
        /\ Become(t, Writing(b, q, r)) /\ Planned(b, q, r, keys, minted')
        /\ Timely(b, q)
  BY DEF Decides
<1>3. UNCHANGED <<clock, ca, crl, overwritten, loaded, delivered, annulled>>
  BY DEF Decides, Files
<1>4. Kept => Extends(b, ca)
  BY <1>1, StageFacts DEF Kept, BasesKept
<1> HIDE DEF b
<1>5. /\ task'[t] = Writing(b, q, r) /\ \A u \in Commands \ {t} : task'[u] = task[u]
  BY <1>1, <1>2, NewTaskFacts, BecomeFacts
<1>6. task'[t].stage = "writing" /\ task'[t].base = b /\ task'[t].files = q
  BY <1>1, <1>5, NewTaskFacts
<1>7. /\ ~IsCrl(q, 1)
      /\ \A k \in 1..Len(q) : IsCrl(q, k) => q[k].crl.until <= clock + Validity
  BY <1>2 DEF Timely, IsCrl
<1>8. ASSUME Kept, b = ca, NEW k \in 1..Len(q), IsCa(q, k), NEW cr \in OutCrls
      PROVE  Bounded(cr, q[k].ca)
  <2>1. q[k] \in Writes /\ q[k].file = "ca"
    BY <1>2, <1>8, ElementOfSeq DEF IsCa
  <2>2. q[k].ca \in CaStates
    BY <2>1, WritesFacts
  <2>3. Bounded(cr, b)
    BY <1>8 DEF Kept, CrlsKept
  <2>4. cr.until <= clock + Validity
    BY DEF CrlInv, Expiring
  <2>5. Recent(b, q[k].ca)
    BY <1>2, <1>8 DEF Timely
  <2> QED BY <1>1, <2>2, <2>3, <2>4, <2>5, BoundedByRecent
<1>9. Kept => Covers(ca, Told')
  BY <1>3 DEF Kept, Told
<1>10. crl' \in OutCrls
  BY <1>3 DEF OutCrls
<1>11. Kept /\ ~overwritten =>
         /\ task'[t].stage # "idle" => Extends(task'[t].base, ca)
         /\ Covers(ca, Told')
         /\ task'[t].stage = "writing" /\ task'[t].base = ca =>
              \A k \in 1..Len(task'[t].files) : IsCa(task'[t].files, k) =>
                \A cr \in OutCrls : Bounded(cr, task'[t].files[k].ca)
  BY <1>4, <1>6, <1>8, <1>9
<1>12. task'[t].stage = "writing" =>
         /\ ~IsCrl(task'[t].files, 1)
         /\ \A k \in 1..Len(task'[t].files) :
              IsCrl(task'[t].files, k) => task'[t].files[k].crl.until <= clock + Validity
  BY <1>6, <1>7
<1> QED BY <1>3, <1>5, <1>10, <1>11, <1>12, QuietStep

LEMMA TailWrites ==
  ASSUME NEW q \in Seq(Writes), q # <<>>, NEW k \in 1..Len(Tail(q))
  PROVE  /\ k + 1 \in 1..Len(q) /\ Tail(q)[k] = q[k + 1] /\ k + 1 > 1
         /\ IsCa(Tail(q), k) <=> IsCa(q, k + 1)
         /\ IsCrl(Tail(q), k) <=> IsCrl(q, k + 1)
<1>1. k + 1 \in 1..Len(q) /\ Tail(q)[k] = q[k + 1] /\ k + 1 > 1
  BY TailFacts
<1> QED BY <1>1 DEF IsCa, IsCrl

\* A command has written a key or a CRL.
LEMMA WriteKeepsCrls ==
  ASSUME CrlInv, KeyInv', NEW t \in Commands, WriteKey(t) \/ WriteCrl(t) PROVE CrlInv'
<1> DEFINE b == task[t].base
           q == task[t].files
           r == task[t].reply
           w == Tail(q)
<1>1. /\ TypeOK /\ TaskSafe(t) /\ task \in [Commands -> TaskStates]
      /\ task[t].stage = "writing" /\ q # <<>>
  BY DEF CrlInv, KeyInv, TypeOK, WriteKey, WriteCrl, NextFile
<1>2. /\ b \in CaStates /\ q \in Seq(Writes) /\ r \in Replies /\ CrlLast(b, q)
  BY <1>1, WritingFacts DEF Planned
<1>3. /\ Become(t, Writing(b, w, r)) /\ Writing(b, w, r) \in TaskStates
      /\ crl' \in OutCrls /\ \A k \in 1..Len(w) : ~IsCrl(w, k)
  <2>1. CASE WriteKey(t)
    <3>1. Become(t, Writing(b, w, r)) /\ Writing(b, w, r) \in TaskStates
      BY <1>1, <2>1, WriteKeyFacts
    <3>2. q[1].file = "key" /\ crl' = crl
      BY <1>1, <2>1, NextFileFacts DEF WriteKey
    <3>3. ASSUME NEW k \in 1..Len(w), IsCrl(w, k) PROVE FALSE
      <4> HIDE DEF b, q
      <4>1. k + 1 \in 1..Len(q) /\ IsCrl(q, k + 1) /\ k + 1 > 1
        BY <1>1, <1>2, <3>3, TailWrites
      <4>2. k + 1 <= 2 /\ (k + 1 = 2 => IsCa(q, 1))
        BY <1>2, <4>1 DEF CrlLast
      <4> QED BY <3>2, <4>1, <4>2 DEF IsCa
    <3> QED BY <3>1, <3>2, <3>3 DEF OutCrls
  <2>2. CASE WriteCrl(t)
    <3>1. /\ Become(t, Writing(b, w, r)) /\ Writing(b, w, r) \in TaskStates
          /\ crl' = q[1].crl /\ IsCrl(q, 1) /\ w = <<>>
      BY <1>1, <2>2, WriteCrlFacts
    <3>2. crl' \in OutCrls
      BY <1>1, <3>1 DEF OutCrls, WritingNow
    <3>3. 1..Len(w) = {}
      BY <3>1
    <3> HIDE DEF b, q, r, w
    <3> QED BY <3>1, <3>2, <3>3
  <2> QED BY <2>1, <2>2
<1>4. UNCHANGED <<clock, ca, overwritten, loaded, delivered, annulled>>
  BY DEF WriteKey, WriteCrl, History
<1>5. ASSUME Kept, b = ca, NEW k \in 1..Len(w), IsCa(w, k), NEW cr \in OutCrls
      PROVE  Bounded(cr, w[k].ca)
  <2>1. k + 1 \in 1..Len(q) /\ IsCa(q, k + 1) /\ w[k] = q[k + 1]
    <3> HIDE DEF q
    <3> QED BY <1>1, <1>2, <1>5, TailWrites
  <2> QED BY <1>1, <1>5, <2>1 DEF Kept, CrlsStayKept, WritingNow
<1>6. Kept => Extends(b, ca) /\ Covers(ca, Told')
  BY <1>1, <1>4, StageFacts DEF Kept, BasesKept, Told
<1> HIDE DEF b, q, r, w
<1>7. task'[t] = Writing(b, w, r) /\ \A u \in Commands \ {t} : task'[u] = task[u]
  BY <1>1, <1>3, BecomeFacts
<1>8. task'[t].stage = "writing" /\ task'[t].base = b /\ task'[t].files = w
  BY <1>7 DEF Writing
<1>9. Kept /\ ~overwritten =>
        /\ task'[t].stage # "idle" => Extends(task'[t].base, ca)
        /\ Covers(ca, Told')
        /\ task'[t].stage = "writing" /\ task'[t].base = ca =>
             \A k \in 1..Len(task'[t].files) : IsCa(task'[t].files, k) =>
               \A cr \in OutCrls : Bounded(cr, task'[t].files[k].ca)
  BY <1>5, <1>6, <1>8
<1>10. task'[t].stage = "writing" =>
         /\ ~IsCrl(task'[t].files, 1)
         /\ \A k \in 1..Len(task'[t].files) :
              IsCrl(task'[t].files, k) => task'[t].files[k].crl.until <= clock + Validity
  BY <1>3, <1>8 DEF IsCrl
<1> QED BY <1>3, <1>4, <1>7, <1>9, <1>10, QuietStep

\* A command has written ca.json.  If it had not read the latest state,
\* nothing more is claimed; else the other commands that read the new state
\* before it was there can only have read one that is the same.
LEMMA PersistKeepsCrls ==
  ASSUME CrlInv, KeyInv', NEW t \in Commands, Persist(t) PROVE CrlInv'
<1> DEFINE b == task[t].base
           q == task[t].files
           r == task[t].reply
           w == Tail(q)
<1>1. /\ TypeOK /\ TaskSafe(t) /\ task \in [Commands -> TaskStates] /\ ca \in CaStates
      /\ task[t].stage = "writing" /\ q # <<>>
  BY DEF CrlInv, KeyInv, TypeOK, Persist, NextFile
<1>2. /\ b \in CaStates /\ q \in Seq(Writes) /\ CrlLast(b, q) /\ Growing(b, q)
  BY <1>1, WritingFacts DEF Planned
<1>3. /\ Become(t, Writing(ca', w, r)) /\ Writing(ca', w, r) \in TaskStates
      /\ ca' = q[1].ca /\ ca' \in CaStates /\ IsCa(q, 1) /\ Extends(b, ca')
  BY <1>1, PersistFacts
<1>4. /\ UNCHANGED <<clock, crl, loaded, delivered, annulled>>
      /\ overwritten' = (overwritten \/ ca # b)
  BY DEF Persist, History
<1>5. task'[t] = Writing(ca', w, r) /\ \A u \in Commands \ {t} : task'[u] = task[u]
  BY <1>1, <1>3, BecomeFacts
<1>6. task'[t].stage = "writing" /\ task'[t].base = ca' /\ task'[t].files = w
  BY <1>5 DEF Writing
<1>7. \A u \in WritingNow' : u = t \/ (u \in WritingNow /\ task'[u] = task[u])
  BY <1>5 DEF WritingNow
<1>8. t \in WritingNow
  BY <1>1 DEF WritingNow
<1>9. \A k \in 1..Len(w) : /\ k + 1 \in 1..Len(q) /\ w[k] = q[k + 1] /\ k + 1 > 1
                           /\ IsCa(w, k) <=> IsCa(q, k + 1)
                           /\ IsCrl(w, k) <=> IsCrl(q, k + 1)
  <2> HIDE DEF q
  <2> QED BY <1>1, <1>2, TailWrites
<1>10. \A cr \in OutCrls' : cr \in OutCrls \/ (IsCrl(w, 1) /\ cr = w[1].crl)
  <2>1. OutCrls' = {crl} \union {loaded[v] : v \in Services}
          \union {task'[u].files[1].crl : u \in {x \in WritingNow' : IsCrl(task'[x].files, 1)}}
    BY <1>4 DEF OutCrls, IsCrl
  <2>2. ASSUME NEW u \in WritingNow', IsCrl(task'[u].files, 1)
        PROVE  \/ task'[u].files[1].crl \in OutCrls
               \/ IsCrl(w, 1) /\ task'[u].files[1].crl = w[1].crl
    <3>1. CASE u = t
      BY <1>6, <2>2, <3>1
    <3>2. CASE u # t
      BY <1>7, <2>2, <3>2 DEF OutCrls
    <3> QED BY <3>1, <3>2
  <2>3. crl \in OutCrls /\ \A v \in Services : loaded[v] \in OutCrls
    BY DEF OutCrls
  <2> QED BY <2>1, <2>2, <2>3
\* The CRL that comes to be published.
<1>11. IsCrl(w, 1) => /\ Bounded(w[1].crl, ca')
                      /\ ca'.crlNumber > b.crlNumber
                      /\ w[1].crl.until <= clock + Validity
                      /\ \A k \in 1..Len(w) : ~IsCa(w, k)
  <2> SUFFICES ASSUME IsCrl(w, 1)
               PROVE  /\ Bounded(w[1].crl, ca')
                      /\ ca'.crlNumber > b.crlNumber
                      /\ w[1].crl.until <= clock + Validity
                      /\ \A k \in 1..Len(w) : ~IsCa(w, k)
    OBVIOUS
  <2>1. 1 \in 1..Len(w)
    BY DEF IsCrl
  <2>2. 2 \in 1..Len(q) /\ IsCrl(q, 2) /\ w[1] = q[2]
    BY <1>9, <2>1
  <2>3. 2 = Len(q) /\ q[1].ca.crlNumber > b.crlNumber /\ Bounded(q[2].crl, q[1].ca)
    <3> HIDE DEF b, q
    <3> QED BY <1>2, <2>2 DEF CrlLast
  <2>4. q[2].crl.until <= clock + Validity
    BY <1>8, <2>2 DEF CrlInv, Expiring
  <2>5. ASSUME NEW k \in 1..Len(w), IsCa(w, k) PROVE FALSE
    <3>1. k = 1
      BY <1>9, <2>3
    <3> HIDE DEF w
    <3> QED BY <2>5, <3>1 DEF IsCa, IsCrl
  <2> QED BY <1>3, <2>2, <2>3, <2>4, <2>5
<1>12. Expiring'
  <2>1. \A cr \in OutCrls' : cr.until <= clock' + Validity
    BY <1>4, <1>10, <1>11 DEF CrlInv, Expiring
  <2>2. ASSUME NEW u \in WritingNow', NEW k \in 1..Len(task'[u].files),
               IsCrl(task'[u].files, k)
        PROVE  task'[u].files[k].crl.until <= clock' + Validity
    <3>1. CASE u = t
      <4>1. /\ k + 1 \in 1..Len(q) /\ IsCrl(q, k + 1)
            /\ task'[u].files[k] = q[k + 1]
        BY <1>6, <1>9, <2>2, <3>1
      <4> QED BY <1>4, <1>8, <4>1 DEF CrlInv, Expiring
    <3>2. CASE u # t
      BY <1>4, <1>7, <2>2, <3>2 DEF CrlInv, Expiring
    <3> QED BY <3>1, <3>2
  <2> QED BY <2>1, <2>2 DEF Expiring, IsCrl
<1>13. ASSUME ~overwritten' PROVE Kept'
  <2>1. ~overwritten /\ b = ca /\ Kept
    BY <1>4, <1>13 DEF CrlInv
  <2>2. Extends(ca, ca')
    BY <1>3, <2>1
  \* Others that have read what is written now.
  <2>3. ASSUME NEW u \in Commands, u # t, task[u].stage # "idle", task[u].base = ca'
        PROVE  ca' = ca
    <3>1. Extends(ca', ca)
      BY <2>1, <2>3 DEF Kept, BasesKept
    <3> QED BY <1>1, <1>3, <2>2, <3>1, ExtendsAntisymmetric
  <2>4. BasesKept'
    <3> SUFFICES ASSUME NEW u \in Commands, task'[u].stage # "idle"
                 PROVE  Extends(task'[u].base, ca')
      BY DEF BasesKept
    <3>1. CASE u = t
      BY <1>3, <1>6, <3>1, ExtendsReflexive
    <3>2. CASE u # t
      <4>1. task'[u] = task[u] /\ task[u] \in TaskStates
        BY <1>1, <1>5, <3>2
      <4>2. task[u].base \in CaStates
        BY <4>1, TaskFacts
      <4>3. Extends(task[u].base, ca)
        BY <2>1, <4>1 DEF Kept, BasesKept
      <4> QED BY <1>1, <1>3, <2>2, <4>1, <4>2, <4>3, ExtendsTransitive
    <3> QED BY <3>1, <3>2
  <2>5. Covers(ca, Told)'
    <3>1. Covers(ca', Told)
      BY <2>1, <2>2, CoversGrows DEF Kept
    <3> QED BY <1>4, <3>1 DEF Told, Covers, OnRecord, IsRevoked
  <2>6. \A cr \in OutCrls : Bounded(cr, ca')
    BY <1>3, <1>8, <2>1 DEF Kept, CrlsStayKept, IsCa
  <2>7. CrlsKept'
    BY <1>10, <1>11, <2>6 DEF CrlsKept
  <2>8. CrlsStayKept'
    <3> SUFFICES ASSUME NEW u \in WritingNow', task'[u].base = ca',
                        NEW k \in 1..Len(task'[u].files), IsCa(task'[u].files, k),
                        NEW cr \in OutCrls'
                 PROVE  Bounded(cr, task'[u].files[k].ca)
      BY DEF CrlsStayKept, IsCa
    <3>1. CASE u = t
      <4>1. IsCa(w, k) /\ k \in 1..Len(w) /\ task'[u].files[k] = w[k]
        BY <1>6, <3>1
      <4>2. cr \in OutCrls
        BY <1>10, <1>11, <4>1
      <4>3. k + 1 \in 1..Len(q) /\ IsCa(q, k + 1) /\ w[k] = q[k + 1]
        BY <1>9, <4>1
      <4> QED BY <1>8, <2>1, <4>1, <4>2, <4>3 DEF Kept, CrlsStayKept
    <3>2. CASE u # t
      <4>1. u \in WritingNow /\ task'[u] = task[u]
        BY <1>7, <3>2
      <4>2. ca' = ca
        BY <2>3, <3>2, <4>1, StageFacts DEF WritingNow
      <4>3. cr \in OutCrls
        <5>1. b.crlNumber \in Nat
          BY <1>2 DEF CaStates
        <5> QED BY <1>10, <1>11, <2>1, <4>2, <5>1
      <4> QED BY <2>1, <4>1, <4>2, <4>3 DEF Kept, CrlsStayKept
    <3> QED BY <3>1, <3>2
  <2> QED BY <2>4, <2>5, <2>7, <2>8 DEF Kept
<1> QED BY <1>12, <1>13 DEF CrlInv

LEMMA CrlInvStep ==
  ASSUME CrlInv, [Next]_vars PROVE CrlInv'
<1>1. KeyInv /\ KeyInv'
  BY KeyInvStep DEF CrlInv
<1>2. CASE UNCHANGED vars
  <2>1. UNCHANGED <<clock, ca, crl, loaded, task, delivered, annulled, overwritten>>
    BY <1>2 DEF vars
  <2>2. OutCrls' = OutCrls /\ WritingNow' = WritingNow
    BY <2>1 DEF OutCrls, WritingNow, IsCrl
  <2>3. Expiring' = Expiring /\ BasesKept' = BasesKept
    BY <2>1, <2>2 DEF Expiring, BasesKept, IsCrl
  <2>4. Covers(ca, Told)' = Covers(ca, Told)
    BY <2>1 DEF Covers, Told, OnRecord, IsRevoked
  <2>5. CrlsKept' = CrlsKept /\ CrlsStayKept' = CrlsStayKept
    BY <2>1, <2>2 DEF CrlsKept, CrlsStayKept, IsCa
  <2> QED BY <1>1, <2>1, <2>3, <2>4, <2>5 DEF CrlInv, Kept
<1>3. CASE Watches
  BY <1>1, <1>3, WatchKeepsCrls
<1>4. ASSUME NEW t \in Commands, Steps(t) PROVE CrlInv'
  BY <1>1, <1>4, OpenKeepsCrls, DecideKeepsCrls, EndKeepsCrls, WriteKeepsCrls,
     PersistKeepsCrls DEF Steps
<1> QED BY <1>1, <1>2, <1>3, <1>4, NextSteps

LEMMA CrlInvInit ==
  ASSUME Init PROVE CrlInv
<1>1. WritingNow = {} /\ OutCrls \subseteq {NoCrl}
  BY StageFacts DEF Init, WritingNow, OutCrls
<1>2. Expiring
  BY <1>1, CaAssumption DEF Init, Expiring, NoCrl
<1>3. Covers(ca, Told)
  BY DEF Init, Covers, Told
<1>4. CrlsKept
  <2>1. OnRecord(ca) = {}
    BY NoCaFacts DEF Init
  <2> QED BY <2>1 DEF CrlsKept, Bounded
<1>5. BasesKept /\ CrlsStayKept
  BY <1>1, StageFacts DEF Init, BasesKept, CrlsStayKept
<1> QED BY <1>2, <1>3, <1>4, <1>5, KeyInvInit DEF CrlInv, Kept

LEMMA CrlInvHolds == Spec => []CrlInv
<1>1. Init => CrlInv
  BY CrlInvInit
<1>2. CrlInv /\ [Next]_vars => CrlInv'
  BY CrlInvStep
<1> QED BY <1>1, <1>2, PTL DEF Spec

(***************************************************************************)
(* What an operator was told stays on record as long as no command has     *)
(* replaced a state that it had not read: each state a command writes      *)
(* keeps what the one it read had (Extends), and the answer is on record   *)
(* in what it has written (Answered).                                      *)
(***************************************************************************)
THEOREM AckedRecorded == Spec => []AckedIsOnRecord
<1>1. CrlInv => AckedIsOnRecord
  BY DEF CrlInv, Kept, Covers, Told, AckedIsOnRecord
<1> QED BY <1>1, CrlInvHolds, PTL

(***************************************************************************)
(* A revoked leaf of the active issuer is accepted no longer than a CRL is *)
(* valid: a CRL that does not list it was made before it was revoked, so   *)
(* it expires soon enough (Bounded), published out of order or not.        *)
(***************************************************************************)
THEOREM ExposureBounded == Spec => []ExposureIsBounded
<1>1. CrlInv => ExposureIsBounded
  <2> SUFFICES ASSUME CrlInv, ~overwritten, NEW v \in Services, NEW s \in OnRecord(ca),
                      IsRevoked(ca, s), ca.certificates[s].issuer = ca.active, Accepts(v, s)
               PROVE  clock <= ca.certificates[s].revoked.at + Validity
    BY DEF ExposureIsBounded
  <2>1. loaded[v] \in OutCrls /\ loaded[v].until \in Int
    BY UntilFacts DEF OutCrls, CrlInv
  <2>2. loaded[v].until <= ca.certificates[s].revoked.at + Validity
    BY <2>1 DEF CrlInv, Kept, CrlsKept, Bounded, Accepts
  <2>3. clock \in Int /\ ca.certificates[s].revoked.at \in Int /\ Validity \in Int
    <3>1. ca \in CaStates /\ clock \in Int
      BY DEF CrlInv, KeyInv, TypeOK
    <3> QED BY <3>1, RecordFacts, CaAssumption DEF IsRevoked
  <2> QED BY <2>1, <2>2, <2>3 DEF Accepts, IsFresh
<1> QED BY <1>1, CrlInvHolds, PTL

=============================================================================
