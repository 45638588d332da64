------------------------- MODULE ProvisioningProofs -------------------------
(***************************************************************************)
(* What holds of the custodians' key files and of a provisioning, for any  *)
(* machines, programs, custodians, commands, rosters, fields and bounds.   *)
(* KeyStoreInv says what a program has read of a file it will replace.     *)
(* The other inductive invariants say what a command has in hand besides   *)
(* what is in the tables: ShapeInv the form of its state, KeysInv whose    *)
(* keys it has read and sealed to, AdmitInv which tokens it has yet to     *)
(* store, BundleInv which shares, SplitInv that the shares of a bundle     *)
(* are values of one polynomial.                                           *)
(***************************************************************************)
EXTENDS SecretSharingProofs, Provisioning, FiniteSetTheorems

-----------------------------------------------------------------------------
(* Key files.                                                              *)

RunningStates ==
  [stage: {"open", "put"}, salt: Nat, pass: Passphrases, entries: Seq(Entries),
   read: Files \union {NoFile}, left: Seq(Names)]

IsRunning(s) == s \in RunningStates /\ s.left # <<>>

\* A file as flush leaves it: not empty, and sealed alike.
FileOK(f) ==
  /\ f.entries # <<>>
  /\ AllUnder(f.entries, f.entries[1].under)
  /\ f.entries[1].under[1] = f.salt

OnFile(f) == IF f = NoFile THEN <<>> ELSE f.entries

\* A program's copy: sealed alike, and what the program has read or written,
\* with one entry more while that entry is being written.
CopyOK(s) ==
  /\ AllUnder(s.entries, Seal(s.salt, s.pass))
  /\ s.stage = "open" => s.entries = OnFile(s.read)
  /\ s.stage = "put" =>
       \E e \in Entries : e.name = Head(s.left) /\ s.entries = Append(OnFile(s.read), e)

\* What the program has read or written is still on file.
ReadIsKept(m, s) ==
  s.read # NoFile =>
    /\ disk[m] # NoFile
    /\ Shown(m, s.read.entries) \subseteq Shown(m, disk[m].entries)

ProgramOK(p) ==
  program[p] \notin {Idle, Ended} =>
    /\ IsRunning(program[p])
    /\ CopyOK(program[p])
    /\ HomeOf[p] \notin overtaken => ReadIsKept(HomeOf[p], program[p])

KeyStoreInv ==
  /\ KeyStoreTypeOK
  /\ \A m \in Machines : disk[m] # NoFile => FileOK(disk[m])
  /\ \A p \in Programs : ProgramOK(p)
  /\ PublishedIsKept

-----------------------------------------------------------------------------
\* A running state is none of the other two.
LEMMA RunningIsApart ==
  ASSUME NEW s \in RunningStates
  PROVE  s \notin {Idle, Ended} /\ s \in ProgramStates
BY DEF RunningStates, ProgramStates, Idle, Ended

LEMMA HasHome ==
  ASSUME NEW p \in Programs
  PROVE  HomeOf[p] \in Machines
BY KeyStoreAssumption

\* A program with keys left goes on with the next one, its copy as it was.
LEMMA NextKeyFacts ==
  ASSUME NEW s, IsRunning(s), AllUnder(s.entries, Seal(s.salt, s.pass)),
         s.entries = OnFile(s.read)
  PROVE  \/ NextKey(s) = Ended
         \/ /\ IsRunning(NextKey(s)) /\ CopyOK(NextKey(s))
            /\ NextKey(s).read = s.read
<1>1. CASE Len(s.left) = 1
  BY <1>1 DEF NextKey
<1>2. CASE Len(s.left) # 1
  <2> DEFINE n == [s EXCEPT !.stage = "open", !.left = Tail(s.left)]
  <2>1. NextKey(s) = n
    BY <1>2 DEF NextKey
  <2>2. Tail(s.left) \in Seq(Names) /\ Tail(s.left) # <<>>
    <3>1. s.left \in Seq(Names) /\ s.left # <<>>
      BY DEF IsRunning, RunningStates
    <3>2. Len(s.left) \in Nat \ {0}
      BY <3>1, EmptySeq
    <3>3. Tail(s.left) \in Seq(Names) /\ Len(Tail(s.left)) = Len(s.left) - 1
      BY <3>1, HeadTailProperties
    <3>4. Len(Tail(s.left)) # 0
      BY <1>2, <3>2, <3>3
    <3>5. Len(<<>>) = 0
      BY EmptySeq
    <3> HIDE DEF n
    <3> QED BY <3>3, <3>4, <3>5
  <2>3. /\ n \in RunningStates
        /\ n.stage = "open" /\ n.salt = s.salt /\ n.pass = s.pass
        /\ n.entries = s.entries /\ n.read = s.read /\ n.left = Tail(s.left)
    BY <2>2 DEF IsRunning, RunningStates
  <2> HIDE DEF n
  <2>4. CopyOK(n)
    BY <2>3 DEF CopyOK
  <2> QED BY <2>1, <2>2, <2>3, <2>4 DEF IsRunning
<1> QED BY <1>1, <1>2

\* One more entry takes none away, and is sealed like the others.
LEMMA AppendFacts ==
  ASSUME NEW q \in Seq(Entries), NEW e \in Entries
  PROVE  /\ Append(q, e) \in Seq(Entries) /\ Append(q, e) # <<>>
         /\ \A m : Shown(m, q) \subseteq Shown(m, Append(q, e))
         /\ \A seal : AllUnder(q, seal) /\ e.under = seal => AllUnder(Append(q, e), seal)
<1> DEFINE a == Append(q, e)
<1>1. /\ a \in Seq(Entries) /\ Len(a) = Len(q) + 1 /\ Len(q) \in Nat
      /\ \A i \in 1..Len(q) : a[i] = q[i]
      /\ a[Len(q) + 1] = e
  BY AppendProperties, LenProperties
<1>2. DOMAIN q = 1..Len(q) /\ DOMAIN a = 1..(Len(q) + 1)
  BY <1>1, LenProperties
<1> HIDE DEF a
<1>3. a # <<>>
  <2>1. Len(<<>>) = 0
    BY EmptySeq
  <2> QED BY <1>1, <2>1
<1>4. \A m : Shown(m, q) \subseteq Shown(m, a)
  BY <1>1, <1>2 DEF Shown
<1>5. \A seal : AllUnder(q, seal) /\ e.under = seal => AllUnder(a, seal)
  BY <1>1, <1>2 DEF AllUnder
<1> QED BY <1>1, <1>3, <1>4, <1>5 DEF a

\* The entry of a name is one of the entries, and has that name.
LEMMA EntryOfFacts ==
  ASSUME NEW q \in Seq(Entries), NEW name, Holds(q, name)
  PROVE  \E i \in DOMAIN q : EntryOf(q, name) = q[i] /\ q[i].name = name
BY DEF Holds, EntryOf

\* What a program shows is one of the keys of its copy.
LEMMA ShownOnce ==
  ASSUME NEW q \in Seq(Entries), NEW name, Holds(q, name), NEW m \in Machines
  PROVE  LET k == [machine |-> m, name |-> name, seed |-> EntryOf(q, name).seed]
         IN  k \in Shown(m, q) /\ k \in [machine: Machines, name: Names, seed: Nat]
<1>1. PICK i \in DOMAIN q : EntryOf(q, name) = q[i] /\ q[i].name = name
  BY EntryOfFacts
<1>2. q[i] \in Entries
  BY LenProperties, ElementOfSeq
<1> QED BY <1>1, <1>2 DEF Shown, Entries

\* The first file of each machine is in order, and nothing is running.
LEMMA KeyStoreInvInit == KeyStoreInit => KeyStoreInv
<1> SUFFICES ASSUME KeyStoreInit PROVE KeyStoreInv
  OBVIOUS
<1>1. \A m \in Machines : disk[m] # NoFile => FileOK(disk[m])
  BY KeyStoreAssumption DEF KeyStoreInit, FileOK
<1>2. \A p \in Programs : ProgramOK(p)
  BY DEF KeyStoreInit, ProgramOK
<1>3. \A m \in Machines : FirstFiles[m] # NoFile =>
        Shown(m, FirstFiles[m].entries) \subseteq [machine: Machines, name: Names, seed: Nat]
  <2> SUFFICES ASSUME NEW m \in Machines, FirstFiles[m] # NoFile,
                      NEW i \in DOMAIN FirstFiles[m].entries
               PROVE  /\ FirstFiles[m].entries[i].name \in Names
                      /\ FirstFiles[m].entries[i].seed \in Nat
    BY DEF Shown
  <2>1. FirstFiles[m].entries \in Seq(Entries)
    BY KeyStoreAssumption DEF Files
  <2>2. FirstFiles[m].entries[i] \in Entries
    BY <2>1, LenProperties, ElementOfSeq
  <2> QED BY <2>2 DEF Entries
<1>4. KeyStoreTypeOK
  BY <1>3, KeyStoreAssumption DEF KeyStoreInit, KeyStoreTypeOK, ProgramStates
<1>5. PublishedIsKept
  BY DEF KeyStoreInit, PublishedIsKept, Shown
<1> QED BY <1>1, <1>2, <1>4, <1>5 DEF KeyStoreInv

-----------------------------------------------------------------------------
\* A step that writes no file: the state that the program goes on to is all
\* that has to be looked at, and the keys it shows.
LEMMA ReadingKeeps ==
  ASSUME KeyStoreInv, NEW p \in Programs, NEW s, Proceed(p, s),
         UNCHANGED <<disk, overtaken>>, drawn' \in Nat,
         \/ s = Ended
         \/ /\ IsRunning(s) /\ CopyOK(s)
            /\ HomeOf[p] \notin overtaken => ReadIsKept(HomeOf[p], s),
         published' \subseteq [machine: Machines, name: Names, seed: Nat],
         PublishedIsKept'
  PROVE  KeyStoreInv'
<1>1. program \in [Programs -> ProgramStates]
  BY DEF KeyStoreInv, KeyStoreTypeOK
<1>2. s \in ProgramStates
  BY RunningIsApart DEF IsRunning, ProgramStates
<1>3. /\ program' \in [Programs -> ProgramStates]
      /\ program'[p] = s /\ \A q \in Programs \ {p} : program'[q] = program[q]
  BY <1>1, <1>2 DEF Proceed
<1>4. KeyStoreTypeOK'
  BY <1>3 DEF KeyStoreInv, KeyStoreTypeOK
<1>5. \A q \in Programs : ProgramOK(q)'
  <2> SUFFICES ASSUME NEW q \in Programs PROVE ProgramOK(q)'
    OBVIOUS
  <2>1. \A m, t : ReadIsKept(m, t)' <=> ReadIsKept(m, t)
    BY DEF ReadIsKept
  <2>2. CASE q = p
    BY <1>3, <2>1, <2>2 DEF ProgramOK
  <2>3. CASE q # p
    BY <1>3, <2>1, <2>3 DEF ProgramOK, KeyStoreInv
  <2> QED BY <2>2, <2>3
<1> QED BY <1>4, <1>5 DEF KeyStoreInv

\* What a program in the middle of a key has in hand.
LEMMA InTheMiddle ==
  ASSUME KeyStoreInv, NEW p \in Programs, program[p].stage \in {"open", "put"}
  PROVE  /\ IsRunning(program[p]) /\ CopyOK(program[p])
         /\ HomeOf[p] \notin overtaken => ReadIsKept(HomeOf[p], program[p])
<1>1. program[p] \notin {Idle, Ended}
  BY DEF Idle, Ended
<1> QED BY <1>1 DEF KeyStoreInv, ProgramOK

\* Keystore.open: the copy is the file, and the passphrase opens all of it.
LEMMA OpenKeeps ==
  ASSUME KeyStoreInv, NEW p \in Programs, Open(p)
  PROVE  KeyStoreInv'
<1> DEFINE m == HomeOf[p]
<1>1. m \in Machines /\ Wants[p] \in Seq(Names) /\ Wants[p] # <<>>
  BY KeyStoreAssumption
<1>2. PublishedIsKept' /\ published' \subseteq [machine: Machines, name: Names, seed: Nat]
  BY DEF Open, KeyStoreInv, KeyStoreTypeOK, PublishedIsKept
<1>3. PICK pass \in Passphrases : OpenFile(p, pass) \/ OpenNoFile(p, pass)
  BY DEF Open
<1>4. UNCHANGED <<disk, overtaken>>
  BY DEF Open
<1>5. CASE OpenFile(p, pass)
  <2> DEFINE file == disk[m]
             s == Running("open", file.salt, pass, file.entries, file, Wants[p])
  <2>1. file # NoFile /\ Unlocks(file, pass) /\ Proceed(p, s) /\ drawn' = drawn
    BY <1>5 DEF OpenFile
  <2>2. file \in Files /\ FileOK(file)
    BY <1>1, <2>1 DEF KeyStoreInv, KeyStoreTypeOK
  <2>3. AllUnder(file.entries, Seal(file.salt, pass))
    BY <2>1, <2>2 DEF FileOK, Unlocks
  <2>4. /\ s \in RunningStates
        /\ s.stage = "open" /\ s.salt = file.salt /\ s.pass = pass
        /\ s.entries = file.entries /\ s.read = file /\ s.left = Wants[p]
    BY <1>1, <2>2 DEF Running, RunningStates, Files
  <2>5. ReadIsKept(m, s)
    BY <2>1, <2>4 DEF ReadIsKept
  <2> HIDE DEF s
  <2>6. IsRunning(s) /\ CopyOK(s)
    BY <1>1, <2>1, <2>3, <2>4 DEF IsRunning, CopyOK, OnFile
  <2>7. drawn' \in Nat
    BY <2>1 DEF KeyStoreInv, KeyStoreTypeOK
  <2> QED BY <1>2, <1>4, <2>1, <2>5, <2>6, <2>7, ReadingKeeps
<1>6. CASE OpenNoFile(p, pass)
  <2> DEFINE s == Running("open", drawn + 1, pass, <<>>, NoFile, Wants[p])
  <2>1. Proceed(p, s) /\ drawn' = drawn + 1
    BY <1>6 DEF OpenNoFile
  <2>2. drawn \in Nat
    BY DEF KeyStoreInv, KeyStoreTypeOK
  <2>3. <<>> \in Seq(Entries)
    BY EmptySeq
  <2>4. /\ s \in RunningStates
        /\ s.stage = "open" /\ s.entries = <<>> /\ s.read = NoFile /\ s.left = Wants[p]
    BY <1>1, <2>2, <2>3 DEF Running, RunningStates
  <2> HIDE DEF s
  <2>5. IsRunning(s) /\ CopyOK(s) /\ ReadIsKept(m, s)
    BY <1>1, <2>4 DEF IsRunning, CopyOK, OnFile, AllUnder, ReadIsKept
  <2>6. drawn' \in Nat
    BY <2>1, <2>2
  <2> QED BY <1>2, <1>4, <2>1, <2>5, <2>6, ReadingKeeps
<1> QED BY <1>3, <1>5, <1>6

\* ensureSeed, the key is there: if no file was overtaken, it is on file.
LEMMA HaveKeyKeeps ==
  ASSUME KeyStoreInv, NEW p \in Programs, HaveKey(p)
  PROVE  KeyStoreInv'
<1> DEFINE s == program[p]
           m == HomeOf[p]
           name == Head(s.left)
           k == [machine |-> m, name |-> name, seed |-> EntryOf(s.entries, name).seed]
<1>1. /\ s.stage = "open" /\ Holds(s.entries, name)
      /\ published' = published \union {k}
      /\ Proceed(p, NextKey(s)) /\ UNCHANGED <<disk, drawn, overtaken>>
  BY DEF HaveKey, Stands, Show
<1>2. /\ IsRunning(s) /\ CopyOK(s)
      /\ m \notin overtaken => ReadIsKept(m, s)
  BY <1>1, InTheMiddle
<1>3. m \in Machines /\ s.entries \in Seq(Entries)
  BY <1>2, HasHome DEF IsRunning, RunningStates
<1>4. AllUnder(s.entries, Seal(s.salt, s.pass)) /\ s.entries = OnFile(s.read)
  BY <1>1, <1>2 DEF CopyOK
<1>5. k \in Shown(m, s.entries) /\ k \in [machine: Machines, name: Names, seed: Nat]
  <2> HIDE DEF s, m
  <2>1. Holds(s.entries, name)
    BY <1>1
  <2> HIDE DEF name
  <2> QED BY <1>3, <2>1, ShownOnce
<1>6. m \notin overtaken => disk[m] # NoFile /\ k \in Shown(m, disk[m].entries)
  <2> SUFFICES ASSUME m \notin overtaken
               PROVE  disk[m] # NoFile /\ k \in Shown(m, disk[m].entries)
    OBVIOUS
  <2>1. s.read # NoFile
    <3> SUFFICES ASSUME s.read = NoFile PROVE FALSE
      OBVIOUS
    <3>1. s.entries = <<>>
      BY <1>4 DEF OnFile
    <3> QED BY <1>1, <3>1 DEF Holds
  <2> HIDE DEF s, m, k
  <2>2. disk[m] # NoFile /\ Shown(m, s.read.entries) \subseteq Shown(m, disk[m].entries)
    BY <1>2, <2>1 DEF ReadIsKept
  <2>3. s.entries = s.read.entries
    BY <1>4, <2>1 DEF OnFile
  <2> QED BY <1>5, <2>2, <2>3
<1>7. PublishedIsKept'
  <2> SUFFICES ASSUME NEW x \in published \union {k}, x.machine \notin overtaken
               PROVE  disk[x.machine] # NoFile /\ x \in Shown(x.machine, disk[x.machine].entries)
    BY <1>1 DEF PublishedIsKept
  <2>1. k.machine = m
    OBVIOUS
  <2> HIDE DEF k, m
  <2> QED BY <1>6, <2>1 DEF KeyStoreInv, PublishedIsKept
<1>8. published' \subseteq [machine: Machines, name: Names, seed: Nat] /\ drawn' \in Nat
  BY <1>1, <1>5 DEF KeyStoreInv, KeyStoreTypeOK
<1>9. \/ NextKey(s) = Ended
      \/ /\ IsRunning(NextKey(s)) /\ CopyOK(NextKey(s))
         /\ m \notin overtaken => ReadIsKept(m, NextKey(s))
  <2> HIDE DEF s, m
  <2> QED BY <1>2, <1>4, NextKeyFacts DEF ReadIsKept
<1> HIDE DEF s, m, k, name
<1> QED BY <1>1, <1>7, <1>8, <1>9, ReadingKeeps DEF m

\* ensureSeed, the key is not there: the copy has one entry more.
LEMMA NewKeyKeeps ==
  ASSUME KeyStoreInv, NEW p \in Programs, NewKey(p)
  PROVE  KeyStoreInv'
<1> DEFINE s == program[p]
           m == HomeOf[p]
           e == [name |-> Head(s.left), seed |-> drawn + 1, under |-> Seal(s.salt, s.pass)]
           t == [s EXCEPT !.stage = "put", !.entries = Append(s.entries, e)]
<1>1. /\ s.stage = "open" /\ drawn' = drawn + 1
      /\ Proceed(p, t) /\ UNCHANGED <<disk, published, overtaken>>
  BY DEF NewKey, Stands
<1>2. /\ IsRunning(s) /\ CopyOK(s)
      /\ m \notin overtaken => ReadIsKept(m, s)
  BY <1>1, InTheMiddle
<1>3. /\ drawn \in Nat /\ s.salt \in Nat /\ s.pass \in Passphrases
      /\ s.entries \in Seq(Entries) /\ s.left \in Seq(Names) /\ s.left # <<>>
  BY <1>2 DEF KeyStoreInv, KeyStoreTypeOK, IsRunning, RunningStates
<1>4. e \in Entries /\ e.under = Seal(s.salt, s.pass) /\ e.name = Head(s.left)
  <2>1. Head(s.left) \in Names
    BY <1>3, HeadTailProperties
  <2> QED BY <1>3, <2>1 DEF Entries, Seals, Seal
<1> HIDE DEF e
<1>5. /\ Append(s.entries, e) \in Seq(Entries)
      /\ AllUnder(s.entries, Seal(s.salt, s.pass)) =>
           AllUnder(Append(s.entries, e), Seal(s.salt, s.pass))
  BY <1>3, <1>4, AppendFacts
<1>6. /\ t \in RunningStates
      /\ t.stage = "put" /\ t.salt = s.salt /\ t.pass = s.pass /\ t.left = s.left
      /\ t.entries = Append(s.entries, e) /\ t.read = s.read
  BY <1>2, <1>5 DEF IsRunning, RunningStates
<1> HIDE DEF t, s, m
<1>7. IsRunning(t) /\ CopyOK(t)
  BY <1>1, <1>2, <1>3, <1>4, <1>5, <1>6 DEF IsRunning, CopyOK
<1>8. m \notin overtaken => ReadIsKept(m, t)
  BY <1>2, <1>6 DEF ReadIsKept
<1>9. drawn' \in Nat
  BY <1>1, <1>3
<1>10. PublishedIsKept' /\ published' \subseteq [machine: Machines, name: Names, seed: Nat]
  BY <1>1 DEF KeyStoreInv, KeyStoreTypeOK, PublishedIsKept
<1> QED BY <1>1, <1>7, <1>8, <1>9, <1>10, ReadingKeeps DEF m

\* flush: the file becomes the copy.  Unless it replaces what its program had
\* not read, the file only grows, and whatever others have read is still in it.
LEMMA FlushKeeps ==
  ASSUME KeyStoreInv, NEW p \in Programs, Flush(p)
  PROVE  KeyStoreInv'
<1> DEFINE s == program[p]
           m == HomeOf[p]
           w == Written(s)
           t == [s EXCEPT !.read = w]
           n == NextKey(t)
           name == Head(s.left)
           k == [machine |-> m, name |-> name, seed |-> EntryOf(s.entries, name).seed]
           ShownKeys == [machine: Machines, name: Names, seed: Nat]
<1>1. /\ s.stage = "put"
      /\ disk' = [disk EXCEPT ![m] = w]
      /\ overtaken' = overtaken \union (IF disk[m] = s.read THEN {} ELSE {m})
      /\ published' = published \union {k}
      /\ Proceed(p, n) /\ drawn' = drawn
  BY DEF Flush, Stands, Show
<1>2. /\ IsRunning(s) /\ CopyOK(s)
      /\ m \notin overtaken => ReadIsKept(m, s)
  BY <1>1, InTheMiddle
<1>3. /\ s \in RunningStates /\ s.left # <<>> /\ m \in Machines
      /\ s.salt \in Nat /\ s.pass \in Passphrases /\ s.entries \in Seq(Entries)
  BY <1>2, HasHome DEF IsRunning, RunningStates
<1>4. PICK e \in Entries : e.name = name /\ s.entries = Append(OnFile(s.read), e)
  BY <1>1, <1>2 DEF CopyOK
<1>5. OnFile(s.read) \in Seq(Entries)
  <2>1. s.read \in Files \union {NoFile}
    BY <1>3 DEF RunningStates
  <2> QED BY <2>1, EmptySeq DEF OnFile, Files
<1>6. /\ s.entries # <<>> /\ AllUnder(s.entries, Seal(s.salt, s.pass))
      /\ Shown(m, OnFile(s.read)) \subseteq Shown(m, s.entries)
  <2>1. AllUnder(s.entries, Seal(s.salt, s.pass))
    BY <1>2 DEF CopyOK
  <2> HIDE DEF s, m
  <2> QED BY <1>4, <1>5, <2>1, AppendFacts
<1>7. /\ w \in Files /\ w # NoFile /\ FileOK(w) /\ w.entries = s.entries
  <2> HIDE DEF s
  <2>1. w \in Files /\ w.entries = s.entries /\ w.salt = s.salt
    BY <1>3 DEF Written, Files
  <2>2. w # NoFile
    BY <2>1, KeyStoreAssumption
  <2>3. Len(s.entries) \in Nat \ {0} /\ DOMAIN s.entries = 1..Len(s.entries)
    BY <1>3, <1>6, EmptySeq, LenProperties
  <2>4. s.entries[1].under = Seal(s.salt, s.pass)
    BY <1>6, <2>3 DEF AllUnder
  <2>5. FileOK(w)
    BY <1>6, <2>1, <2>4 DEF FileOK, Seal
  <2> QED BY <2>1, <2>2, <2>5
<1>8. /\ disk' \in [Machines -> Files \union {NoFile}]
      /\ disk'[m] = w /\ \A x \in Machines \ {m} : disk'[x] = disk[x]
      /\ \A x \in Machines : disk'[x] # NoFile => FileOK(disk'[x])
  <2> HIDE DEF w, m
  <2> QED BY <1>1, <1>3, <1>7 DEF KeyStoreInv, KeyStoreTypeOK
<1>9. /\ t \in RunningStates /\ t.stage = "put" /\ t.salt = s.salt /\ t.pass = s.pass
      /\ t.entries = s.entries /\ t.read = w /\ t.left = s.left
  <2> HIDE DEF w
  <2> QED BY <1>1, <1>3, <1>7 DEF RunningStates
<1> HIDE DEF t
<1>10. \/ n = Ended
       \/ IsRunning(n) /\ CopyOK(n) /\ n.read = w
  <2> HIDE DEF w, s
  <2>1. IsRunning(t) /\ AllUnder(t.entries, Seal(t.salt, t.pass)) /\ t.entries = OnFile(t.read)
    BY <1>3, <1>6, <1>7, <1>9 DEF IsRunning, OnFile
  <2> QED BY <1>9, <2>1, NextKeyFacts
<1> HIDE DEF n
<1>11. k \in Shown(m, w.entries) /\ k \in ShownKeys
  <2>1. Holds(s.entries, name)
    <3> DEFINE q == OnFile(s.read)
    <3>1. Len(q) + 1 \in DOMAIN Append(q, e) /\ Append(q, e)[Len(q) + 1] = e
      BY <1>5, AppendProperties, LenProperties
    <3> HIDE DEF q
    <3> QED BY <1>4, <3>1 DEF Holds, q
  <2> HIDE DEF s, m, name, w
  <2> QED BY <1>3, <1>7, <2>1, ShownOnce
<1> HIDE DEF w, k
<1>12. m \notin overtaken' =>
         /\ m \notin overtaken /\ disk[m] = s.read
         /\ disk[m] # NoFile => Shown(m, disk[m].entries) \subseteq Shown(m, w.entries)
  <2>1. s.read # NoFile => OnFile(s.read) = s.read.entries
    BY DEF OnFile
  <2> HIDE DEF s, m
  <2> QED BY <1>1, <1>6, <1>7, <2>1
<1>13. /\ program' \in [Programs -> ProgramStates]
       /\ program'[p] = n /\ \A q \in Programs \ {p} : program'[q] = program[q]
  <2>1. n \in ProgramStates
    BY <1>10, RunningIsApart DEF IsRunning, ProgramStates
  <2>2. program \in [Programs -> ProgramStates]
    BY DEF KeyStoreInv, KeyStoreTypeOK
  <2> QED BY <1>1, <2>1, <2>2 DEF Proceed
<1> HIDE DEF s, m
<1>14. \A q \in Programs : ProgramOK(q)'
  <2> SUFFICES ASSUME NEW q \in Programs, program'[q] \notin {Idle, Ended}
               PROVE  /\ IsRunning(program'[q]) /\ CopyOK(program'[q])
                      /\ HomeOf[q] \notin overtaken' =>
                           ReadIsKept(HomeOf[q], program[q])'
    BY DEF ProgramOK
  <2>1. CASE q = p
    BY <1>7, <1>8, <1>10, <1>13, <2>1 DEF ReadIsKept, m
  <2>2. CASE q # p
    <3>1. program'[q] = program[q]
      BY <1>13, <2>2
    <3>2. /\ IsRunning(program[q]) /\ CopyOK(program[q])
          /\ HomeOf[q] \notin overtaken => ReadIsKept(HomeOf[q], program[q])
      BY <3>1 DEF KeyStoreInv, ProgramOK
    <3>3. HomeOf[q] \in Machines /\ overtaken \subseteq overtaken'
      BY <1>1, HasHome
    <3>4. ASSUME HomeOf[q] \notin overtaken', program[q].read # NoFile
          PROVE  /\ disk'[HomeOf[q]] # NoFile
                 /\ Shown(HomeOf[q], program[q].read.entries)
                      \subseteq Shown(HomeOf[q], disk'[HomeOf[q]].entries)
      <4>1. /\ disk[HomeOf[q]] # NoFile
            /\ Shown(HomeOf[q], program[q].read.entries)
                 \subseteq Shown(HomeOf[q], disk[HomeOf[q]].entries)
        BY <3>2, <3>3, <3>4 DEF ReadIsKept
      <4>2. CASE HomeOf[q] = m
        BY <1>7, <1>8, <1>12, <3>4, <4>1, <4>2
      <4>3. CASE HomeOf[q] # m
        BY <1>8, <3>3, <4>1, <4>3
      <4> QED BY <4>2, <4>3
    <3> QED BY <3>1, <3>2, <3>4 DEF ReadIsKept
  <2> QED BY <2>1, <2>2
<1>15. PublishedIsKept'
  <2> SUFFICES ASSUME NEW x \in published \union {k}, x.machine \notin overtaken'
               PROVE  /\ disk'[x.machine] # NoFile
                      /\ x \in Shown(x.machine, disk'[x.machine].entries)
    BY <1>1 DEF PublishedIsKept
  <2>1. k.machine = m
    BY DEF k
  <2>2. CASE x = k
    BY <1>7, <1>8, <1>11, <2>1, <2>2
  <2>3. CASE x \in published
    <3>1. x.machine \in Machines /\ x.machine \notin overtaken
      BY <1>1, <2>3 DEF KeyStoreInv, KeyStoreTypeOK
    <3>2. disk[x.machine] # NoFile /\ x \in Shown(x.machine, disk[x.machine].entries)
      BY <2>3, <3>1 DEF KeyStoreInv, PublishedIsKept
    <3>3. CASE x.machine = m
      BY <1>7, <1>8, <1>12, <3>2, <3>3
    <3>4. CASE x.machine # m
      BY <1>8, <3>1, <3>2, <3>4
    <3> QED BY <3>3, <3>4
  <2> QED BY <2>2, <2>3
<1>16. KeyStoreTypeOK'
  <2>1. overtaken' \subseteq Machines
    BY <1>1, <1>3 DEF KeyStoreInv, KeyStoreTypeOK
  <2>2. published' \subseteq ShownKeys
    BY <1>1, <1>11 DEF KeyStoreInv, KeyStoreTypeOK
  <2>3. drawn' \in Nat
    BY <1>1 DEF KeyStoreInv, KeyStoreTypeOK
  <2> QED BY <1>8, <1>13, <2>1, <2>2, <2>3 DEF KeyStoreTypeOK
<1> QED BY <1>8, <1>14, <1>15, <1>16 DEF KeyStoreInv

-----------------------------------------------------------------------------
LEMMA KeyStoreInvNext == KeyStoreInv /\ [KeyStoreNext]_keyVars => KeyStoreInv'
<1> SUFFICES ASSUME KeyStoreInv, [KeyStoreNext]_keyVars PROVE KeyStoreInv'
  OBVIOUS
<1>1. CASE KeyStoreNext
  BY <1>1, OpenKeeps, HaveKeyKeeps, NewKeyKeeps, FlushKeeps DEF KeyStoreNext
<1>2. CASE UNCHANGED keyVars
  <2>1. /\ disk' = disk /\ program' = program /\ drawn' = drawn
        /\ published' = published /\ overtaken' = overtaken
    BY <1>2 DEF keyVars
  <2> QED BY <2>1 DEF KeyStoreInv, KeyStoreTypeOK, ProgramOK, ReadIsKept, PublishedIsKept
<1> QED BY <1>1, <1>2

LEMMA KeyStoreInvariant == KeyStoreSpec => []KeyStoreInv
<1> QED BY KeyStoreInvInit, KeyStoreInvNext, PTL DEF KeyStoreSpec

LEMMA InvIsReadable == KeyStoreInv => FileIsReadable
<1> SUFFICES ASSUME KeyStoreInv, NEW m \in Machines, disk[m] # NoFile
             PROVE  \E pass \in Passphrases : AllUnder(disk[m].entries, Seal(disk[m].salt, pass))
  BY DEF FileIsReadable
<1>1. /\ disk[m].entries \in Seq(Entries) /\ disk[m].entries # <<>>
      /\ AllUnder(disk[m].entries, disk[m].entries[1].under)
      /\ disk[m].entries[1].under[1] = disk[m].salt
  BY DEF KeyStoreInv, KeyStoreTypeOK, FileOK, Files
<1>2. disk[m].entries[1] \in Entries
  BY <1>1, EmptySeq, ElementOfSeq
<1>3. PICK salt \in Nat, pass \in Passphrases : disk[m].entries[1].under = <<salt, pass>>
  BY <1>2 DEF Entries, Seals
<1>4. disk[m].entries[1].under = Seal(disk[m].salt, pass)
  BY <1>1, <1>3 DEF Seal
<1> QED BY <1>1, <1>4

(* The file of each machine, what its programs have in memory and what     *)
(* they have shown keep their types, however the programs overlap.         *)
THEOREM KeyStoreTypes == KeyStoreSpec => []KeyStoreTypeOK
<1> QED BY KeyStoreInvariant, PTL DEF KeyStoreInv

(* One passphrase opens all of a machine's keys, for any number of         *)
(* programs that open, add and write whenever they do, and end anywhere.   *)
THEOREM FileStaysReadable == KeyStoreSpec => []FileIsReadable
<1> QED BY KeyStoreInvariant, InvIsReadable, PTL

(* A public key that was shown stays on file, as long as no program has    *)
(* replaced a file that it had not read.                                   *)
THEOREM PublishedStays == KeyStoreSpec => []PublishedIsKept
<1> QED BY KeyStoreInvariant, PTL DEF KeyStoreInv

-----------------------------------------------------------------------------
(* Commands.                                                               *)

\* The forms a command's state may have.
IsBuilding(c) ==
  /\ c.stage = "build" /\ c.kind \in Kinds
  /\ c = Building(c.kind, c.read)

IsStoring(c) ==
  /\ c.stage \in {"created", "shares"} /\ c.kind \in Kinds
  /\ c = Storing(c.stage, c.kind, c.read, c.kek, c.left, c.sealed)

IsIssuing(c) ==
  /\ c.stage \in {"rows", "handOut"}
  /\ c = Issuing(c.stage, c.left, c.tokens)

Shape(c) == c = Ready \/ IsBuilding(c) \/ IsStoring(c) \/ IsIssuing(c)

ShapeInv ==
  /\ command = [w \in Commands |-> command[w]]
  /\ \A w \in Commands : Shape(command[w])

-----------------------------------------------------------------------------
LEMMA ShapeFacts ==
  ASSUME NEW c, Shape(c)
  PROVE  /\ c.stage = "ready" => c = Ready
         /\ c.stage = "build" => IsBuilding(c)
         /\ c.stage \in {"created", "shares"} => IsStoring(c)
         /\ c.stage \in {"rows", "handOut"} => IsIssuing(c)
BY DEF Shape, Ready, IsBuilding, IsStoring, IsIssuing

LEMMA StoringFields ==
  ASSUME NEW a, NEW k, NEW r, NEW q, NEW l, NEW s
  PROVE  LET c == Storing(a, k, r, q, l, s)
         IN c.stage = a /\ c.kind = k /\ c.read = r /\ c.kek = q /\ c.left = l /\ c.sealed = s
BY DEF Storing

LEMMA StoringIsShaped ==
  ASSUME NEW a \in {"created", "shares"}, NEW k \in Kinds, NEW r, NEW q, NEW l, NEW s
  PROVE  IsStoring(Storing(a, k, r, q, l, s))
BY StoringFields DEF IsStoring

LEMMA StoringExcept ==
  ASSUME NEW c, IsStoring(c), NEW x
  PROVE  /\ [c EXCEPT !.stage = x] = Storing(x, c.kind, c.read, c.kek, c.left, c.sealed)
         /\ [c EXCEPT !.left = x] = Storing(c.stage, c.kind, c.read, c.kek, x, c.sealed)
BY DEF IsStoring, Storing

LEMMA IssuingFields ==
  ASSUME NEW a, NEW l, NEW s
  PROVE  LET c == Issuing(a, l, s) IN c.stage = a /\ c.left = l /\ c.tokens = s
BY DEF Issuing

LEMMA IssuingExcept ==
  ASSUME NEW c, IsIssuing(c), NEW x
  PROVE  /\ [c EXCEPT !.stage = x] = Issuing(x, c.left, c.tokens)
         /\ [c EXCEPT !.left = x] = Issuing(c.stage, x, c.tokens)
BY DEF IsIssuing, Issuing

-----------------------------------------------------------------------------
(* What a step does to the command that takes it.                          *)

LEMMA BecomeFacts ==
  ASSUME ShapeInv, NEW w \in Commands, NEW s, Become(w, s)
  PROVE  /\ command' = [v \in Commands |-> command'[v]]
         /\ command'[w] = s
         /\ \A v \in Commands : v # w => command'[v] = command[v]
BY DEF ShapeInv, Become

LEMMA AtShape ==
  ASSUME ShapeInv, NEW w \in Commands
  PROVE  /\ At(w, "ready") => command[w] = Ready
         /\ At(w, "build") => IsBuilding(command[w])
         /\ At(w, "created") \/ At(w, "shares") => IsStoring(command[w])
         /\ At(w, "rows") \/ At(w, "handOut") => IsIssuing(command[w])
BY ShapeFacts DEF ShapeInv, At

LEMMA StartProvisionDoes ==
  ASSUME ShapeInv, NEW w \in Commands, StartProvision(w)
  PROVE  command'[w] = Building("paper", custodians)
BY BecomeFacts DEF StartProvision

LEMMA BuildDoes ==
  ASSUME ShapeInv, NEW w \in Commands, Build(w)
  PROVE  LET kind == command[w].kind
             read == command[w].read
         IN /\ IsBuilding(command[w])
            /\ CanPutBundle(kind) /\ CanSplit(read)
            /\ \E byte \in Secrets, coeffs \in [1..(Threshold - 1) -> Coefficients] :
                 LET kek    == [id |-> minted + 1, byte |-> byte]
                     sealed == SplitAndDestroy(kind, kek, coeffs, read)
                 IN /\ minted' = minted + 1
                    /\ bundles' = [bundles EXCEPT ![kind] = kek]
                    /\ command'[w] = Storing("created", kind, read, kek, sealed, Range(sealed))
<1>1. IsBuilding(command[w])
  BY AtShape DEF Build
<1> QED BY <1>1, BecomeFacts DEF Build

LEMMA AppendCreatedDoes ==
  ASSUME ShapeInv, NEW w \in Commands, AppendCreated(w)
  PROVE  LET c == command[w]
         IN /\ IsStoring(c) /\ c.stage = "created"
            /\ log' = log \union {Created(c.kind, c.kek)}
            /\ command'[w] = Storing("shares", c.kind, c.read, c.kek, c.left, c.sealed)
<1>1. IsStoring(command[w]) /\ command[w].stage = "created"
  BY AtShape DEF AppendCreated, At
<1>2. [command[w] EXCEPT !.stage = "shares"] =
        Storing("shares", command[w].kind, command[w].read, command[w].kek,
                command[w].left, command[w].sealed)
  BY <1>1, StoringExcept
<1> QED BY <1>1, <1>2, BecomeFacts DEF AppendCreated

LEMMA PutShareDoes ==
  ASSUME ShapeInv, NEW w \in Commands, PutShare(w)
  PROVE  LET c == command[w]
         IN /\ IsStoring(c) /\ c.stage = "shares" /\ c.left # <<>>
            /\ \/ command'[w] = Ready /\ shares' = shares
               \/ /\ shares' = shares \union {Head(c.left)}
                  /\ command'[w] = Storing("shares", c.kind, c.read, c.kek, Tail(c.left), c.sealed)
<1>1. /\ IsStoring(command[w]) /\ command[w].stage = "shares" /\ command[w].left # <<>>
  BY AtShape DEF PutShare, At
<1>2. [command[w] EXCEPT !.left = Tail(@)] =
        Storing("shares", command[w].kind, command[w].read, command[w].kek,
                Tail(command[w].left), command[w].sealed)
  BY <1>1, StoringExcept
<1> QED BY <1>1, <1>2, BecomeFacts DEF PutShare

LEMMA AppendIssuedDoes ==
  ASSUME ShapeInv, NEW w \in Commands, AppendIssued(w)
  PROVE  LET c == command[w]
         IN /\ IsStoring(c) /\ c.stage = "shares" /\ c.left = <<>>
            /\ log' = log \union {Issued(c.kind, c.sealed)}
            /\ \/ /\ c.kind = "paper" /\ reported' = reported
                  /\ command'[w] = Building("answers", c.read)
               \/ /\ c.kind # "paper" /\ reported' = reported \union {c.read}
                  /\ command'[w] = Ready
<1>1. IsStoring(command[w]) /\ command[w].stage = "shares" /\ command[w].left = <<>>
  BY AtShape DEF AppendIssued, AllSharesStored, At
<1> QED BY <1>1, BecomeFacts DEF AppendIssued

\* The tokens of a roster, signed.
Signed(roster, n) ==
  [i \in DOMAIN roster |-> [who |-> roster[i].who, seat |-> roster[i].seat, issue |-> n]]

LEMMA StartAdmitDoes ==
  ASSUME ShapeInv, NEW w \in Commands, StartAdmit(w)
  PROVE  \E roster \in Rosters :
           LET tokens == Signed(roster, begun + 1)
           IN command'[w] = Issuing("rows", tokens, Range(tokens))
BY BecomeFacts DEF StartAdmit, Signed

LEMMA PutTokenDoes ==
  ASSUME ShapeInv, NEW w \in Commands, PutToken(w)
  PROVE  LET c == command[w]
         IN /\ IsIssuing(c) /\ c.stage = "rows" /\ c.left # <<>>
            /\ \/ command'[w] = Ready /\ admits' = admits
               \/ /\ SeatFree(Head(c.left).seat)
                  /\ admits' = admits \union {Head(c.left)}
                  /\ command'[w] = Issuing("rows", Tail(c.left), c.tokens)
<1>1. /\ IsIssuing(command[w]) /\ command[w].stage = "rows" /\ command[w].left # <<>>
  BY AtShape DEF PutToken, At
<1>2. [command[w] EXCEPT !.left = Tail(@)] =
        Issuing("rows", Tail(command[w].left), command[w].tokens)
  BY <1>1, IssuingExcept
<1> QED BY <1>1, <1>2, BecomeFacts DEF PutToken

LEMMA AppendAdmitsDoes ==
  ASSUME ShapeInv, NEW w \in Commands, AppendAdmits(w)
  PROVE  LET c == command[w]
         IN /\ IsIssuing(c) /\ c.stage = "rows" /\ c.left = <<>>
            /\ log' = log \union {AdmitsIssued(c.tokens)}
            /\ command'[w] = Issuing("handOut", c.left, c.tokens)
<1>1. IsIssuing(command[w]) /\ command[w].stage = "rows" /\ command[w].left = <<>>
  BY AtShape DEF AppendAdmits, At
<1>2. [command[w] EXCEPT !.stage = "handOut"] =
        Issuing("handOut", command[w].left, command[w].tokens)
  BY <1>1, IssuingExcept
<1> QED BY <1>1, <1>2, BecomeFacts DEF AppendAdmits

LEMMA HandOutDoes ==
  ASSUME ShapeInv, NEW w \in Commands, HandOut(w)
  PROVE  LET c == command[w]
         IN /\ IsIssuing(c) /\ c.stage = "handOut"
            /\ cards' = cards \union c.tokens
            /\ command'[w] = Ready
BY AtShape, BecomeFacts DEF HandOut, At

\* The other commands are where they were.
LEMMA OthersStay ==
  ASSUME ShapeInv, NEW w \in Commands, CommandStep(w)
  PROVE  /\ command' = [v \in Commands |-> command'[v]]
         /\ \A v \in Commands : v # w => command'[v] = command[v]
<1>1. PICK s : Become(w, s)
  BY DEF CommandStep, StartProvision, Build, BuildRefused, AppendCreated, PutShare,
         AppendIssued, StartAdmit, PutToken, AppendAdmits, HandOut, Fail
<1> QED BY <1>1, BecomeFacts

LEMMA ReadyAgain ==
  ASSUME ShapeInv, NEW w \in Commands, BuildRefused(w) \/ Fail(w)
  PROVE  command'[w] = Ready
BY BecomeFacts DEF BuildRefused, Fail

LEMMA IssuingIsShaped ==
  ASSUME NEW a \in {"rows", "handOut"}, NEW l, NEW s
  PROVE  IsIssuing(Issuing(a, l, s))
BY IssuingFields DEF IsIssuing

LEMMA BuildingIsShaped ==
  ASSUME NEW k \in Kinds, NEW r
  PROVE  /\ IsBuilding(Building(k, r))
         /\ Building(k, r).stage = "build"
         /\ Building(k, r).kind = k
         /\ Building(k, r).read = r
BY DEF IsBuilding, Building

LEMMA ShapeInit == Init => ShapeInv
BY DEF Init, ShapeInv, Shape

LEMMA ShapeStep ==
  ASSUME ShapeInv, NEW w \in Commands, CommandStep(w)
  PROVE  ShapeInv'
<1> SUFFICES Shape(command'[w])
  BY OthersStay DEF ShapeInv
<1>1. CASE StartProvision(w)
  BY <1>1, StartProvisionDoes, BuildingIsShaped DEF Shape, Kinds
<1>2. CASE Build(w)
  <2>1. command[w].kind \in Kinds
    BY <1>2, BuildDoes DEF IsBuilding
  <2>2. PICK byte \in Secrets, coeffs \in [1..(Threshold - 1) -> Coefficients] :
          LET kek    == [id |-> minted + 1, byte |-> byte]
              sealed == SplitAndDestroy(command[w].kind, kek, coeffs, command[w].read)
          IN command'[w] = Storing("created", command[w].kind, command[w].read,
                                   kek, sealed, Range(sealed))
    BY <1>2, BuildDoes
  <2> QED BY <2>1, <2>2, StoringIsShaped DEF Shape
<1>3. CASE BuildRefused(w) \/ Fail(w)
  BY <1>3, ReadyAgain DEF Shape
<1>4. CASE AppendCreated(w)
  <2>1. command[w].kind \in Kinds
    BY <1>4, AppendCreatedDoes DEF IsStoring
  <2> QED BY <2>1, <1>4, AppendCreatedDoes, StoringIsShaped DEF Shape
<1>5. CASE PutShare(w)
  <2>1. command[w].kind \in Kinds
    BY <1>5, PutShareDoes DEF IsStoring
  <2> QED BY <2>1, <1>5, PutShareDoes, StoringIsShaped DEF Shape
<1>6. CASE AppendIssued(w)
  BY <1>6, AppendIssuedDoes, BuildingIsShaped DEF Shape, Kinds
<1>7. CASE StartAdmit(w)
  BY <1>7, StartAdmitDoes, IssuingIsShaped DEF Shape
<1>8. CASE PutToken(w)
  BY <1>8, PutTokenDoes, IssuingIsShaped DEF Shape
<1>9. CASE AppendAdmits(w)
  BY <1>9, AppendAdmitsDoes, IssuingIsShaped DEF Shape
<1>10. CASE HandOut(w)
  BY <1>10, HandOutDoes DEF Shape
<1> QED BY <1>1, <1>2, <1>3, <1>4, <1>5, <1>6, <1>7, <1>8, <1>9, <1>10 DEF CommandStep

LEMMA ShapeNext == ShapeInv /\ [Next]_vars => ShapeInv'
<1> SUFFICES ASSUME ShapeInv, [Next]_vars PROVE ShapeInv'
  OBVIOUS
<1>1. CASE \E w \in Commands : CommandStep(w)
  BY <1>1, ShapeStep
<1>2. CASE UNCHANGED command
  BY <1>2 DEF ShapeInv
<1>3. KeyStep \/ (\E c \in Machines : Enrol(c)) \/ UNCHANGED vars => UNCHANGED command
  BY DEF KeyStep, Enrol, vars
<1> QED BY <1>1, <1>2, <1>3 DEF Next

LEMMA ShapeInvariant == Spec => []ShapeInv
<1> QED BY ShapeInit, ShapeNext, PTL DEF Spec

-----------------------------------------------------------------------------
(* Admit tokens.                                                           *)

\* What a command that issues tokens has in hand.
IssuingOK(w) ==
  LET c == command[w]
  IN /\ c.stage = "rows" =>
          /\ c.left \in Seq(c.tokens)
          /\ \A t \in c.tokens : t \in admits \/ \E i \in 1..Len(c.left) : c.left[i] = t
     /\ c.stage = "handOut" => c.tokens \subseteq admits /\ AdmitsIssued(c.tokens) \in log

AdmitInv ==
  /\ \A one, two \in admits : one.seat = two.seat => one = two
  /\ \A f \in log : f.type = "ADMIT_TOKENS_ISSUED" => f.tokens \subseteq admits
  /\ cards \subseteq admits
  /\ \A card \in cards : \E f \in log : f.type = "ADMIT_TOKENS_ISSUED" /\ card \in f.tokens
  /\ \A w \in Commands : IssuingOK(w)

LEMMA AdmitInit == Init => AdmitInv
BY DEF Init, AdmitInv, IssuingOK, Ready

\* What the other commands have in hand stays so while rows and entries are added.
LEMMA IssuingStays ==
  ASSUME ShapeInv, AdmitInv, NEW w \in Commands, CommandStep(w),
         admits \subseteq admits', log \subseteq log',
         NEW v \in Commands, v # w
  PROVE  IssuingOK(v)'
<1>1. IssuingOK(v) /\ command'[v] = command[v]
  BY OthersStay DEF AdmitInv
<1> QED BY <1>1 DEF IssuingOK

\* The steps that leave the table, the cards and the entries of tokens alone.
LEMMA AdmitElsewhere ==
  ASSUME ShapeInv, AdmitInv, NEW w \in Commands, CommandStep(w),
         UNCHANGED <<admits, cards>>, log \subseteq log',
         \A f \in log' : f \in log \/ f.type # "ADMIT_TOKENS_ISSUED",
         command'[w].stage \notin {"rows", "handOut"}
  PROVE  AdmitInv'
<1>1. IssuingOK(w)'
  BY DEF IssuingOK
<1>2. \A v \in Commands : IssuingOK(v)'
  BY <1>1, IssuingStays
<1> QED BY <1>2 DEF AdmitInv


\* The tokens of a roster are all still to be stored.
LEMMA TokensOfRoster ==
  ASSUME NEW roster \in Rosters, NEW n
  PROVE  LET tokens == Signed(roster, n)
         IN /\ tokens \in Seq(Range(tokens))
            /\ \A t \in Range(tokens) : \E i \in 1..Len(tokens) : tokens[i] = t
<1> DEFINE tokens == Signed(roster, n)
<1>1. roster \in Seq(Range(roster))
  BY ProvisioningAssumption
<1>2. DOMAIN roster = 1..Len(roster) /\ Len(roster) \in Nat
  BY <1>1, LenProperties
<1>3. DOMAIN tokens = 1..Len(roster)
  BY <1>2 DEF Signed
<1> HIDE DEF tokens
<1>4. tokens \in [1..Len(roster) -> Range(tokens)] /\ Range(tokens) = {tokens[i] : i \in 1..Len(roster)}
  <2>1. tokens = [i \in 1..Len(roster) |-> tokens[i]]
    BY <1>3 DEF tokens, Signed
  <2> QED BY <2>1, <1>3 DEF Range
<1>5. tokens \in Seq(Range(tokens))
  BY <1>2, <1>4, SeqDef
<1>6. 1..Len(tokens) = 1..Len(roster)
  BY <1>3, <1>5, LenProperties
<1> QED BY <1>4, <1>5, <1>6 DEF tokens

\* A sequence is its head and its tail.
LEMMA HeadAndTail ==
  ASSUME NEW S, NEW q \in Seq(S), q # <<>>
  PROVE  /\ Head(q) \in S /\ Head(q) = q[1] /\ Tail(q) \in Seq(S)
         /\ Len(q) \in Nat \ {0} /\ Len(Tail(q)) = Len(q) - 1
         /\ \A i \in 1..(Len(q) - 1) : Tail(q)[i] = q[i + 1]
         /\ \A i \in 1..Len(q) : q[i] = Head(q) \/ \E j \in 1..Len(Tail(q)) : Tail(q)[j] = q[i]
<1>1. /\ Head(q) \in S /\ Tail(q) \in Seq(S) /\ Len(Tail(q)) = Len(q) - 1
      /\ \A i \in 1..Len(Tail(q)) : Tail(q)[i] = q[i + 1]
  BY HeadTailProperties
<1>2. Len(q) \in Nat \ {0}
  BY EmptySeq, LenProperties
<1>3. Head(q) = q[1]
  OBVIOUS
<1>4. ASSUME NEW i \in 1..Len(q), i # 1
      PROVE  \E j \in 1..Len(Tail(q)) : Tail(q)[j] = q[i]
  <2>1. i - 1 \in 1..Len(Tail(q)) /\ (i - 1) + 1 = i
    BY <1>1, <1>2, <1>4
  <2>2. Tail(q)[i - 1] = q[(i - 1) + 1]
    BY <1>1, <2>1
  <2> QED BY <2>1, <2>2
<1> QED BY <1>1, <1>2, <1>3, <1>4

LEMMA StartAdmitKeeps ==
  ASSUME ShapeInv, AdmitInv, NEW w \in Commands, StartAdmit(w)
  PROVE  AdmitInv'
<1>0. CommandStep(w) /\ UNCHANGED <<admits, cards, log>>
  BY DEF CommandStep, StartAdmit, tableVars
<1>1. PICK left, tokens :
        /\ command'[w] = Issuing("rows", left, tokens)
        /\ left \in Seq(tokens)
        /\ \A t \in tokens : \E i \in 1..Len(left) : left[i] = t
  BY StartAdmitDoes, TokensOfRoster
<1>2. IssuingOK(w)'
  BY <1>1, IssuingFields DEF IssuingOK
<1>3. \A v \in Commands : IssuingOK(v)'
  BY <1>0, <1>2, IssuingStays
<1> QED BY <1>0, <1>3 DEF AdmitInv

LEMMA PutTokenKeeps ==
  ASSUME ShapeInv, AdmitInv, NEW w \in Commands, PutToken(w)
  PROVE  AdmitInv'
<1> DEFINE c == command[w]
<1>0. CommandStep(w) /\ UNCHANGED <<cards, log>>
  BY DEF CommandStep, PutToken, otherVars
<1>1. CASE command'[w] = Ready /\ admits' = admits
  BY <1>0, <1>1, AdmitElsewhere DEF Ready
<1>2. CASE /\ SeatFree(Head(c.left).seat)
           /\ admits' = admits \union {Head(c.left)}
           /\ command'[w] = Issuing("rows", Tail(c.left), c.tokens)
  <2>1. /\ c.left # <<>> /\ c.left \in Seq(c.tokens)
        /\ \A t \in c.tokens : t \in admits \/ \E i \in 1..Len(c.left) : c.left[i] = t
    BY PutTokenDoes DEF AdmitInv, IssuingOK
  <2>2. /\ Tail(c.left) \in Seq(c.tokens)
        /\ \A i \in 1..Len(c.left) :
             c.left[i] = Head(c.left) \/ \E j \in 1..Len(Tail(c.left)) : Tail(c.left)[j] = c.left[i]
    BY <2>1, HeadAndTail
  <2>3. \A t \in c.tokens : t \in admits' \/ \E i \in 1..Len(Tail(c.left)) : Tail(c.left)[i] = t
    BY <1>2, <2>1, <2>2
  <2>4. /\ command'[w].stage = "rows" /\ command'[w].left = Tail(c.left)
        /\ command'[w].tokens = c.tokens
    BY <1>2, IssuingFields
  <2>5. IssuingOK(w)'
    BY <2>2, <2>3, <2>4 DEF IssuingOK
  <2>6. \A v \in Commands : IssuingOK(v)'
    BY <1>0, <1>2, <2>5, IssuingStays
  <2>7. \A one, two \in admits' : one.seat = two.seat => one = two
    BY <1>2 DEF AdmitInv, SeatFree
  <2>8. admits \subseteq admits'
    BY <1>2
  <2> HIDE DEF c
  <2> QED BY <1>0, <2>6, <2>7, <2>8 DEF AdmitInv
<1> QED BY <1>1, <1>2, PutTokenDoes

LEMMA AppendAdmitsKeeps ==
  ASSUME ShapeInv, AdmitInv, NEW w \in Commands, AppendAdmits(w)
  PROVE  AdmitInv'
<1> DEFINE c == command[w]
<1>0. CommandStep(w) /\ UNCHANGED <<cards, admits>>
  BY DEF CommandStep, AppendAdmits, otherVars
<1>1. /\ c.stage = "rows" /\ c.left = <<>>
      /\ log' = log \union {AdmitsIssued(c.tokens)}
      /\ command'[w] = Issuing("handOut", c.left, c.tokens)
  BY AppendAdmitsDoes
<1>2. c.tokens \subseteq admits
  <2>1. \A t \in c.tokens : t \in admits \/ \E i \in 1..Len(c.left) : c.left[i] = t
    BY <1>1 DEF AdmitInv, IssuingOK
  <2>2. Len(c.left) = 0
    BY <1>1, EmptySeq
  <2> QED BY <2>1, <2>2
<1>3. command'[w].stage = "handOut" /\ command'[w].tokens = c.tokens
  BY <1>1, IssuingFields
<1>4. IssuingOK(w)'
  BY <1>0, <1>1, <1>2, <1>3 DEF IssuingOK
<1>5. \A v \in Commands : IssuingOK(v)'
  BY <1>0, <1>1, <1>4, IssuingStays
<1>6. AdmitsIssued(c.tokens).tokens = c.tokens
  BY DEF AdmitsIssued
<1> HIDE DEF c
<1> QED BY <1>0, <1>1, <1>2, <1>5, <1>6 DEF AdmitInv

LEMMA HandOutKeeps ==
  ASSUME ShapeInv, AdmitInv, NEW w \in Commands, HandOut(w)
  PROVE  AdmitInv'
<1> DEFINE c == command[w]
<1>0. CommandStep(w) /\ UNCHANGED <<admits, log>>
  BY DEF CommandStep, HandOut, tableVars
<1>1. /\ c.stage = "handOut" /\ cards' = cards \union c.tokens
      /\ command'[w] = Ready
  BY HandOutDoes
<1>2. c.tokens \subseteq admits /\ AdmitsIssued(c.tokens) \in log
  BY <1>1 DEF AdmitInv, IssuingOK
<1>3. AdmitsIssued(c.tokens).type = "ADMIT_TOKENS_ISSUED" /\ AdmitsIssued(c.tokens).tokens = c.tokens
  BY DEF AdmitsIssued
<1>4. IssuingOK(w)'
  BY <1>1 DEF IssuingOK, Ready
<1>5. \A v \in Commands : IssuingOK(v)'
  BY <1>0, <1>4, IssuingStays
<1> HIDE DEF c
<1> QED BY <1>0, <1>1, <1>2, <1>3, <1>5 DEF AdmitInv


LEMMA AdmitStep ==
  ASSUME ShapeInv, AdmitInv, NEW w \in Commands, CommandStep(w)
  PROVE  AdmitInv'
<1>1. CASE StartProvision(w)
  <2>1. UNCHANGED <<admits, cards, log>>
    BY <1>1 DEF StartProvision, tableVars
  <2>2. command'[w].stage = "build"
    BY <1>1, StartProvisionDoes DEF Building
  <2> QED BY <2>1, <2>2, AdmitElsewhere
<1>2. CASE Build(w)
  <2>1. UNCHANGED <<admits, cards, log>>
    BY <1>2 DEF Build
  <2>2. PICK byte \in Secrets, coeffs \in [1..(Threshold - 1) -> Coefficients] :
          LET kek    == [id |-> minted + 1, byte |-> byte]
              sealed == SplitAndDestroy(command[w].kind, kek, coeffs, command[w].read)
          IN command'[w] = Storing("created", command[w].kind, command[w].read,
                                   kek, sealed, Range(sealed))
    BY <1>2, BuildDoes
  <2>3. command'[w].stage = "created"
    BY <2>2 DEF Storing
  <2> QED BY <2>1, <2>3, AdmitElsewhere
<1>3. CASE BuildRefused(w) \/ Fail(w)
  <2>1. UNCHANGED <<admits, cards, log>>
    BY <1>3 DEF BuildRefused, Fail, tableVars
  <2>2. command'[w].stage = "ready"
    BY <1>3, ReadyAgain DEF Ready
  <2> QED BY <2>1, <2>2, AdmitElsewhere
<1>4. CASE AppendCreated(w)
  <2>1. UNCHANGED <<admits, cards>>
    BY <1>4 DEF AppendCreated, otherVars
  <2>2. log' = log \union {Created(command[w].kind, command[w].kek)}
    BY <1>4, AppendCreatedDoes
  <2>3. command'[w].stage = "shares"
    BY <1>4, AppendCreatedDoes, StoringFields
  <2>4. Created(command[w].kind, command[w].kek).type # "ADMIT_TOKENS_ISSUED"
    BY DEF Created
  <2> QED BY <2>1, <2>2, <2>3, <2>4, AdmitElsewhere
<1>5. CASE PutShare(w)
  <2>1. UNCHANGED <<admits, cards, log>>
    BY <1>5 DEF PutShare, otherVars
  <2>2. command'[w].stage \in {"ready", "shares"}
    BY <1>5, PutShareDoes, StoringFields DEF Ready
  <2> QED BY <2>1, <2>2, AdmitElsewhere
<1>6. CASE AppendIssued(w)
  <2>1. UNCHANGED <<admits, cards>>
    BY <1>6 DEF AppendIssued
  <2>2. log' = log \union {Issued(command[w].kind, command[w].sealed)}
    BY <1>6, AppendIssuedDoes
  <2>3. command'[w].stage \in {"ready", "build"}
    <3>1. command'[w] = Building("answers", command[w].read) \/ command'[w] = Ready
      BY <1>6, AppendIssuedDoes
    <3> QED BY <3>1 DEF Ready, Building
  <2>4. Issued(command[w].kind, command[w].sealed).type # "ADMIT_TOKENS_ISSUED"
    BY DEF Issued
  <2> QED BY <2>1, <2>2, <2>3, <2>4, AdmitElsewhere
<1> QED BY <1>1, <1>2, <1>3, <1>4, <1>5, <1>6, StartAdmitKeeps, PutTokenKeeps,
           AppendAdmitsKeeps, HandOutKeeps DEF CommandStep

LEMMA AdmitNext == ShapeInv /\ AdmitInv /\ [Next]_vars => AdmitInv'
<1> SUFFICES ASSUME ShapeInv, AdmitInv, [Next]_vars PROVE AdmitInv'
  OBVIOUS
<1>1. CASE \E w \in Commands : CommandStep(w)
  BY <1>1, AdmitStep
<1>2. CASE UNCHANGED <<admits, cards, log, command>>
  BY <1>2 DEF AdmitInv, IssuingOK
<1>3. KeyStep \/ (\E c \in Machines : Enrol(c)) \/ UNCHANGED vars =>
        UNCHANGED <<admits, cards, log, command>>
  BY DEF KeyStep, Enrol, tableVars, otherVars, vars
<1> QED BY <1>1, <1>2, <1>3 DEF Next

LEMMA AdmitInvariant == Spec => []AdmitInv
<1> QED BY AdmitInit, AdmitNext, ShapeInvariant, PTL DEF Spec

(* Every card in a candidate's hands is on record, and no seat has two,    *)
(* for any rosters and any number of issue-admit commands that overlap and *)
(* end anywhere.                                                           *)
THEOREM CardsStayOnRecord == Spec => []CardsAreOnRecord
<1>1. AdmitInv => CardsAreOnRecord
  BY DEF AdmitInv, CardsAreOnRecord
<1> QED BY <1>1, AdmitInvariant, PTL

-----------------------------------------------------------------------------
(* Keys.                                                                   *)

\* A key the operator mistyped, or one that the custodian's machine has shown.
Held(c, key) ==
  key \in {None, Wrong} \/ [machine |-> c, name |-> BoxKey, seed |-> key] \in published

Known(read) ==
  /\ read \in [Machines -> Keys]
  /\ \A c \in Machines : Held(c, read[c])

RowOK(s) == s.holder \in Machines /\ s.to # None /\ Held(s.holder, s.to)

\* What a command that provisions has in hand.
ReadOK(w) ==
  LET c == command[w]
  IN /\ c.stage \in {"build", "created", "shares"} => Known(c.read)
     /\ c.stage \in {"created", "shares"} => c.left \in Seq(c.sealed) /\ \A s \in c.sealed : RowOK(s)

KeysInv ==
  /\ Known(custodians)
  /\ \A s \in shares : RowOK(s)
  /\ \A w \in Commands : ReadOK(w)

\* What was shown stays shown.
LEMMA PublishedGrows ==
  ASSUME [KeyStoreNext]_keyVars
  PROVE  published \subseteq published'
BY DEF KeyStoreNext, Open, HaveKey, NewKey, Flush, Show, keyVars

LEMMA HeldStays ==
  ASSUME published \subseteq published'
  PROVE  /\ \A c, key : Held(c, key) => Held(c, key)'
         /\ \A read : Known(read) => Known(read)'
         /\ \A s : RowOK(s) => RowOK(s)'
BY DEF Held, Known, RowOK


\* An injection between finite sets of one size reaches all of the second.
LEMMA InjectionIsOnto ==
  ASSUME NEW S, NEW T, IsFiniteSet(T), Cardinality(S) = Cardinality(T),
         NEW f \in [S -> T], \A a, b \in S : f[a] = f[b] => a = b
  PROVE  \A t \in T : \E a \in S : f[a] = t
<1>1. f \in Injection(S, T)
  BY DEF Injection, IsInjective
<1>2. f \in Surjection(S, T)
  BY <1>1, FS_Injection
<1> QED BY <1>2 DEF Surjection

\* The custodians that were read, in the order of their ids: each once.
LEMMA RecipientsFacts ==
  ASSUME NEW read \in [Machines -> Keys]
  PROVE  LET to == Recipients(read)
             n  == Cardinality(Holders(read))
         IN /\ n \in Nat
            /\ to \in [1..n -> Holders(read)]
            /\ \A i, j \in 1..n : to[i] = to[j] => i = j
            /\ \A c \in Holders(read) : \E i \in 1..n : to[i] = c
<1> DEFINE S == Holders(read)
           n == Cardinality(S)
           Upto(c) == {d \in S : d <= c}
           rank == [c \in S |-> Cardinality(Upto(c))]
           by == [i \in 1..n |-> CHOOSE c \in S : rank[c] = i]
<1>1. S \subseteq Nat /\ IsFiniteSet(S) /\ n \in Nat
  <2>1. S \subseteq Machines /\ Machines \subseteq Nat /\ IsFiniteSet(Machines)
    BY ProvisioningAssumption DEF Holders
  <2> HIDE DEF S
  <2>2. IsFiniteSet(S)
    BY <2>1, FS_Subset
  <2> QED BY <2>1, <2>2, FS_CardinalityType
<1>2. IsFiniteSet(1..n) /\ Cardinality(1..n) = n
  <2> HIDE DEF n
  <2> QED BY <1>1, FS_Interval
<1> HIDE DEF S
<1>3. \A c \in S : IsFiniteSet(Upto(c)) /\ Cardinality(Upto(c)) \in 1..n
  <2> TAKE c \in S
  <2>1. Upto(c) \in SUBSET S /\ c \in Upto(c)
    BY <1>1
  <2>2. IsFiniteSet(Upto(c)) /\ Cardinality(Upto(c)) <= n
    BY <1>1, <2>1, FS_Subset
  <2>3. Cardinality(Upto(c)) \in Nat /\ Cardinality(Upto(c)) # 0
    BY <2>1, <2>2, FS_CardinalityType, FS_EmptySet
  <2> HIDE DEF n, Upto
  <2> QED BY <1>1, <2>2, <2>3
<1>4. \A c, d \in S : c < d => Cardinality(Upto(c)) < Cardinality(Upto(d))
  <2> SUFFICES ASSUME NEW c \in S, NEW d \in S, c < d
               PROVE  Cardinality(Upto(c)) < Cardinality(Upto(d))
    OBVIOUS
  <2>0. c \in Nat /\ d \in Nat
    BY <1>1
  <2>1. Upto(c) \in SUBSET Upto(d) /\ d \in Upto(d) /\ d \notin Upto(c)
    <3>1. \A e \in S : e <= c => e <= d
      BY <1>1, <2>0
    <3>2. ~(d <= c) /\ d <= d
      BY <2>0
    <3> QED BY <3>1, <3>2
  <2>2. IsFiniteSet(Upto(d)) /\ Cardinality(Upto(c)) \in Nat /\ Cardinality(Upto(d)) \in Nat
    BY <1>1, <1>3
  <2> HIDE DEF Upto
  <2>3. /\ Cardinality(Upto(c)) <= Cardinality(Upto(d))
        /\ Cardinality(Upto(c)) # Cardinality(Upto(d))
    BY <2>1, <2>2, FS_Subset
  <2> QED BY <2>2, <2>3
<1>5. \A c, d \in S : rank[c] <= rank[d] => c <= d
  <2> SUFFICES ASSUME NEW c \in S, NEW d \in S, ~(c <= d)
               PROVE  ~(rank[c] <= rank[d])
    OBVIOUS
  <2>1. d < c
    BY <1>1
  <2>2. Cardinality(Upto(d)) < Cardinality(Upto(c))
    BY <1>4, <2>1
  <2>3. Cardinality(Upto(d)) \in Nat /\ Cardinality(Upto(c)) \in Nat
    BY <1>1, <1>3
  <2> HIDE DEF Upto
  <2> QED BY <2>2, <2>3
<1>6. rank \in [S -> 1..n]
  BY <1>3
<1> HIDE DEF rank
<1>7. \A c, d \in S : rank[c] = rank[d] => c = d
  <2> SUFFICES ASSUME NEW c \in S, NEW d \in S, rank[c] = rank[d] PROVE c = d
    OBVIOUS
  <2>1. rank[c] \in 1..n /\ rank[d] \in 1..n
    BY <1>6
  <2>2. rank[c] <= rank[d] /\ rank[d] <= rank[c]
    BY <1>1, <2>1
  <2>3. c <= d /\ d <= c
    BY <1>5, <2>2
  <2> QED BY <1>1, <2>3
<1>8. \A i \in 1..n : \E c \in S : rank[c] = i
  <2> DEFINE T == 1..n
  <2>1. IsFiniteSet(T) /\ Cardinality(S) = Cardinality(T) /\ rank \in [S -> T]
    BY <1>2, <1>6
  <2> HIDE DEF T
  <2>2. \A i \in T : \E c \in S : rank[c] = i
    BY <1>7, <2>1, InjectionIsOnto
  <2> QED BY <2>2 DEF T
<1>9. \A i \in 1..n : by[i] \in S /\ rank[by[i]] = i
  BY <1>8
<1>10. by \in [1..n -> S]
  BY <1>9
<1> HIDE DEF by
<1>11. \A i, j \in DOMAIN by : i < j => by[i] < by[j]
  <2> SUFFICES ASSUME NEW i \in 1..n, NEW j \in 1..n, i < j PROVE by[i] < by[j]
    BY <1>10
  <2>1. by[i] \in S /\ by[j] \in S /\ rank[by[i]] = i /\ rank[by[j]] = j
    BY <1>9
  <2>2. by[i] \in Nat /\ by[j] \in Nat /\ by[i] # by[j]
    <3>1. i # j
      BY <1>1
    <3> QED BY <1>1, <2>1, <3>1
  <2>4. ASSUME by[j] < by[i] PROVE FALSE
    <3>1. Cardinality(Upto(by[j])) < Cardinality(Upto(by[i]))
      BY <1>4, <2>1, <2>4
    <3>2. rank[by[j]] < rank[by[i]]
      BY <3>1, <2>1 DEF rank
    <3> HIDE DEF n
    <3> QED BY <3>2, <2>1, <1>1
  <2> QED BY <2>2, <2>4
<1> DEFINE to == Recipients(read)
<1>12. to \in [1..n -> S] /\ \A i, j \in DOMAIN to : i < j => to[i] < to[j]
  BY <1>10, <1>11 DEF Recipients, S, n
<1> HIDE DEF to
<1>13. \A i, j \in 1..n : to[i] = to[j] => i = j
  <2> SUFFICES ASSUME NEW i \in 1..n, NEW j \in 1..n, to[i] = to[j], i # j PROVE FALSE
    OBVIOUS
  <2>1. i < j \/ j < i
    BY <1>1
  <2>2. to[i] < to[j] \/ to[j] < to[i]
    BY <1>12, <2>1
  <2>3. to[i] \in Nat /\ to[j] \in Nat
    BY <1>1, <1>12
  <2> QED BY <2>2, <2>3
<1>14. \A c \in S : \E i \in 1..n : to[i] = c
  <2> DEFINE T == 1..n
  <2>1. IsFiniteSet(S) /\ Cardinality(T) = Cardinality(S) /\ to \in [T -> S]
    BY <1>1, <1>2, <1>12
  <2>2. \A i, j \in T : to[i] = to[j] => i = j
    BY <1>13
  <2> HIDE DEF T
  <2>3. \A c \in S : \E i \in T : to[i] = c
    BY <2>1, <2>2, InjectionIsOnto
  <2> QED BY <2>3 DEF T
<1> QED BY <1>1, <1>12, <1>13, <1>14 DEF to, S

\* One envelope for each of them, sealed to the key that was read.
LEMMA SplitFacts ==
  ASSUME NEW kind, NEW kek, NEW coeffs, NEW read \in [Machines -> Keys]
  PROVE  LET sealed == SplitAndDestroy(kind, kek, coeffs, read)
             to     == Recipients(read)
             n      == Cardinality(Holders(read))
         IN /\ sealed \in Seq(Range(sealed))
            /\ DOMAIN sealed = 1..n
            /\ \A i \in 1..n : /\ sealed[i].kind = kind /\ sealed[i].holder = to[i]
                               /\ sealed[i].to = read[to[i]] /\ sealed[i].share.set = kek.id
<1> DEFINE to == Recipients(read)
           n  == Cardinality(Holders(read))
           split == ShamirSplit(kek.id, kek.byte, coeffs, Len(to))
           sealed == SplitAndDestroy(kind, kek, coeffs, read)
<1>1. n \in Nat /\ to \in [1..n -> Holders(read)]
  BY RecipientsFacts
<1> HIDE DEF to, n
<1>2. to \in Seq(Holders(read)) /\ DOMAIN to = 1..n
  BY <1>1, SeqDef
<1>3. DOMAIN to = 1..Len(to)
  BY <1>2, LenProperties
<1>4. \A i \in 1..n : split[i].set = kek.id
  BY <1>2, <1>3 DEF ShamirSplit
<1> HIDE DEF split
<1>5. sealed = [i \in 1..n |-> [kind |-> kind, holder |-> to[i], share |-> split[i],
                                to |-> read[to[i]]]]
  BY <1>2 DEF SplitAndDestroy, to, split
<1> HIDE DEF sealed
<1>6. sealed \in [1..n -> Range(sealed)]
  BY <1>5 DEF Range
<1>7. sealed \in Seq(Range(sealed))
  BY <1>1, <1>6, SeqDef
<1>8. \A i \in 1..n : /\ sealed[i].kind = kind /\ sealed[i].holder = to[i]
                      /\ sealed[i].to = read[to[i]] /\ sealed[i].share.set = kek.id
  BY <1>4, <1>5
<1>9. DOMAIN sealed = 1..n
  BY <1>5
<1> QED BY <1>7, <1>8, <1>9 DEF sealed, to, n


LEMMA KeysInit == KeyStoreInv /\ Init => KeysInv
<1> SUFFICES ASSUME KeyStoreInv, Init PROVE KeysInv
  OBVIOUS
<1>1. Known(custodians)
  <2> SUFFICES ASSUME NEW c \in Machines, Enrolled[c] \notin {None, Wrong}
               PROVE  [machine |-> c, name |-> BoxKey, seed |-> Enrolled[c]] \in published
    BY ProvisioningAssumption DEF Known, Held, Init
  <2>1. PICK i \in DOMAIN FirstFiles[c].entries :
          FirstFiles[c].entries[i].name = BoxKey /\ FirstFiles[c].entries[i].seed = Enrolled[c]
    BY ProvisioningAssumption
  <2>2. [machine |-> c, name |-> BoxKey, seed |-> Enrolled[c]] \in Shown(c, FirstFiles[c].entries)
    BY <2>1 DEF Shown
  <2>3. FirstFiles[c] # NoFile
    BY ProvisioningAssumption
  <2> QED BY <2>2, <2>3 DEF Init, KeyStoreInit
<1>2. shares = {} /\ \A w \in Commands : command[w] = Ready
  BY DEF Init
<1> QED BY <1>1, <1>2 DEF KeysInv, ReadOK, Ready

\* What the other commands have in hand stays so; so does a table's row.
LEMMA KeysStay ==
  ASSUME ShapeInv, KeysInv, NEW w \in Commands, CommandStep(w), UNCHANGED published,
         Known(custodians)', \A s \in shares' : RowOK(s), ReadOK(w)'
  PROVE  KeysInv'
<1>1. published \subseteq published'
  OBVIOUS
<1>2. \A s : RowOK(s) => RowOK(s)'
  BY <1>1, HeldStays
<1>3. ASSUME NEW v \in Commands, v # w PROVE ReadOK(v)'
  <2>1. ReadOK(v) /\ command'[v] = command[v]
    BY <1>3, OthersStay DEF KeysInv
  <2>2. \A read : Known(read) => Known(read)'
    BY <1>1, HeldStays
  <2> QED BY <1>2, <2>1, <2>2 DEF ReadOK
<1> QED BY <1>2, <1>3 DEF KeysInv

LEMMA BuildKeeps ==
  ASSUME ShapeInv, KeysInv, NEW w \in Commands, Build(w)
  PROVE  KeysInv'
<1> DEFINE c == command[w]
<1>0. CommandStep(w) /\ UNCHANGED <<published, custodians, shares>>
  BY DEF CommandStep, Build, keyVars
<1>1. Known(c.read)
  <2>1. c.stage = "build"
    BY BuildDoes DEF IsBuilding
  <2> QED BY <2>1 DEF KeysInv, ReadOK
<1>2. PICK byte \in Secrets, coeffs \in [1..(Threshold - 1) -> Coefficients] :
        LET kek    == [id |-> minted + 1, byte |-> byte]
            sealed == SplitAndDestroy(c.kind, kek, coeffs, c.read)
        IN command'[w] = Storing("created", c.kind, c.read, kek, sealed, Range(sealed))
  BY BuildDoes
<1> DEFINE kek    == [id |-> minted + 1, byte |-> byte]
           sealed == SplitAndDestroy(c.kind, kek, coeffs, c.read)
           to     == Recipients(c.read)
           n      == Cardinality(Holders(c.read))
<1>3. command'[w] = Storing("created", c.kind, c.read, kek, sealed, Range(sealed))
  BY <1>2
<1>4. c.read \in [Machines -> Keys]
  BY <1>1 DEF Known
<1> HIDE DEF kek
<1>5. /\ sealed \in Seq(Range(sealed))
      /\ DOMAIN sealed = 1..n
      /\ \A i \in 1..n : sealed[i].holder = to[i] /\ sealed[i].to = c.read[to[i]]
  BY <1>4, SplitFacts
<1>6. to \in [1..n -> Holders(c.read)]
  BY <1>4, RecipientsFacts
<1> HIDE DEF sealed, to, n
<1>7. ASSUME NEW s \in Range(sealed) PROVE RowOK(s)
  <2>1. PICK i \in 1..n : s = sealed[i]
    BY <1>5, <1>7 DEF Range
  <2>2. to[i] \in Machines /\ c.read[to[i]] # None
    BY <1>6, <2>1 DEF Holders
  <2>3. s.holder = to[i] /\ s.to = c.read[to[i]]
    BY <1>5, <2>1
  <2>4. Held(to[i], c.read[to[i]])
    BY <1>1, <2>2 DEF Known
  <2> HIDE DEF c
  <2> QED BY <2>2, <2>3, <2>4 DEF RowOK
<1> HIDE DEF c
<1>8. /\ command'[w].stage = "created" /\ command'[w].read = c.read
      /\ command'[w].left = sealed /\ command'[w].sealed = Range(sealed)
  BY <1>3, StoringFields
<1>9. ReadOK(w)'
  BY <1>0, <1>1, <1>5, <1>7, <1>8 DEF ReadOK, RowOK, Known, Held
<1> QED BY <1>0, <1>9, KeysStay DEF KeysInv, Known, Held

LEMMA PutShareKeeps ==
  ASSUME ShapeInv, KeysInv, NEW w \in Commands, PutShare(w)
  PROVE  KeysInv'
<1> DEFINE c == command[w]
<1>0. CommandStep(w) /\ UNCHANGED <<published, custodians>>
  BY DEF CommandStep, PutShare, keyVars
<1>1. /\ c.stage = "shares" /\ c.left # <<>>
      /\ \/ command'[w] = Ready /\ shares' = shares
         \/ /\ shares' = shares \union {Head(c.left)}
            /\ command'[w] = Storing("shares", c.kind, c.read, c.kek, Tail(c.left), c.sealed)
  BY PutShareDoes
<1>2. Known(c.read) /\ c.left \in Seq(c.sealed) /\ \A s \in c.sealed : RowOK(s)
  BY <1>1 DEF KeysInv, ReadOK
<1>3. Head(c.left) \in c.sealed /\ Tail(c.left) \in Seq(c.sealed)
  BY <1>1, <1>2, HeadAndTail
<1> HIDE DEF c
<1>4. \A s \in shares' : RowOK(s)
  BY <1>1, <1>2, <1>3 DEF KeysInv
<1>5. ReadOK(w)'
  <2>1. CASE command'[w] = Ready
    BY <2>1 DEF ReadOK, Ready
  <2>2. CASE command'[w] = Storing("shares", c.kind, c.read, c.kek, Tail(c.left), c.sealed)
    <3>1. /\ command'[w].stage = "shares" /\ command'[w].read = c.read
          /\ command'[w].left = Tail(c.left) /\ command'[w].sealed = c.sealed
      BY <2>2, StoringFields
    <3> QED BY <1>0, <1>2, <1>3, <3>1 DEF ReadOK, RowOK, Known, Held
  <2> QED BY <1>1, <2>1, <2>2
<1> QED BY <1>0, <1>4, <1>5, KeysStay DEF KeysInv, Known, Held


\* A command changes nothing on the custodians' machines.
LEMMA CommandsApart ==
  ASSUME NEW w \in Commands, CommandStep(w)
  PROVE  UNCHANGED keyVars
BY DEF CommandStep, StartProvision, Build, BuildRefused, AppendCreated, PutShare,
       AppendIssued, StartAdmit, PutToken, AppendAdmits, HandOut, Fail

LEMMA KeysStep ==
  ASSUME ShapeInv, KeysInv, NEW w \in Commands, CommandStep(w)
  PROVE  KeysInv'
<1>0. UNCHANGED published
  BY CommandsApart DEF keyVars
<1>1. CASE StartProvision(w)
  <2>1. UNCHANGED <<custodians, shares>>
    BY <1>1 DEF StartProvision, tableVars
  <2>2. command'[w].stage = "build" /\ command'[w].read = custodians
    BY <1>1, StartProvisionDoes, BuildingIsShaped DEF Kinds
  <2>3. Known(custodians)' /\ \A s \in shares' : RowOK(s)
    BY <1>0, <2>1 DEF KeysInv, Known, Held
  <2>4. ReadOK(w)'
    BY <2>1, <2>2, <2>3 DEF ReadOK
  <2> QED BY <1>0, <2>3, <2>4, KeysStay
<1>2. CASE BuildRefused(w) \/ Fail(w) \/ StartAdmit(w) \/ PutToken(w)
           \/ AppendAdmits(w) \/ HandOut(w)
  <2>1. UNCHANGED <<custodians, shares>>
    BY <1>2 DEF BuildRefused, Fail, StartAdmit, PutToken, AppendAdmits, HandOut, tableVars
  <2>2. command'[w].stage \in {"ready", "rows", "handOut"}
    BY <1>2, ReadyAgain, StartAdmitDoes, PutTokenDoes, AppendAdmitsDoes, HandOutDoes,
       IssuingFields DEF Ready
  <2>3. Known(custodians)' /\ \A s \in shares' : RowOK(s)
    BY <1>0, <2>1 DEF KeysInv, Known, Held
  <2>4. ReadOK(w)'
    BY <2>2 DEF ReadOK
  <2> QED BY <1>0, <2>3, <2>4, KeysStay
<1>3. CASE AppendCreated(w)
  <2>1. UNCHANGED <<custodians, shares>>
    BY <1>3 DEF AppendCreated
  <2>2. /\ command[w].stage = "created" /\ command'[w].read = command[w].read
        /\ command'[w].left = command[w].left /\ command'[w].sealed = command[w].sealed
    BY <1>3, AppendCreatedDoes, StoringFields
  <2>3. Known(custodians)' /\ \A s \in shares' : RowOK(s)
    BY <1>0, <2>1 DEF KeysInv, Known, Held
  <2>4. ReadOK(w)'
    BY <1>0, <2>2 DEF KeysInv, ReadOK, RowOK, Known, Held
  <2> QED BY <1>0, <2>3, <2>4, KeysStay
<1>4. CASE AppendIssued(w)
  <2>1. UNCHANGED <<custodians, shares>>
    BY <1>4 DEF AppendIssued
  <2>2. command[w].stage = "shares"
    BY <1>4, AppendIssuedDoes
  <2>3. \/ command'[w].stage = "ready"
        \/ command'[w].stage = "build" /\ command'[w].read = command[w].read
    <3>1. command'[w] = Building("answers", command[w].read) \/ command'[w] = Ready
      BY <1>4, AppendIssuedDoes
    <3> QED BY <3>1 DEF Ready, Building
  <2>4. Known(custodians)' /\ \A s \in shares' : RowOK(s)
    BY <1>0, <2>1 DEF KeysInv, Known, Held
  <2>5. ReadOK(w)'
    BY <1>0, <2>2, <2>3 DEF KeysInv, ReadOK, Known, Held
  <2> QED BY <1>0, <2>4, <2>5, KeysStay
<1> QED BY <1>1, <1>2, <1>3, <1>4, BuildKeeps, PutShareKeeps DEF CommandStep

\* A key typed at enrolment is a key that was shown, or a mistake.
LEMMA EnrolKeeps ==
  ASSUME KeyStoreInv, KeysInv, NEW c \in Machines, Enrol(c)
  PROVE  KeysInv'
<1>1. PICK key \in {Wrong} \union {k.seed : k \in {k \in published :
                                     k.machine = c /\ k.name = BoxKey}} :
        custodians' = [custodians EXCEPT ![c] = key]
  BY DEF Enrol
<1>2. Held(c, key) /\ key \in Keys
  <2>1. CASE key = Wrong
    BY <2>1 DEF Held, Keys
  <2>2. CASE key # Wrong
    <3>1. PICK k \in published : k.machine = c /\ k.name = BoxKey /\ k.seed = key
      BY <1>1, <2>2
    <3>2. k \in [machine: Machines, name: Names, seed: Nat]
      BY DEF KeyStoreInv, KeyStoreTypeOK
    <3>3. k = [machine |-> c, name |-> BoxKey, seed |-> key] /\ key \in Nat
      BY <3>1, <3>2
    <3> QED BY <3>1, <3>3 DEF Held, Keys
  <2> QED BY <2>1, <2>2
<1>3. Known(custodians')
  BY <1>1, <1>2 DEF KeysInv, Known
<1>4. UNCHANGED <<published, shares, command>>
  BY DEF Enrol, keyVars
<1>5. Known(custodians)'
  BY <1>3, <1>4 DEF Known, Held
<1> QED BY <1>4, <1>5 DEF KeysInv, RowOK, ReadOK, Known, Held

LEMMA KeyStepKeeps ==
  ASSUME KeysInv, KeyStep
  PROVE  KeysInv'
<1>1. published \subseteq published'
  BY PublishedGrows DEF KeyStep
<1>2. UNCHANGED <<custodians, shares, command>>
  BY DEF KeyStep, tableVars
<1>3. \A read : Known(read) => Known(read)'
  BY <1>1, HeldStays
<1>4. \A s : RowOK(s) => RowOK(s)'
  BY <1>1, HeldStays
<1>5. Known(custodians)'
  BY <1>1, <1>2 DEF KeysInv, Known, Held
<1> QED BY <1>2, <1>3, <1>4, <1>5 DEF KeysInv, ReadOK

LEMMA KeysNext == KeyStoreInv /\ ShapeInv /\ KeysInv /\ [Next]_vars => KeysInv'
<1> SUFFICES ASSUME KeyStoreInv, ShapeInv, KeysInv, [Next]_vars PROVE KeysInv'
  OBVIOUS
<1>1. CASE UNCHANGED vars
  <2>1. UNCHANGED <<published, custodians, shares, command>>
    BY <1>1 DEF vars, keyVars, tableVars
  <2> QED BY <2>1 DEF KeysInv, RowOK, ReadOK, Known, Held
<1> QED BY <1>1, KeysStep, EnrolKeeps, KeyStepKeeps DEF Next

LEMMA KeyFilesInvariant == Spec => []KeyStoreInv
<1>1. Init => KeyStoreInv
  BY KeyStoreInvInit DEF Init
<1>2. [Next]_vars => [KeyStoreNext]_keyVars
  BY CommandsApart DEF Next, KeyStep, Enrol, vars
<1> QED BY <1>1, <1>2, KeyStoreInvNext, PTL DEF Spec

LEMMA KeysInvariant == Spec => []KeysInv
<1>1. Init => KeyStoreInv
  BY KeyStoreInvInit DEF Init
<1> QED BY <1>1, KeysInit, KeysNext, KeyFilesInvariant, ShapeInvariant, PTL DEF Spec

LEMMA InvSharesOpen == KeyStoreInv /\ KeysInv => SharesOpen
<1> SUFFICES ASSUME KeyStoreInv, KeysInv,
                    NEW s \in shares, s.to # Wrong, s.holder \notin overtaken
             PROVE  /\ disk[s.holder] # NoFile
                    /\ [machine |-> s.holder, name |-> BoxKey, seed |-> s.to]
                         \in Shown(s.holder, disk[s.holder].entries)
  BY DEF SharesOpen
<1> DEFINE k == [machine |-> s.holder, name |-> BoxKey, seed |-> s.to]
<1>1. k \in published
  BY DEF KeysInv, RowOK, Held
<1>2. k.machine = s.holder
  OBVIOUS
<1> HIDE DEF k
<1>3. disk[s.holder] # NoFile /\ k \in Shown(s.holder, disk[s.holder].entries)
  BY <1>1, <1>2 DEF KeyStoreInv, PublishedIsKept
<1> QED BY <1>3 DEF k

(* Every share that is stored can be opened by its custodian, unless the   *)
(* operator mistyped his key or his file was replaced by a program that    *)
(* had not read it: for any number of custodians, of programs that make    *)
(* keys on their machines, of provisionings and of enrolments meanwhile.   *)
THEOREM StoredSharesOpen == Spec => []SharesOpen
<1> QED BY KeyFilesInvariant, KeysInvariant, InvSharesOpen, PTL

-----------------------------------------------------------------------------
(* Bundles and their shares.                                               *)


\* These rows are all the shares of the split of one key for who was read.
WholeSplit(rows, kind, id, read) ==
  /\ \A s \in rows : s.kind = kind /\ s.share.set = id
  /\ {<<s.holder, s.to>> : s \in rows} = {<<c, read[c]>> : c \in Holders(read)}
  /\ Cardinality(rows) = Cardinality(Holders(read))

\* A bundle that is stored, shared and logged.
Complete(kind, read) ==
  /\ bundles[kind] # NoBundle
  /\ WholeSplit(SharesOf(kind), kind, bundles[kind].id, read)
  /\ Created(kind, bundles[kind]) \in log
  /\ Issued(kind, SharesOf(kind)) \in log

Active(w, kind) == command[w].stage \in {"created", "shares"} /\ command[w].kind = kind

NotIssued(kind) == \A f \in log : f.type = "SHARES_ISSUED" => f.kind # kind

InRange(q) == {q[i] : i \in 1..Len(q)}

\* A command that stores shares has the whole split, and what is stored of it
\* is what it has not left to store.
StoringOK(w) ==
  LET c == command[w]
  IN c.stage \in {"created", "shares"} =>
       /\ bundles[c.kind] = c.kek /\ c.kek # NoBundle
       /\ WholeSplit(c.sealed, c.kind, c.kek.id, c.read)
       /\ \A i, j \in 1..Len(c.left) : c.left[i] = c.left[j] => i = j
       /\ SharesOf(c.kind) = c.sealed \ InRange(c.left)
       /\ c.stage = "shares" => Created(c.kind, c.kek) \in log
       /\ NotIssued(c.kind)

\* The answers are built when the paper is complete.
BuildOK(w) ==
  LET c == command[w]
  IN c.stage \in {"build", "created", "shares"} /\ c.kind = "answers" => Complete("paper", c.read)

LogOK ==
  \A f \in log :
    /\ f.type = "BUNDLE_CREATED" => bundles[f.kind] = f.kek /\ f.kek # NoBundle /\ f.kind \in Kinds
    /\ f.type = "SHARES_ISSUED" =>
         /\ f.kind \in Kinds /\ f.shares = SharesOf(f.kind)
         /\ Created(f.kind, bundles[f.kind]) \in log

BundleInv ==
  /\ minted \in Nat
  /\ bundles = [kind \in Kinds |-> bundles[kind]]
  /\ \A kind \in Kinds : bundles[kind] = NoBundle => SharesOf(kind) = {} /\ NotIssued(kind)
  /\ \A w \in Commands : StoringOK(w) /\ BuildOK(w)
  /\ \A v, w \in Commands, kind \in Kinds : Active(v, kind) /\ Active(w, kind) => v = w
  /\ LogOK
  /\ \A read \in reported, kind \in Kinds : Complete(kind, read)

LEMMA BundleInit == Init => BundleInv
<1> SUFFICES ASSUME Init PROVE BundleInv
  OBVIOUS
<1>1. /\ minted = 0 /\ log = {} /\ shares = {} /\ reported = {}
      /\ bundles = [kind \in Kinds |-> NoBundle]
      /\ \A w \in Commands : command[w] = Ready
  BY DEF Init
<1>2. \A w \in Commands : command[w].stage = "ready"
  BY <1>1 DEF Ready
<1>3. \A w \in Commands, kind \in Kinds : StoringOK(w) /\ BuildOK(w) /\ ~Active(w, kind)
  BY <1>2 DEF StoringOK, BuildOK, Active
<1>4. LogOK /\ \A kind \in Kinds : NotIssued(kind) /\ SharesOf(kind) = {}
  BY <1>1 DEF LogOK, NotIssued, SharesOf
<1>5. minted \in Nat /\ bundles = [kind \in Kinds |-> bundles[kind]]
  BY <1>1
<1>6. \A read \in reported, kind \in Kinds : Complete(kind, read)
  BY <1>1
<1>7. \A v, w \in Commands, kind \in Kinds : Active(v, kind) /\ Active(w, kind) => v = w
  BY <1>3
<1>8. \A w \in Commands : StoringOK(w) /\ BuildOK(w)
  BY <1>2 DEF StoringOK, BuildOK
<1> QED BY <1>4, <1>5, <1>6, <1>7, <1>8 DEF BundleInv

LEMMA CompleteIsIssued ==
  ASSUME NEW kind, NEW read, Complete(kind, read)
  PROVE  bundles[kind] # NoBundle /\ ~NotIssued(kind)
<1>1. /\ Issued(kind, SharesOf(kind)).type = "SHARES_ISSUED"
      /\ Issued(kind, SharesOf(kind)).kind = kind
  BY DEF Issued
<1> QED BY <1>1 DEF Complete, NotIssued

\* A step that is about one bundle, of which no shares have been issued and at
\* which no other command is, leaves alone what the invariant says of the rest.
LEMMA OneBundle ==
  ASSUME ShapeInv, BundleInv, NEW w \in Commands, CommandStep(w), NEW k \in Kinds,
         \A kind \in Kinds : kind # k =>
           bundles'[kind] = bundles[kind] /\ SharesOf(kind)' = SharesOf(kind),
         log \subseteq log',
         \A f \in log' : f \in log \/ f.kind = k,
         \A v \in Commands : v # w => ~Active(v, k),
         NotIssued(k)
  PROVE  /\ \A kind \in Kinds : \A read : Complete(kind, read) => Complete(kind, read)'
         /\ \A v \in Commands : v # w => StoringOK(v)' /\ BuildOK(v)'
         /\ \A v \in Commands, kind \in Kinds : v # w /\ Active(v, kind)' => Active(v, kind) /\ kind # k
         /\ \A kind \in Kinds : kind # k /\ NotIssued(kind) => NotIssued(kind)'
<1>1. ASSUME NEW kind \in Kinds, NEW read, Complete(kind, read)
      PROVE  Complete(kind, read)'
  <2>1. kind # k
    BY <1>1, CompleteIsIssued
  <2>2. bundles'[kind] = bundles[kind] /\ SharesOf(kind)' = SharesOf(kind)
    BY <2>1
  <2> QED BY <1>1, <2>2 DEF Complete
<1>2. \A kind \in Kinds : kind # k /\ NotIssued(kind) => NotIssued(kind)'
  BY DEF NotIssued
<1>3. ASSUME NEW v \in Commands, v # w
      PROVE  StoringOK(v)' /\ BuildOK(v)'
  <2>1. StoringOK(v) /\ BuildOK(v) /\ command'[v] = command[v]
    BY <1>3, OthersStay DEF BundleInv
  <2>2. command[v].stage \in {"created", "shares"} => command[v].kind \in Kinds
    BY ShapeFacts DEF ShapeInv, IsStoring
  <2>3. command[v].stage \in {"created", "shares"} => command[v].kind # k
    BY <1>3 DEF Active
  <2>4. StoringOK(v)'
    <3> SUFFICES ASSUME command[v].stage \in {"created", "shares"} PROVE StoringOK(v)'
      BY <2>1 DEF StoringOK
    <3>1. PICK kind \in Kinds : kind = command[v].kind /\ kind # k
      BY <2>2, <2>3
    <3>2. bundles'[kind] = bundles[kind] /\ SharesOf(kind)' = SharesOf(kind)
      BY <3>1
    <3>3. NotIssued(kind)'
      BY <1>2, <2>1, <3>1 DEF StoringOK
    <3> QED BY <2>1, <3>1, <3>2, <3>3 DEF StoringOK, SharesOf, NotIssued
  <2>5. BuildOK(v)'
    <3>1. \A read : Complete("paper", read) => Complete("paper", read)'
      BY <1>1 DEF Kinds
    <3> QED BY <2>1, <3>1 DEF BuildOK, Complete, SharesOf
  <2> QED BY <2>4, <2>5
<1>4. ASSUME NEW v \in Commands, NEW kind \in Kinds, v # w, Active(v, kind)'
      PROVE  Active(v, kind) /\ kind # k
  <2>1. command'[v] = command[v]
    BY <1>4, OthersStay
  <2>2. Active(v, kind)
    BY <1>4, <2>1 DEF Active
  <2> QED BY <1>4, <2>2
<1> QED BY <1>1, <1>2, <1>3, <1>4


\* The steps that are about no bundle.
LEMMA BundleElsewhere ==
  ASSUME ShapeInv, BundleInv, NEW w \in Commands, CommandStep(w),
         UNCHANGED <<bundles, shares, minted, reported>>, log \subseteq log',
         \A f \in log' : f \in log \/ f.type = "ADMIT_TOKENS_ISSUED",
         command'[w].stage \notin {"created", "shares"}, BuildOK(w)'
  PROVE  BundleInv'
<1>1. \A kind \in Kinds : NotIssued(kind) => NotIssued(kind)'
  BY DEF NotIssued
<1>2. ASSUME NEW kind \in Kinds, NEW read, Complete(kind, read)
      PROVE  Complete(kind, read)'
  BY <1>2 DEF Complete, SharesOf
<1>3. ASSUME NEW v \in Commands
      PROVE  StoringOK(v)' /\ BuildOK(v)'
  <2>1. CASE v = w
    BY <2>1 DEF StoringOK
  <2>2. CASE v # w
    <3>1. StoringOK(v) /\ BuildOK(v) /\ command'[v] = command[v]
      BY <2>2, OthersStay DEF BundleInv
    <3>2. \A read : Complete("paper", read) => Complete("paper", read)'
      BY <1>2 DEF Kinds
    <3>3. BuildOK(v)'
      BY <3>1, <3>2 DEF BuildOK, Complete, SharesOf
    <3>4. StoringOK(v)'
      BY <3>1 DEF StoringOK, SharesOf, NotIssued
    <3> QED BY <3>3, <3>4
  <2> QED BY <2>1, <2>2
<1>4. ASSUME NEW u \in Commands, NEW v \in Commands, NEW kind \in Kinds,
             Active(u, kind)', Active(v, kind)'
      PROVE  u = v
  <2>1. u # w /\ v # w
    BY <1>4 DEF Active
  <2>2. Active(u, kind) /\ Active(v, kind)
    BY <1>4, <2>1, OthersStay DEF Active
  <2> QED BY <2>2 DEF BundleInv
<1>5. LogOK'
  BY DEF BundleInv, LogOK, SharesOf
<1>6. \A kind \in Kinds : bundles'[kind] = NoBundle => SharesOf(kind)' = {} /\ NotIssued(kind)'
  BY <1>1 DEF BundleInv, SharesOf
<1>7. \A read \in reported', kind \in Kinds : Complete(kind, read)'
  BY <1>2 DEF BundleInv
<1>8. minted' \in Nat /\ bundles' = [kind \in Kinds |-> bundles'[kind]]
  BY DEF BundleInv
<1> QED BY <1>3, <1>4, <1>5, <1>6, <1>7, <1>8 DEF BundleInv

\* An injective sequence is as long as its set is big.
LEMMA RangeSize ==
  ASSUME NEW n \in Nat, NEW S, NEW f \in [1..n -> S],
         \A i, j \in 1..n : f[i] = f[j] => i = j, \A t \in S : \E i \in 1..n : f[i] = t
  PROVE  Cardinality(S) = n
<1> DEFINE T == 1..n
<1>1. f \in [T -> S] /\ (\A i, j \in T : f[i] = f[j] => i = j) /\ \A t \in S : \E i \in T : f[i] = t
  OBVIOUS
<1> HIDE DEF T
<1>2. f \in Bijection(T, S)
  BY <1>1 DEF Bijection, Injection, Surjection, IsInjective
<1>3. ExistsBijection(T, S)
  BY <1>2 DEF ExistsBijection
<1>4. ExistsBijection(1..n, S)
  BY <1>3 DEF T
<1> QED BY <1>4, FS_CountingElements

\* What a command has made is a whole split, none of which it has stored.
LEMMA SplitIsWhole ==
  ASSUME NEW kind, NEW kek, NEW coeffs, NEW read \in [Machines -> Keys]
  PROVE  LET sealed == SplitAndDestroy(kind, kek, coeffs, read)
         IN /\ WholeSplit(Range(sealed), kind, kek.id, read)
            /\ \A i, j \in 1..Len(sealed) : sealed[i] = sealed[j] => i = j
            /\ Range(sealed) = InRange(sealed)
<1> DEFINE sealed == SplitAndDestroy(kind, kek, coeffs, read)
           to     == Recipients(read)
           S      == Holders(read)
           n      == Cardinality(S)
<1>1. /\ sealed \in Seq(Range(sealed))
      /\ DOMAIN sealed = 1..n
      /\ \A i \in 1..n : /\ sealed[i].kind = kind /\ sealed[i].holder = to[i]
                         /\ sealed[i].to = read[to[i]] /\ sealed[i].share.set = kek.id
  BY SplitFacts
<1>2. /\ n \in Nat /\ to \in [1..n -> S]
      /\ \A i, j \in 1..n : to[i] = to[j] => i = j
      /\ \A c \in S : \E i \in 1..n : to[i] = c
  BY RecipientsFacts
<1> HIDE DEF sealed, to, n, S
<1>3. DOMAIN sealed = 1..Len(sealed)
  BY <1>1, LenProperties
<1>4. Range(sealed) = {sealed[i] : i \in 1..n}
  BY <1>1 DEF Range
<1>5. Range(sealed) = InRange(sealed)
  BY <1>1, <1>3, <1>4 DEF InRange
<1>6. \A i, j \in 1..n : sealed[i] = sealed[j] => i = j
  BY <1>1, <1>2
<1>7. \A s \in Range(sealed) : s.kind = kind /\ s.share.set = kek.id
  BY <1>1, <1>4
<1>8. {<<s.holder, s.to>> : s \in Range(sealed)} = {<<c, read[c]>> : c \in S}
  <2>1. ASSUME NEW s \in Range(sealed)
        PROVE  \E c \in S : <<s.holder, s.to>> = <<c, read[c]>>
    BY <1>1, <1>2, <1>4
  <2>2. ASSUME NEW c \in S
        PROVE  \E s \in Range(sealed) : <<s.holder, s.to>> = <<c, read[c]>>
    BY <1>1, <1>2, <1>4
  <2> QED BY <2>1, <2>2
<1>9. Cardinality(Range(sealed)) = n
  <2>1. sealed \in [1..n -> Range(sealed)]
    BY <1>1, <1>4
  <2>2. \A t \in Range(sealed) : \E i \in 1..n : sealed[i] = t
    BY <1>4
  <2> QED BY <1>2, <1>6, <2>1, <2>2, RangeSize
<1>10. WholeSplit(Range(sealed), kind, kek.id, read)
  BY <1>7, <1>8, <1>9 DEF WholeSplit, n, S
<1>11. \A i, j \in 1..Len(sealed) : sealed[i] = sealed[j] => i = j
  BY <1>1, <1>3, <1>6
<1> QED BY <1>5, <1>10, <1>11 DEF sealed


\* The bundle and its split come into being.
LEMMA BuildMakes ==
  ASSUME ShapeInv, KeysInv, BundleInv, NEW w \in Commands, Build(w)
  PROVE  BundleInv'
<1> DEFINE c == command[w]
<1>0. CommandStep(w) /\ UNCHANGED <<shares, log, reported>>
  BY DEF CommandStep, Build
<1>1. PICK k \in Kinds : k = c.kind /\ bundles[k] = NoBundle
  BY BuildDoes DEF IsBuilding, CanPutBundle
<1>2. PICK read \in [Machines -> Keys] : read = c.read
  <2>1. c.stage = "build"
    BY BuildDoes DEF IsBuilding
  <2> QED BY <2>1 DEF KeysInv, ReadOK, Known
<1>3. PICK kek, coeffs, sealed :
        /\ kek.id = minted + 1
        /\ minted' = minted + 1
        /\ bundles' = [bundles EXCEPT ![k] = kek]
        /\ sealed = SplitAndDestroy(k, kek, coeffs, read)
        /\ command'[w] = Storing("created", k, read, kek, sealed, Range(sealed))
  <2>1. PICK byte \in Secrets, coeffs \in [1..(Threshold - 1) -> Coefficients] :
          LET kek    == [id |-> minted + 1, byte |-> byte]
              sealed == SplitAndDestroy(c.kind, kek, coeffs, c.read)
          IN /\ minted' = minted + 1
             /\ bundles' = [bundles EXCEPT ![c.kind] = kek]
             /\ command'[w] = Storing("created", c.kind, c.read, kek, sealed, Range(sealed))
    BY BuildDoes
  <2> DEFINE kek == [id |-> minted + 1, byte |-> byte]
  <2>2. kek.id = minted + 1
    OBVIOUS
  <2> HIDE DEF kek, c
  <2>3. /\ minted' = minted + 1
        /\ bundles' = [bundles EXCEPT ![k] = kek]
        /\ command'[w] = Storing("created", k, read, kek, SplitAndDestroy(k, kek, coeffs, read),
                                 Range(SplitAndDestroy(k, kek, coeffs, read)))
    BY <1>1, <1>2, <2>1 DEF kek
  <2> QED BY <2>2, <2>3
<1>4. /\ bundles'[k] = kek /\ kek # NoBundle /\ minted' \in Nat
      /\ bundles' = [kind \in Kinds |-> bundles'[kind]]
      /\ \A kind \in Kinds : kind # k => bundles'[kind] = bundles[kind]
  <2>1. kek.id # 0
    BY <1>3 DEF BundleInv
  <2>2. kek # NoBundle
    BY <2>1 DEF NoBundle, None
  <2> QED BY <1>3, <2>2 DEF BundleInv
<1>5. SharesOf(k) = {} /\ NotIssued(k)
  BY <1>1 DEF BundleInv
<1>6. \A v \in Commands : ~Active(v, k)
  <2> SUFFICES ASSUME NEW v \in Commands, Active(v, k) PROVE FALSE
    OBVIOUS
  <2>1. StoringOK(v)
    BY DEF BundleInv
  <2> QED BY <1>1, <2>1 DEF StoringOK, Active
<1>7. \A kind \in Kinds : SharesOf(kind)' = SharesOf(kind)
  BY <1>0 DEF SharesOf
<1>8. /\ \A kind \in Kinds : \A r : Complete(kind, r) => Complete(kind, r)'
      /\ \A v \in Commands : v # w => StoringOK(v)' /\ BuildOK(v)'
      /\ \A v \in Commands, kind \in Kinds : v # w /\ Active(v, kind)' => Active(v, kind) /\ kind # k
      /\ \A kind \in Kinds : kind # k /\ NotIssued(kind) => NotIssued(kind)'
  BY <1>0, <1>4, <1>5, <1>6, <1>7, OneBundle
<1>9. /\ command'[w].stage = "created" /\ command'[w].kind = k /\ command'[w].read = read
      /\ command'[w].kek = kek /\ command'[w].left = sealed /\ command'[w].sealed = Range(sealed)
  BY <1>3, StoringFields
<1>10. NotIssued(k)'
  BY <1>0, <1>5 DEF NotIssued
<1>11. StoringOK(w)'
  <2>1. /\ WholeSplit(Range(sealed), k, kek.id, read)
        /\ \A i, j \in 1..Len(sealed) : sealed[i] = sealed[j] => i = j
        /\ Range(sealed) = InRange(sealed)
    BY <1>3, SplitIsWhole
  <2>2. SharesOf(k)' = Range(sealed) \ InRange(sealed)
    BY <1>5, <1>7, <2>1
  <2> QED BY <1>4, <1>9, <1>10, <2>1, <2>2 DEF StoringOK, SharesOf, NotIssued, InRange
<1>12. BuildOK(w)'
  <2>1. BuildOK(w) /\ c.stage = "build"
    BY BuildDoes DEF BundleInv, IsBuilding
  <2>2. k = "answers" => Complete("paper", read)
    BY <1>1, <1>2, <2>1 DEF BuildOK
  <2>3. k = "answers" => Complete("paper", read)'
    BY <1>8, <2>2 DEF Kinds
  <2> QED BY <1>9, <2>3 DEF BuildOK, Complete, SharesOf
<1>13. \A u, v \in Commands, kind \in Kinds : Active(u, kind)' /\ Active(v, kind)' => u = v
  <2> SUFFICES ASSUME NEW u \in Commands, NEW v \in Commands, NEW kind \in Kinds,
                      Active(u, kind)', Active(v, kind)', u # v
               PROVE  FALSE
    OBVIOUS
  <2>1. CASE kind = k
    BY <1>8, <2>1
  <2>2. CASE kind # k
    <3>1. u # w /\ v # w
      BY <1>9, <2>2 DEF Active
    <3> QED BY <1>8, <3>1 DEF BundleInv
  <2> QED BY <2>1, <2>2
<1>14. LogOK'
  <2>1. ASSUME NEW f \in log PROVE /\ f.type = "BUNDLE_CREATED" => f.kind # k
                                   /\ f.type = "SHARES_ISSUED" => f.kind # k
    BY <1>1, <1>5 DEF BundleInv, LogOK, NotIssued
  <2>2. \A kind \in Kinds : kind # k =>
          bundles'[kind] = bundles[kind] /\ SharesOf(kind)' = SharesOf(kind)
    BY <1>4, <1>7
  <2> QED BY <1>0, <2>1, <2>2 DEF BundleInv, LogOK, SharesOf
<1>15. \A kind \in Kinds : bundles'[kind] = NoBundle => SharesOf(kind)' = {} /\ NotIssued(kind)'
  BY <1>4, <1>7, <1>8 DEF BundleInv
<1>16. \A r \in reported', kind \in Kinds : Complete(kind, r)'
  BY <1>0, <1>8 DEF BundleInv
<1>17. \A v \in Commands : StoringOK(v)' /\ BuildOK(v)'
  BY <1>8, <1>11, <1>12
<1> QED BY <1>4, <1>13, <1>14, <1>15, <1>16, <1>17 DEF BundleInv


\* What a command that stores shares knows.
LEMMA AtWork ==
  ASSUME ShapeInv, BundleInv, NEW w \in Commands, command[w].stage \in {"created", "shares"}
  PROVE  /\ command[w].kind \in Kinds
         /\ StoringOK(w) /\ BuildOK(w) /\ NotIssued(command[w].kind)
         /\ \A v \in Commands : v # w => ~Active(v, command[w].kind)
<1>1. command[w].kind \in Kinds
  BY ShapeFacts DEF ShapeInv, IsStoring
<1>2. StoringOK(w) /\ BuildOK(w)
  BY DEF BundleInv
<1>3. Active(w, command[w].kind)
  BY DEF Active
<1> QED BY <1>1, <1>2, <1>3 DEF BundleInv, StoringOK

LEMMA AppendCreatedMakes ==
  ASSUME ShapeInv, BundleInv, NEW w \in Commands, AppendCreated(w)
  PROVE  BundleInv'
<1> DEFINE c == command[w]
<1>0. CommandStep(w) /\ UNCHANGED <<bundles, shares, minted, reported>>
  BY DEF CommandStep, AppendCreated, otherVars
<1>1. c.stage = "created"
  BY AppendCreatedDoes
<1>2. PICK k \in Kinds : k = c.kind
  BY <1>1, AtWork
<1>3. PICK kek, read, left, sealed : kek = c.kek /\ read = c.read /\ left = c.left /\ sealed = c.sealed
  OBVIOUS
<1>4. log' = log \union {Created(k, kek)}
  BY <1>2, <1>3, AppendCreatedDoes
<1>5. /\ command'[w].stage = "shares" /\ command'[w].kind = k /\ command'[w].read = read
      /\ command'[w].kek = kek /\ command'[w].left = left /\ command'[w].sealed = sealed
  BY <1>2, <1>3, AppendCreatedDoes, StoringFields
<1>6. /\ StoringOK(w) /\ BuildOK(w) /\ NotIssued(k)
      /\ \A v \in Commands : v # w => ~Active(v, k)
  BY <1>1, <1>2, AtWork
<1>7. /\ Created(k, kek).type = "BUNDLE_CREATED" /\ Created(k, kek).kind = k
      /\ Created(k, kek).kek = kek
  BY DEF Created
<1>8. \A kind \in Kinds : bundles'[kind] = bundles[kind] /\ SharesOf(kind)' = SharesOf(kind)
  BY <1>0 DEF SharesOf
<1>9. /\ \A kind \in Kinds : \A r : Complete(kind, r) => Complete(kind, r)'
      /\ \A v \in Commands : v # w => StoringOK(v)' /\ BuildOK(v)'
      /\ \A v \in Commands, kind \in Kinds : v # w /\ Active(v, kind)' => Active(v, kind) /\ kind # k
      /\ \A kind \in Kinds : kind # k /\ NotIssued(kind) => NotIssued(kind)'
  BY <1>0, <1>4, <1>6, <1>7, <1>8, OneBundle
<1>10. NotIssued(k)'
  BY <1>4, <1>6, <1>7 DEF NotIssued
<1>11. bundles[k] = kek /\ kek # NoBundle
  BY <1>1, <1>2, <1>3, <1>6 DEF StoringOK
<1>12. StoringOK(w)'
  <2>1. /\ WholeSplit(sealed, k, kek.id, read)
        /\ \A i, j \in 1..Len(left) : left[i] = left[j] => i = j
        /\ SharesOf(k) = sealed \ InRange(left)
    BY <1>1, <1>2, <1>3, <1>6 DEF StoringOK
  <2>2. SharesOf(k)' = SharesOf(k) /\ bundles'[k] = kek
    BY <1>8, <1>11
  <2>3. Created(k, kek) \in log'
    BY <1>4
  <2> QED BY <1>5, <1>10, <1>11, <2>1, <2>2, <2>3 DEF StoringOK, SharesOf, NotIssued
<1>13. BuildOK(w)'
  <2>1. k = "answers" => Complete("paper", read)
    BY <1>1, <1>2, <1>3, <1>6 DEF BuildOK
  <2>2. k = "answers" => Complete("paper", read)'
    BY <1>9, <2>1 DEF Kinds
  <2> QED BY <1>5, <2>2 DEF BuildOK, Complete, SharesOf
<1>14. \A u, v \in Commands, kind \in Kinds : Active(u, kind)' /\ Active(v, kind)' => u = v
  <2> SUFFICES ASSUME NEW u \in Commands, NEW v \in Commands, NEW kind \in Kinds,
                      Active(u, kind)', Active(v, kind)', u # v
               PROVE  FALSE
    OBVIOUS
  <2>1. CASE kind = k
    BY <1>9, <2>1
  <2>2. CASE kind # k
    <3>1. u # w /\ v # w
      BY <1>5, <2>2 DEF Active
    <3> QED BY <1>9, <3>1 DEF BundleInv
  <2> QED BY <2>1, <2>2
<1>15. LogOK'
  BY <1>0, <1>4, <1>7, <1>11 DEF BundleInv, LogOK, SharesOf
<1>16. \A kind \in Kinds : bundles'[kind] = NoBundle => SharesOf(kind)' = {} /\ NotIssued(kind)'
  BY <1>8, <1>9, <1>10 DEF BundleInv
<1>17. \A r \in reported', kind \in Kinds : Complete(kind, r)'
  BY <1>0, <1>9 DEF BundleInv
<1>18. \A v \in Commands : StoringOK(v)' /\ BuildOK(v)'
  BY <1>9, <1>12, <1>13
<1>19. minted' \in Nat /\ bundles' = [kind \in Kinds |-> bundles'[kind]]
  BY <1>0 DEF BundleInv
<1> QED BY <1>14, <1>15, <1>16, <1>17, <1>18, <1>19 DEF BundleInv

\* One more share is stored.
LEMMA PutShareMakes ==
  ASSUME ShapeInv, KeysInv, BundleInv, NEW w \in Commands, PutShare(w), command'[w] # Ready
  PROVE  BundleInv'
<1> DEFINE c == command[w]
<1>0. CommandStep(w) /\ UNCHANGED <<bundles, log, minted, reported>>
  BY DEF CommandStep, PutShare, otherVars
<1>1. c.stage = "shares" /\ c.left # <<>>
  BY PutShareDoes
<1>2. PICK k \in Kinds : k = c.kind
  BY <1>1, AtWork
<1>3. PICK kek, read, left, sealed : kek = c.kek /\ read = c.read /\ left = c.left /\ sealed = c.sealed
  OBVIOUS
<1>4. shares' = shares \union {Head(left)}
  BY <1>3, PutShareDoes
<1>5. /\ command'[w].stage = "shares" /\ command'[w].kind = k /\ command'[w].read = read
      /\ command'[w].kek = kek /\ command'[w].left = Tail(left) /\ command'[w].sealed = sealed
  BY <1>2, <1>3, PutShareDoes, StoringFields
<1>6. /\ StoringOK(w) /\ BuildOK(w) /\ NotIssued(k)
      /\ \A v \in Commands : v # w => ~Active(v, k)
  BY <1>1, <1>2, AtWork
<1>7. /\ bundles[k] = kek /\ kek # NoBundle
      /\ WholeSplit(sealed, k, kek.id, read)
      /\ \A i, j \in 1..Len(left) : left[i] = left[j] => i = j
      /\ SharesOf(k) = sealed \ InRange(left)
      /\ Created(k, kek) \in log
  BY <1>1, <1>2, <1>3, <1>6 DEF StoringOK
<1>8. left \in Seq(sealed) /\ left # <<>>
  BY <1>1, <1>3 DEF KeysInv, ReadOK
<1>9. /\ Head(left) \in sealed /\ Head(left) = left[1]
      /\ Len(left) \in Nat \ {0} /\ Len(Tail(left)) = Len(left) - 1
      /\ \A i \in 1..(Len(left) - 1) : Tail(left)[i] = left[i + 1]
      /\ \A i \in 1..Len(left) :
           left[i] = Head(left) \/ \E j \in 1..Len(Tail(left)) : Tail(left)[j] = left[i]
  BY <1>8, HeadAndTail
<1>10. Head(left).kind = k
  BY <1>7, <1>9 DEF WholeSplit
<1>11. \A i, j \in 1..Len(Tail(left)) : Tail(left)[i] = Tail(left)[j] => i = j
  <2> SUFFICES ASSUME NEW i \in 1..(Len(left) - 1), NEW j \in 1..(Len(left) - 1),
                      Tail(left)[i] = Tail(left)[j]
               PROVE  i = j
    BY <1>9
  <2>1. left[i + 1] = left[j + 1] /\ i + 1 \in 1..Len(left) /\ j + 1 \in 1..Len(left)
    BY <1>9
  <2>2. i + 1 = j + 1
    BY <1>7, <2>1
  <2> QED BY <2>2
<1>12. \A i \in 1..Len(Tail(left)) : Tail(left)[i] # Head(left)
  <2> SUFFICES ASSUME NEW i \in 1..(Len(left) - 1), Tail(left)[i] = Head(left) PROVE FALSE
    BY <1>9
  <2>1. left[i + 1] = left[1] /\ i + 1 \in 1..Len(left) /\ 1 \in 1..Len(left)
    BY <1>9
  <2>2. i + 1 = 1
    BY <1>7, <2>1
  <2> QED BY <2>2
<1>13. InRange(left) = InRange(Tail(left)) \union {Head(left)} /\ Head(left) \notin InRange(Tail(left))
  <2>1. \A i \in 1..Len(Tail(left)) : \E j \in 1..Len(left) : left[j] = Tail(left)[i]
    <3> TAKE i \in 1..Len(Tail(left))
    <3>1. i + 1 \in 1..Len(left) /\ left[i + 1] = Tail(left)[i]
      BY <1>9
    <3> QED BY <3>1
  <2>2. 1 \in 1..Len(left) /\ left[1] = Head(left)
    BY <1>9
  <2>3. Head(left) \in InRange(left)
    BY <2>2 DEF InRange
  <2>4. \A x \in InRange(Tail(left)) : x \in InRange(left)
    BY <2>1 DEF InRange
  <2>5. \A x \in InRange(left) : x = Head(left) \/ x \in InRange(Tail(left))
    <3>1. \A i \in 1..Len(left) :
            left[i] = Head(left) \/ \E j \in 1..Len(Tail(left)) : Tail(left)[j] = left[i]
      BY <1>9
    <3> QED BY <3>1 DEF InRange
  <2>6. Head(left) \notin InRange(Tail(left))
    BY <1>12 DEF InRange
  <2> QED BY <2>3, <2>4, <2>5, <2>6
<1>14. SharesOf(k)' = sealed \ InRange(Tail(left))
  <2>1. SharesOf(k)' = SharesOf(k) \union {Head(left)}
    BY <1>4, <1>10 DEF SharesOf
  <2> QED BY <1>7, <1>9, <1>13, <2>1
<1>15. \A kind \in Kinds : kind # k =>
         bundles'[kind] = bundles[kind] /\ SharesOf(kind)' = SharesOf(kind)
  BY <1>0, <1>4, <1>10 DEF SharesOf
<1>16. /\ \A kind \in Kinds : \A r : Complete(kind, r) => Complete(kind, r)'
       /\ \A v \in Commands : v # w => StoringOK(v)' /\ BuildOK(v)'
       /\ \A v \in Commands, kind \in Kinds : v # w /\ Active(v, kind)' => Active(v, kind) /\ kind # k
  BY <1>0, <1>6, <1>15, OneBundle
<1>17. \A kind \in Kinds : NotIssued(kind)' = NotIssued(kind)
  BY <1>0 DEF NotIssued
<1>18. StoringOK(w)'
  BY <1>0, <1>5, <1>6, <1>7, <1>11, <1>14 DEF StoringOK, SharesOf, NotIssued
<1>19. BuildOK(w)'
  <2>1. k = "answers" => Complete("paper", read)
    BY <1>1, <1>2, <1>3, <1>6 DEF BuildOK
  <2>2. k = "answers" => Complete("paper", read)'
    BY <1>16, <2>1 DEF Kinds
  <2> QED BY <1>5, <2>2 DEF BuildOK, Complete, SharesOf
<1>20. \A u, v \in Commands, kind \in Kinds : Active(u, kind)' /\ Active(v, kind)' => u = v
  <2> SUFFICES ASSUME NEW u \in Commands, NEW v \in Commands, NEW kind \in Kinds,
                      Active(u, kind)', Active(v, kind)', u # v
               PROVE  FALSE
    OBVIOUS
  <2>1. CASE kind = k
    BY <1>16, <2>1
  <2>2. CASE kind # k
    <3>1. u # w /\ v # w
      BY <1>5, <2>2 DEF Active
    <3> QED BY <1>16, <3>1 DEF BundleInv
  <2> QED BY <2>1, <2>2
<1>21. LogOK'
  <2>1. \A f \in log : f.type = "SHARES_ISSUED" => f.kind # k
    BY <1>6 DEF NotIssued
  <2> QED BY <1>0, <1>15, <2>1 DEF BundleInv, LogOK, SharesOf
<1>22. \A kind \in Kinds : bundles'[kind] = NoBundle => SharesOf(kind)' = {} /\ NotIssued(kind)'
  BY <1>0, <1>7, <1>15, <1>17 DEF BundleInv
<1>23. \A r \in reported', kind \in Kinds : Complete(kind, r)'
  BY <1>0, <1>16 DEF BundleInv
<1>24. \A v \in Commands : StoringOK(v)' /\ BuildOK(v)'
  BY <1>16, <1>18, <1>19
<1>25. minted' \in Nat /\ bundles' = [kind \in Kinds |-> bundles'[kind]]
  BY <1>0 DEF BundleInv
<1> QED BY <1>20, <1>21, <1>22, <1>23, <1>24, <1>25 DEF BundleInv

\* The bundle is complete, and the answers are next or the command is done.
LEMMA AppendIssuedMakes ==
  ASSUME ShapeInv, KeysInv, BundleInv, NEW w \in Commands, AppendIssued(w)
  PROVE  BundleInv'
<1> DEFINE c == command[w]
<1>0. CommandStep(w) /\ UNCHANGED <<bundles, shares, minted>>
  BY DEF CommandStep, AppendIssued
<1>1. c.stage = "shares" /\ c.left = <<>>
  BY AppendIssuedDoes
<1>2. PICK k \in Kinds : k = c.kind
  BY <1>1, AtWork
<1>3. PICK kek, read, sealed : kek = c.kek /\ read = c.read /\ sealed = c.sealed
  OBVIOUS
<1>4. log' = log \union {Issued(k, sealed)}
  BY <1>2, <1>3, AppendIssuedDoes
<1>5. \/ /\ k = "paper" /\ reported' = reported
         /\ command'[w] = Building("answers", read)
      \/ /\ k # "paper" /\ reported' = reported \union {read}
         /\ command'[w] = Ready
  BY <1>2, <1>3, AppendIssuedDoes
<1>6. /\ StoringOK(w) /\ BuildOK(w) /\ NotIssued(k)
      /\ \A v \in Commands : v # w => ~Active(v, k)
  BY <1>1, <1>2, AtWork
<1>7. /\ bundles[k] = kek /\ kek # NoBundle
      /\ WholeSplit(sealed, k, kek.id, read)
      /\ SharesOf(k) = sealed \ InRange(c.left)
      /\ Created(k, kek) \in log
  BY <1>1, <1>2, <1>3, <1>6 DEF StoringOK
<1>8. SharesOf(k) = sealed
  <2>1. InRange(c.left) = {}
    BY <1>1, EmptySeq DEF InRange
  <2> QED BY <1>7, <2>1
<1>9. /\ Issued(k, sealed).type = "SHARES_ISSUED" /\ Issued(k, sealed).kind = k
      /\ Issued(k, sealed).shares = sealed
  BY DEF Issued
<1>10. \A kind \in Kinds : bundles'[kind] = bundles[kind] /\ SharesOf(kind)' = SharesOf(kind)
  BY <1>0 DEF SharesOf
<1>11. /\ \A kind \in Kinds : \A r : Complete(kind, r) => Complete(kind, r)'
       /\ \A v \in Commands : v # w => StoringOK(v)' /\ BuildOK(v)'
       /\ \A v \in Commands, kind \in Kinds : v # w /\ Active(v, kind)' => Active(v, kind) /\ kind # k
       /\ \A kind \in Kinds : kind # k /\ NotIssued(kind) => NotIssued(kind)'
  BY <1>0, <1>4, <1>6, <1>9, <1>10, OneBundle
<1>12. Complete(k, read)'
  <2>1. /\ bundles'[k] = kek /\ SharesOf(k)' = sealed
        /\ Created(k, kek) \in log' /\ Issued(k, sealed) \in log'
    BY <1>4, <1>7, <1>8, <1>10
  <2> QED BY <1>7, <2>1 DEF Complete, WholeSplit, SharesOf
<1>13. /\ command'[w].stage \notin {"created", "shares"}
       /\ command'[w].stage = "build" => k = "paper" /\ command'[w].read = read
  BY <1>5 DEF Building, Ready
<1>14. StoringOK(w)' /\ BuildOK(w)'
  <2>1. k = "paper" => Complete("paper", read)'
    BY <1>12
  <2> QED BY <1>13, <2>1 DEF StoringOK, BuildOK, Complete, SharesOf
<1>15. \A u, v \in Commands, kind \in Kinds : Active(u, kind)' /\ Active(v, kind)' => u = v
  <2> SUFFICES ASSUME NEW u \in Commands, NEW v \in Commands, NEW kind \in Kinds,
                      Active(u, kind)', Active(v, kind)'
               PROVE  u = v
    OBVIOUS
  <2>1. u # w /\ v # w
    BY <1>13 DEF Active
  <2> QED BY <1>11, <2>1 DEF BundleInv
<1>16. LogOK'
  <2>1. \A f \in log' : f \in log \/ f = Issued(k, sealed)
    BY <1>4
  <2>2. bundles'[k] = kek /\ SharesOf(k)' = sealed /\ Created(k, kek) \in log'
    BY <1>4, <1>7, <1>8, <1>10
  <2>3. log \subseteq log'
    BY <1>4
  <2>4. ASSUME NEW f \in log
        PROVE  /\ f.type = "BUNDLE_CREATED" => bundles'[f.kind] = f.kek /\ f.kek # NoBundle /\ f.kind \in Kinds
               /\ f.type = "SHARES_ISSUED" =>
                    /\ f.kind \in Kinds /\ f.shares = SharesOf(f.kind)'
                    /\ Created(f.kind, bundles'[f.kind]) \in log'
    BY <1>10, <2>3 DEF BundleInv, LogOK
  <2> QED BY <1>9, <2>1, <2>2, <2>4 DEF LogOK, SharesOf
<1>17. \A kind \in Kinds : bundles'[kind] = NoBundle => SharesOf(kind)' = {} /\ NotIssued(kind)'
  <2> SUFFICES ASSUME NEW kind \in Kinds, bundles'[kind] = NoBundle
               PROVE  SharesOf(kind)' = {} /\ NotIssued(kind)'
    OBVIOUS
  <2>1. kind # k /\ bundles[kind] = NoBundle
    BY <1>7, <1>10
  <2> QED BY <1>10, <1>11, <2>1 DEF BundleInv
<1>18. \A r \in reported', kind \in Kinds : Complete(kind, r)'
  <2>1. \A r \in reported, kind \in Kinds : Complete(kind, r)'
    BY <1>11 DEF BundleInv
  <2>2. k # "paper" => Complete("paper", read)' /\ Complete("answers", read)'
    <3> SUFFICES ASSUME k # "paper" PROVE Complete("paper", read)' /\ Complete("answers", read)'
      OBVIOUS
    <3>1. k = "answers"
      BY DEF Kinds
    <3>2. Complete("paper", read)
      BY <1>1, <1>2, <1>3, <1>6, <3>1 DEF BuildOK
    <3> QED BY <1>11, <1>12, <3>1, <3>2 DEF Kinds
  <2> QED BY <1>5, <2>1, <2>2 DEF Kinds
<1>19. \A v \in Commands : StoringOK(v)' /\ BuildOK(v)'
  BY <1>11, <1>14
<1>20. minted' \in Nat /\ bundles' = [kind \in Kinds |-> bundles'[kind]]
  BY <1>0 DEF BundleInv
<1> QED BY <1>15, <1>16, <1>17, <1>18, <1>19, <1>20 DEF BundleInv

\* The steps that are about no bundle keep what is said of the bundles.
LEMMA OtherStepKeeps ==
  ASSUME ShapeInv, BundleInv, NEW w \in Commands, CommandStep(w),
         \/ StartProvision(w) \/ BuildRefused(w) \/ (PutShare(w) /\ command'[w] = Ready)
         \/ StartAdmit(w) \/ PutToken(w) \/ AppendAdmits(w) \/ HandOut(w) \/ Fail(w)
  PROVE  BundleInv'
<1>1. UNCHANGED <<bundles, minted, reported>>
  BY DEF StartProvision, BuildRefused, PutShare, StartAdmit, PutToken, AppendAdmits,
         HandOut, Fail, tableVars, otherVars
<1>2. UNCHANGED shares
  <2>1. CASE PutShare(w) /\ command'[w] = Ready
    BY <2>1, PutShareDoes, StoringFields DEF Ready
  <2> QED BY <2>1 DEF StartProvision, BuildRefused, StartAdmit, PutToken, AppendAdmits,
                      HandOut, Fail, tableVars
<1>3. log \subseteq log' /\ \A f \in log' : f \in log \/ f.type = "ADMIT_TOKENS_ISSUED"
  <2>1. CASE AppendAdmits(w)
    BY <2>1, AppendAdmitsDoes DEF AdmitsIssued
  <2>2. CASE ~AppendAdmits(w)
    <3>1. UNCHANGED log
      BY <2>2 DEF StartProvision, BuildRefused, PutShare, StartAdmit, PutToken, HandOut, Fail,
                  tableVars
    <3> QED BY <3>1
  <2> QED BY <2>1, <2>2
<1>4. \/ command'[w].stage \in {"ready", "rows", "handOut"}
      \/ command'[w].stage = "build" /\ command'[w].kind = "paper"
  <2>1. CASE StartProvision(w)
    BY <2>1, StartProvisionDoes, BuildingIsShaped DEF Kinds
  <2>2. CASE BuildRefused(w) \/ Fail(w) \/ command'[w] = Ready
    BY <2>2, ReadyAgain DEF Ready
  <2>3. CASE StartAdmit(w)
    BY <2>3, StartAdmitDoes, IssuingFields
  <2>4. CASE PutToken(w)
    BY <2>4, PutTokenDoes, IssuingFields DEF Ready
  <2>5. CASE AppendAdmits(w)
    BY <2>5, AppendAdmitsDoes, IssuingFields
  <2>6. CASE HandOut(w)
    BY <2>6, HandOutDoes DEF Ready
  <2> QED BY <2>1, <2>2, <2>3, <2>4, <2>5, <2>6
<1>5. command'[w].stage \notin {"created", "shares"} /\ BuildOK(w)'
  BY <1>4 DEF BuildOK
<1> QED BY <1>1, <1>2, <1>3, <1>5, BundleElsewhere

LEMMA BundleNext == ShapeInv /\ KeysInv /\ BundleInv /\ [Next]_vars => BundleInv'
<1> SUFFICES ASSUME ShapeInv, KeysInv, BundleInv, [Next]_vars PROVE BundleInv'
  OBVIOUS
<1>1. ASSUME NEW w \in Commands, CommandStep(w)
      PROVE  BundleInv'
  <2>1. CASE PutShare(w) /\ command'[w] # Ready
    BY <2>1, PutShareMakes
  <2>2. CASE Build(w)
    BY <2>2, BuildMakes
  <2>3. CASE AppendCreated(w)
    BY <2>3, AppendCreatedMakes
  <2>4. CASE AppendIssued(w)
    BY <2>4, AppendIssuedMakes
  <2>5. CASE \/ StartProvision(w) \/ BuildRefused(w) \/ (PutShare(w) /\ command'[w] = Ready)
             \/ StartAdmit(w) \/ PutToken(w) \/ AppendAdmits(w) \/ HandOut(w) \/ Fail(w)
    BY <1>1, <2>5, OtherStepKeeps
  <2> QED BY <1>1, <2>1, <2>2, <2>3, <2>4, <2>5 DEF CommandStep
<1>2. CASE UNCHANGED <<bundles, shares, log, command, minted, reported>>
  <2>1. /\ \A w \in Commands : (StoringOK(w) <=> StoringOK(w)') /\ (BuildOK(w) <=> BuildOK(w)')
        /\ \A w \in Commands, kind \in Kinds : Active(w, kind) <=> Active(w, kind)'
    BY <1>2 DEF StoringOK, BuildOK, Active, Complete, NotIssued, SharesOf
  <2>2. \A kind \in Kinds :
          /\ SharesOf(kind)' = SharesOf(kind)
          /\ NotIssued(kind) <=> NotIssued(kind)'
          /\ \A read : Complete(kind, read) => Complete(kind, read)'
    BY <1>2 DEF Complete, NotIssued, SharesOf
  <2>3. LogOK'
    BY <1>2 DEF BundleInv, LogOK, SharesOf
  <2> QED BY <1>2, <2>1, <2>2, <2>3 DEF BundleInv
<1>3. KeyStep \/ (\E c \in Machines : Enrol(c)) \/ UNCHANGED vars =>
        UNCHANGED <<bundles, shares, log, command, minted, reported>>
  BY DEF KeyStep, Enrol, tableVars, otherVars, vars
<1> QED BY <1>1, <1>2, <1>3 DEF Next

LEMMA BundleInvariant == Spec => []BundleInv
<1> QED BY BundleInit, BundleNext, ShapeInvariant, KeysInvariant, PTL DEF Spec

(* What a provisioning reported done can be released: both bundles stand,  *)
(* with one share for each custodian it read, of the split of the key that *)
(* encrypts the bundle, and in the log, whatever commands overlap it,      *)
(* repeat it or die (provision.ts).                                        *)
THEOREM ReportedStaysReleasable == Spec => []ReportedIsReleasable
<1>1. BundleInv => ReportedIsReleasable
  BY DEF BundleInv, Complete, WholeSplit, ReportedIsReleasable
<1> QED BY <1>1, BundleInvariant, PTL

(* The log states nothing that is not stored: no bundle, no set of shares  *)
(* and no admit token, for any number of commands that die anywhere.       *)
THEOREM IssuedStaysStored == Spec => []IssuedIsStored
<1>1. AdmitInv /\ BundleInv => IssuedIsStored
  BY DEF AdmitInv, BundleInv, LogOK, IssuedIsStored
<1> QED BY <1>1, AdmitInvariant, BundleInvariant, PTL

-----------------------------------------------------------------------------
(* The shares of a bundle's key.                                           *)

Envelope(kind, holder, share, to) ==
  [kind |-> kind, holder |-> holder, share |-> share, to |-> to]

\* The envelopes of a split: the i-th holds the value of a polynomial at i.
LEMMA EnvelopesOfSplit ==
  ASSUME NEW kind, NEW id, NEW byte \in Field,
         NEW coeffs \in [1..(Threshold - 1) -> Field],
         NEW read \in [Machines -> Keys], CanSplit(read)
  PROVE  LET sealed == SplitAndDestroy(kind, [id |-> id, byte |-> byte], coeffs, read)
             to     == Recipients(read)
             n      == Cardinality(Holders(read))
         IN /\ n \in Nat /\ n <= Order /\ DOMAIN sealed = 1..n
            /\ to \in [1..n -> Holders(read)]
            /\ \A i \in 1..n :
                 sealed[i] = Envelope(kind, to[i],
                               Share(id, i, Threshold, SplitPoly(byte, coeffs)[i]), read[to[i]])
<1> DEFINE to == Recipients(read)
           n  == Cardinality(Holders(read))
           sealed == SplitAndDestroy(kind, [id |-> id, byte |-> byte], coeffs, read)
<1>1. n \in Nat /\ to \in [1..n -> Holders(read)] /\ n <= Order
  BY RecipientsFacts DEF CanSplit
<1> HIDE DEF to, n
<1>2. to \in Seq(Holders(read)) /\ DOMAIN to = 1..n
  BY <1>1, SeqDef
<1>3. Len(to) = n
  BY <1>1, <1>2, LenProperties
<1>4. sealed = [i \in 1..n |-> Envelope(kind, to[i],
                                 ShamirSplit(id, byte, coeffs, n)[i], read[to[i]])]
  BY <1>2, <1>3 DEF SplitAndDestroy, to, Envelope
<1> HIDE DEF sealed
<1>5. Threshold \in Nat \ {0} /\ n \in 0..Order
  BY <1>1, ProvisioningAssumption, FieldIsNat
<1>6. ASSUME NEW i \in 1..n
      PROVE  ShamirSplit(id, byte, coeffs, n)[i] =
               Share(id, i, Threshold, SplitPoly(byte, coeffs)[i])
  BY <1>5, ShareFacts
<1>7. \A i \in 1..n :
        sealed[i] = Envelope(kind, to[i],
                      Share(id, i, Threshold, SplitPoly(byte, coeffs)[i]), read[to[i]])
  BY <1>4, <1>6
<1>8. DOMAIN sealed = 1..n
  BY <1>4
<1> QED BY <1>1, <1>7, <1>8 DEF sealed, to, n

\* The rows hold values of f, which has Threshold coefficients, at places of
\* their own.
Lies(rows, id, f) ==
  /\ \A s \in rows :
       /\ s.share.set = id /\ s.share.threshold = Threshold
       /\ s.share.x \in 1..Order /\ s.share.y = f[s.share.x]
       /\ s.share = Share(s.share.set, s.share.x, s.share.threshold, s.share.y)
  /\ \A r, s \in rows : r.share.x = s.share.x => r = s

IsSplit(rows, kek) ==
  \E f \in Poly(Threshold) : f[0] = kek.byte /\ Lies(rows, kek.id, f)

\* What is stored for a bundle and what a command has made is of one split.
BundleSplit(kind) == SharesOf(kind) = {} \/ IsSplit(SharesOf(kind), bundles[kind])

CommandSplit(c) == c.stage \in {"created", "shares"} => IsSplit(c.sealed, c.kek)

SplitInv ==
  /\ \A kind \in Kinds : BundleSplit(kind)
  /\ \A w \in Commands : CommandSplit(command[w])

LEMMA PartOfSplit ==
  ASSUME NEW rows, NEW kek, IsSplit(rows, kek), NEW part \in SUBSET rows
  PROVE  IsSplit(part, kek)
BY DEF IsSplit, Lies

LEMMA SplitLies ==
  ASSUME NEW kind, NEW id, NEW byte \in Field,
         NEW coeffs \in [1..(Threshold - 1) -> Field],
         NEW read \in [Machines -> Keys], CanSplit(read)
  PROVE  LET kek == [id |-> id, byte |-> byte]
         IN IsSplit(Range(SplitAndDestroy(kind, kek, coeffs, read)), kek)
<1> DEFINE kek == [id |-> id, byte |-> byte]
<1>1. PICK sealed : sealed = SplitAndDestroy(kind, kek, coeffs, read)
  OBVIOUS
<1>2. PICK n, to : 
        /\ n \in Nat /\ n <= Order /\ DOMAIN sealed = 1..n
        /\ \A i \in 1..n :
             sealed[i] = Envelope(kind, to[i],
                           Share(id, i, Threshold, SplitPoly(byte, coeffs)[i]), read[to[i]])
  BY <1>1, EnvelopesOfSplit
<1>3. PICK f \in Poly(Threshold) : f = SplitPoly(byte, coeffs) /\ f[0] = byte
  <2>1. Threshold \in Nat \ {0}
    BY ProvisioningAssumption
  <2>2. SplitPoly(byte, coeffs) \in Poly(Threshold) /\ SplitPoly(byte, coeffs)[0] = byte
    BY <2>1, SplitPolyFacts
  <2> QED BY <2>2
<1>4. ASSUME NEW s \in Range(sealed)
      PROVE  \E i \in 1..n : s = sealed[i] /\ s.share = Share(id, i, Threshold, f[i])
  <2>1. PICK i \in 1..n : s = sealed[i]
    BY <1>2 DEF Range
  <2>2. s.share = Share(id, i, Threshold, f[i])
    BY <1>2, <1>3, <2>1 DEF Envelope
  <2> QED BY <2>1, <2>2
<1>5. ASSUME NEW s \in Range(sealed)
      PROVE  /\ s.share.set = id /\ s.share.threshold = Threshold
             /\ s.share.x \in 1..Order /\ s.share.y = f[s.share.x]
             /\ s.share = Share(s.share.set, s.share.x, s.share.threshold, s.share.y)
             /\ s = sealed[s.share.x]
  <2>1. PICK i \in 1..n : s = sealed[i] /\ s.share = Share(id, i, Threshold, f[i])
    BY <1>4
  <2>2. /\ s.share.set = id /\ s.share.threshold = Threshold
        /\ s.share.x = i /\ s.share.y = f[i]
    BY <2>1, ShareFields
  <2>3. i \in 1..Order
    BY <1>2, FieldIsNat
  <2> QED BY <2>1, <2>2, <2>3
<1>6. Lies(Range(sealed), id, f)
  BY <1>5 DEF Lies
<1>7. kek.id = id /\ kek.byte = byte
  OBVIOUS
<1> HIDE DEF kek
<1>8. IsSplit(Range(sealed), kek)
  BY <1>3, <1>6, <1>7 DEF IsSplit
<1> QED BY <1>1, <1>8 DEF kek

LEMMA SplitInit == Init => SplitInv
BY DEF Init, SplitInv, BundleSplit, CommandSplit, SharesOf, Ready

\* The other commands have in hand what they had.
LEMMA SplitStays ==
  ASSUME ShapeInv, SplitInv, NEW w \in Commands, CommandStep(w),
         \A kind \in Kinds : BundleSplit(kind)', CommandSplit(command'[w])
  PROVE  SplitInv'
<1>1. ASSUME NEW v \in Commands
      PROVE  CommandSplit(command'[v])
  <2>1. CASE v = w
    BY <2>1
  <2>2. CASE v # w
    BY <2>2, OthersStay DEF SplitInv
  <2> QED BY <2>1, <2>2
<1>2. \A v \in Commands : CommandSplit(command[v])'
  BY <1>1 DEF CommandSplit, IsSplit, Lies
<1> QED BY <1>2 DEF SplitInv

LEMMA SplitAside ==
  ASSUME SplitInv, UNCHANGED <<bundles, shares>>
  PROVE  \A kind \in Kinds : BundleSplit(kind)'
BY DEF SplitInv, BundleSplit, SharesOf, IsSplit, Lies

LEMMA BuildSplits ==
  ASSUME ShapeInv, KeysInv, BundleInv, SplitInv, NEW w \in Commands, Build(w)
  PROVE  SplitInv'
<1> DEFINE c == command[w]
<1>0. CommandStep(w) /\ UNCHANGED shares
  BY DEF CommandStep, Build
<1>1. PICK k \in Kinds : k = c.kind /\ bundles[k] = NoBundle
  BY BuildDoes DEF IsBuilding, CanPutBundle
<1>2. PICK read \in [Machines -> Keys] : read = c.read /\ CanSplit(read)
  <2>1. c.stage = "build" /\ CanSplit(c.read)
    BY BuildDoes DEF IsBuilding
  <2> QED BY <2>1 DEF KeysInv, ReadOK, Known
<1>3. PICK byte \in Field, coeffs \in [1..(Threshold - 1) -> Field] : \E kek, sealed :
        /\ kek = [id |-> minted + 1, byte |-> byte]
        /\ bundles' = [bundles EXCEPT ![k] = kek]
        /\ sealed = SplitAndDestroy(k, kek, coeffs, read)
        /\ command'[w] = Storing("created", k, read, kek, sealed, Range(sealed))
  <2>1. PICK byte \in Secrets, coeffs \in [1..(Threshold - 1) -> Coefficients] :
          LET kek    == [id |-> minted + 1, byte |-> byte]
              sealed == SplitAndDestroy(c.kind, kek, coeffs, c.read)
          IN /\ bundles' = [bundles EXCEPT ![c.kind] = kek]
             /\ command'[w] = Storing("created", c.kind, c.read, kek, sealed, Range(sealed))
    BY BuildDoes
  <2>2. byte \in Field /\ coeffs \in [1..(Threshold - 1) -> Field]
    BY ProvisioningAssumption
  <2> HIDE DEF c
  <2> QED BY <1>1, <1>2, <2>1, <2>2
<1>4. PICK kek, sealed :
        /\ kek = [id |-> minted + 1, byte |-> byte]
        /\ bundles' = [bundles EXCEPT ![k] = kek]
        /\ sealed = SplitAndDestroy(k, kek, coeffs, read)
        /\ command'[w] = Storing("created", k, read, kek, sealed, Range(sealed))
  BY <1>3
<1>5. IsSplit(Range(sealed), kek)
  BY <1>2, <1>4, SplitLies
<1>6. CommandSplit(command'[w])
  BY <1>4, <1>5, StoringFields DEF CommandSplit
<1>7. ASSUME NEW kind \in Kinds PROVE BundleSplit(kind)'
  <2>1. BundleSplit(kind) /\ SharesOf(kind)' = SharesOf(kind)
    BY <1>0 DEF SplitInv, SharesOf
  <2>2. CASE kind = k
    BY <1>1, <2>1, <2>2 DEF BundleInv, BundleSplit
  <2>3. CASE kind # k
    <3>1. bundles'[kind] = bundles[kind]
      BY <1>4, <2>3 DEF BundleInv
    <3> QED BY <2>1, <3>1 DEF BundleSplit, SharesOf, IsSplit, Lies
  <2> QED BY <2>2, <2>3
<1> QED BY <1>0, <1>6, <1>7, SplitStays

LEMMA PutShareSplits ==
  ASSUME ShapeInv, KeysInv, BundleInv, SplitInv, NEW w \in Commands, PutShare(w)
  PROVE  SplitInv'
<1> DEFINE c == command[w]
<1>0. CommandStep(w) /\ UNCHANGED bundles
  BY DEF CommandStep, PutShare
<1>1. /\ c.stage = "shares" /\ c.left # <<>>
      /\ \/ command'[w] = Ready /\ shares' = shares
         \/ /\ shares' = shares \union {Head(c.left)}
            /\ command'[w] = Storing("shares", c.kind, c.read, c.kek, Tail(c.left), c.sealed)
  BY PutShareDoes
<1>2. CASE command'[w] = Ready /\ shares' = shares
  <2>1. \A kind \in Kinds : BundleSplit(kind)'
    BY <1>0, <1>2, SplitAside
  <2>2. CommandSplit(command'[w])
    BY <1>2 DEF CommandSplit, Ready
  <2> QED BY <1>0, <2>1, <2>2, SplitStays
<1>3. CASE /\ shares' = shares \union {Head(c.left)}
           /\ command'[w] = Storing("shares", c.kind, c.read, c.kek, Tail(c.left), c.sealed)
  <2>1. c.kind \in Kinds /\ StoringOK(w)
    BY <1>1, AtWork
  <2>2. PICK k, kek, left, sealed :
          k \in Kinds /\ k = c.kind /\ kek = c.kek /\ left = c.left /\ sealed = c.sealed
    BY <2>1
  <2>3. /\ bundles[k] = kek /\ SharesOf(k) \subseteq sealed
        /\ \A s \in sealed : s.kind = k
    BY <1>1, <2>1, <2>2 DEF StoringOK, WholeSplit
  <2>4. Head(left) \in sealed
    BY <1>1, <2>2, HeadAndTail DEF KeysInv, ReadOK
  <2>5. IsSplit(sealed, kek)
    BY <1>1, <2>2 DEF SplitInv, CommandSplit
  <2>6. CommandSplit(command'[w])
    BY <1>3, <2>2, <2>5, StoringFields DEF CommandSplit
  <2>7. shares' = shares \union {Head(left)}
    BY <1>3, <2>2
  <2> HIDE DEF c
  <2>8. ASSUME NEW kind \in Kinds PROVE BundleSplit(kind)'
    <3>1. BundleSplit(kind) /\ bundles'[kind] = bundles[kind]
      BY <1>0 DEF SplitInv
    <3>2. CASE kind = k
      <4>1. SharesOf(kind)' \in SUBSET sealed
        BY <2>3, <2>4, <2>7, <3>2 DEF SharesOf
      <4>2. IsSplit(SharesOf(kind)', kek)
        BY <2>5, <4>1, PartOfSplit
      <4> QED BY <2>3, <3>1, <3>2, <4>2 DEF BundleSplit, IsSplit, Lies
    <3>3. CASE kind # k
      <4>1. SharesOf(kind)' = SharesOf(kind)
        BY <2>3, <2>4, <2>7, <3>3 DEF SharesOf
      <4> QED BY <3>1, <4>1 DEF BundleSplit, IsSplit, Lies
    <3> QED BY <3>2, <3>3
  <2> QED BY <1>0, <2>6, <2>8, SplitStays
<1> QED BY <1>1, <1>2, <1>3

LEMMA SplitStep ==
  ASSUME ShapeInv, KeysInv, BundleInv, SplitInv, NEW w \in Commands, CommandStep(w)
  PROVE  SplitInv'
<1>1. CASE Build(w)
  BY <1>1, BuildSplits
<1>2. CASE PutShare(w)
  BY <1>2, PutShareSplits
<1>3. CASE AppendCreated(w)
  <2>1. UNCHANGED <<bundles, shares>>
    BY <1>3 DEF AppendCreated
  <2>2. /\ command[w].stage = "created" /\ command'[w].sealed = command[w].sealed
        /\ command'[w].kek = command[w].kek
    BY <1>3, AppendCreatedDoes, StoringFields
  <2>3. CommandSplit(command'[w])
    BY <2>2 DEF SplitInv, CommandSplit
  <2>4. \A kind \in Kinds : BundleSplit(kind)'
    BY <2>1, SplitAside
  <2> QED BY <2>3, <2>4, SplitStays
<1>4. CASE \/ StartProvision(w) \/ BuildRefused(w) \/ AppendIssued(w)
           \/ StartAdmit(w) \/ PutToken(w) \/ AppendAdmits(w) \/ HandOut(w) \/ Fail(w)
  <2>1. UNCHANGED <<bundles, shares>>
    BY <1>4 DEF StartProvision, BuildRefused, AppendIssued, StartAdmit, PutToken,
                AppendAdmits, HandOut, Fail, tableVars
  <2>2. command'[w].stage \in {"ready", "build", "rows", "handOut"}
    <3>1. CASE BuildRefused(w) \/ Fail(w) \/ HandOut(w)
      BY <3>1, ReadyAgain, HandOutDoes DEF Ready
    <3>2. CASE StartProvision(w)
      BY <3>2, StartProvisionDoes DEF Building
    <3>3. CASE AppendIssued(w)
      <4>1. command'[w] = Building("answers", command[w].read) \/ command'[w] = Ready
        BY <3>3, AppendIssuedDoes
      <4> QED BY <4>1 DEF Ready, Building
    <3>4. CASE StartAdmit(w) \/ PutToken(w) \/ AppendAdmits(w)
      BY <3>4, StartAdmitDoes, PutTokenDoes, AppendAdmitsDoes, IssuingFields DEF Ready
    <3> QED BY <1>4, <3>1, <3>2, <3>3, <3>4
  <2>3. CommandSplit(command'[w])
    BY <2>2 DEF CommandSplit
  <2>4. \A kind \in Kinds : BundleSplit(kind)'
    BY <2>1, SplitAside
  <2> QED BY <2>3, <2>4, SplitStays
<1> QED BY <1>1, <1>2, <1>3, <1>4 DEF CommandStep

LEMMA SplitNext == ShapeInv /\ KeysInv /\ BundleInv /\ SplitInv /\ [Next]_vars => SplitInv'
<1> SUFFICES ASSUME ShapeInv, KeysInv, BundleInv, SplitInv, [Next]_vars PROVE SplitInv'
  OBVIOUS
<1>1. CASE UNCHANGED <<bundles, shares, command>>
  <2>1. \A kind \in Kinds : BundleSplit(kind)'
    BY <1>1, SplitAside
  <2> QED BY <1>1, <2>1 DEF SplitInv, CommandSplit, IsSplit, Lies
<1>2. KeyStep \/ (\E c \in Machines : Enrol(c)) \/ UNCHANGED vars =>
        UNCHANGED <<bundles, shares, command>>
  BY DEF KeyStep, Enrol, tableVars, vars
<1> QED BY <1>1, <1>2, SplitStep DEF Next

LEMMA SplitInvariant == Spec => []SplitInv
<1> QED BY SplitInit, SplitNext, ShapeInvariant, KeysInvariant, BundleInvariant, PTL DEF Spec

LEMMA HeadAndTailOfSplit ==
  ASSUME NEW t \in Nat \ {0}, NEW coeffs \in [1..t -> Field]
  PROVE  Head(coeffs) \in Field /\ Tail(coeffs) \in [1..(t - 1) -> Field]
<1>1. coeffs \in Seq(Field) /\ Len(coeffs) = t
  BY SeqDef, LenProperties
<1>2. coeffs # <<>>
  BY <1>1
<1>3. Head(coeffs) \in Field /\ Tail(coeffs) \in Seq(Field) /\ Len(Tail(coeffs)) = Len(coeffs) - 1
  BY <1>1, <1>2, HeadTailProperties
<1>4. Tail(coeffs) \in [1..Len(Tail(coeffs)) -> Field]
  BY <1>3, LenProperties
<1> QED BY <1>1, <1>3, <1>4

LEMMA SharingExact == SharingIsExact
<1> SUFFICES ASSUME NEW n \in 2..4, NEW t \in 2..3, t <= n, n <= Order,
                    NEW coeffs \in [1..t -> Field],
                    NEW order \in [1..t -> 1..n], IsInjective(order)
             PROVE  LET split == ShamirSplit(1, Head(coeffs), Tail(coeffs), n)
                        blobs == [i \in 1..t |-> split[order[i]]]
                    IN Combinable(blobs) /\ ShamirCombine(blobs) = Head(coeffs)
  BY DEF SharingIsExact
<1>1. t \in Nat \ {0}
  OBVIOUS
<1>5. n \in t..Order
  BY FieldIsNat
<1>6. t \in t..n
  OBVIOUS
<1>2. PICK secret \in Field, cs \in [1..(t - 1) -> Field] :
        secret = Head(coeffs) /\ cs = Tail(coeffs)
  BY <1>1, HeadAndTailOfSplit
<1>3. \A i, j \in 1..t : order[i] = order[j] => i = j
  BY DEF IsInjective
<1>4. LET split == ShamirSplit(1, secret, cs, n)
          blobs == [i \in 1..t |-> split[order[i]]]
      IN Combinable(blobs) /\ ShamirCombine(blobs) = secret
  <2>1. LET blobs == Collected(1, secret, cs, n, order, t)
        IN Combinable(blobs) /\ ShamirCombine(blobs) = secret
    BY <1>1, <1>3, <1>5, <1>6, CollectedCombine
  <2> QED BY <2>1 DEF Collected
<1> QED BY <1>2, <1>4

\* As many shares as the threshold, in any order, give the byte.
LEMMA SomeCombine ==
  ASSUME NEW rows, NEW kek, IsSplit(rows, kek),
         NEW some \in [1..Threshold -> {s.share : s \in rows}], IsInjective(some)
  PROVE  Combinable(some) /\ ShamirCombine(some) = kek.byte
<1>1. Threshold \in Nat \ {0} /\ Threshold \in Nat /\ Threshold >= Threshold
  BY ProvisioningAssumption
<1>2. PICK f \in Poly(Threshold) : f[0] = kek.byte /\ Lies(rows, kek.id, f)
  BY DEF IsSplit
<1>3. ASSUME NEW i \in 1..Threshold PROVE \E s \in rows : s.share = some[i]
  OBVIOUS
<1>4. ASSUME NEW i \in 1..Threshold
      PROVE  /\ some[i].set = kek.id /\ some[i].threshold = Threshold
             /\ some[i].x \in 1..Order /\ some[i].y = f[some[i].x]
  BY <1>2, <1>3 DEF Lies
<1>5. ASSUME NEW i \in 1..Threshold, NEW j \in 1..Threshold, some[i].x = some[j].x
      PROVE  i = j
  <2>1. PICK r \in rows : r.share = some[i]
    BY <1>3
  <2>2. PICK s \in rows : s.share = some[j]
    BY <1>3
  <2>3. r = s
    BY <1>2, <1>5, <2>1, <2>2 DEF Lies
  <2> QED BY <2>1, <2>2, <2>3 DEF IsInjective
<1>6. DOMAIN some = 1..Threshold /\ Len(some) = Threshold
  <2>1. PICK S : S = {s.share : s \in rows}
    OBVIOUS
  <2>2. some \in [1..Threshold -> S]
    BY <2>1
  <2>3. some \in Seq(S) /\ DOMAIN some = 1..Threshold
    BY <1>1, <2>2, SeqDef
  <2> QED BY <1>1, <2>3, LenProperties
<1>7. SharesOfPoly(some, Threshold, kek.id, Threshold, f)
  BY <1>4, <1>5, <1>6 DEF SharesOfPoly
<1>8. Combinable(some) /\ ShamirCombine(some) = f[0]
  BY <1>1, <1>7, EnoughCombine
<1> QED BY <1>2, <1>8

\* Fewer fit every byte.
LEMMA FewFit ==
  ASSUME NEW rows, NEW kek, IsSplit(rows, kek),
         NEW few \in [1..(Threshold - 1) -> {s.share : s \in rows}]
  PROVE  {f[0] : f \in {f \in Polynomials :
                          \A i \in DOMAIN few : f[few[i].x] = few[i].y}} = Field
<1>1. Threshold \in Nat \ {0} /\ Polynomials = Poly(Threshold)
  BY ProvisioningAssumption DEF Polynomials, Poly
<1>2. PICK f \in Poly(Threshold) : Lies(rows, kek.id, f)
  BY DEF IsSplit
<1>3. ASSUME NEW i \in 1..(Threshold - 1)
      PROVE  few[i].x \in 1..Order /\ few[i].y = f[few[i].x]
  <2>1. PICK s \in rows : s.share = few[i]
    OBVIOUS
  <2> QED BY <1>2, <2>1 DEF Lies
<1>4. PICK xs \in [1..(Threshold - 1) -> 1..Order] : \A i \in 1..(Threshold - 1) : xs[i] = few[i].x
  <2> DEFINE xs == [i \in 1..(Threshold - 1) |-> few[i].x]
  <2>1. xs \in [1..(Threshold - 1) -> 1..Order] /\ \A i \in 1..(Threshold - 1) : xs[i] = few[i].x
    BY <1>3
  <2> HIDE DEF xs
  <2> QED BY <2>1
<1>5. ASSUME NEW b \in Field
      PROVE  \E g \in Polynomials : g[0] = b /\ \A i \in DOMAIN few : g[few[i].x] = few[i].y
  <2>1. PICK g \in Poly(Threshold) : g[0] = b /\ Agree(g, f, xs, Threshold - 1)
    BY <1>1, FewerFit
  <2>2. \A i \in 1..(Threshold - 1) : g[few[i].x] = few[i].y
    BY <1>3, <1>4, <2>1 DEF Agree
  <2> QED BY <1>1, <2>1, <2>2
<1>6. ASSUME NEW g \in Polynomials PROVE g[0] \in Field
  <2>1. g \in [Field -> Field]
    BY <1>1, PolyIsTyped
  <2> QED BY <2>1, OneInField
<1> QED BY <1>5, <1>6

LEMMA InvThresholdIsExact == SplitInv => ThresholdIsExact
<1> SUFFICES ASSUME SplitInv, NEW kind \in Kinds
             PROVE  LET blobs == {s.share : s \in SharesOf(kind)}
                    IN /\ \A some \in [1..Threshold -> blobs] :
                            IsInjective(some) =>
                              Combinable(some) /\ ShamirCombine(some) = bundles[kind].byte
                       /\ \A few \in [1..(Threshold - 1) -> blobs] :
                            {f[0] : f \in {f \in Polynomials :
                                \A i \in DOMAIN few : f[few[i].x] = few[i].y}} = Field
  BY SharingExact DEF ThresholdIsExact
<1>1. CASE SharesOf(kind) = {}
  <2>1. 1 \in 1..Threshold /\ 1 \in 1..(Threshold - 1)
    BY ProvisioningAssumption
  <2> QED BY <1>1, <2>1
<1>2. CASE IsSplit(SharesOf(kind), bundles[kind])
  BY <1>2, SomeCombine, FewFit
<1> QED BY <1>1, <1>2 DEF SplitInv, BundleSplit

(* The shares stored for a bundle are worth its key: any Threshold of them *)
(* give back the byte of the key that encrypts it, and fewer fit every     *)
(* byte; whatever provisioning commands overlap, fail or are repeated, for *)
(* any field with a generator, any threshold of at least 2 and any number  *)
(* of custodians (provision.ts, splitAndDestroy; shamir.ts).               *)
THEOREM BundleKeysAreShared == Spec => []ThresholdIsExact
<1> QED BY SplitInvariant, InvThresholdIsExact, PTL

-----------------------------------------------------------------------------
(* Types.                                                                  *)

TablesTyped ==
  /\ bundles \in [Kinds -> Keks \union {NoBundle}]
  /\ shares \subseteq Shares
  /\ admits \subseteq Tokens
  /\ log \subseteq Facts

HistoryTyped ==
  /\ minted \in Nat /\ begun \in Nat /\ enrolments \in Nat /\ faults \in Nat
  /\ reported \subseteq [Machines -> Keys]
  /\ cards \subseteq Tokens
  /\ lastRead \subseteq [Machines -> Keys]

Typed == TablesTyped /\ HistoryTyped /\ command \in [Commands -> CommandStates]

LEMMA BuildingIsTyped ==
  ASSUME NEW c \in CommandStates, c.stage = "build"
  PROVE  c.kind \in Kinds /\ c.read \in [Machines -> Keys]
BY DEF CommandStates, Ready

LEMMA StoringIsTyped ==
  ASSUME NEW c \in CommandStates, c.stage \in {"created", "shares"}
  PROVE  /\ c.kind \in Kinds /\ c.read \in [Machines -> Keys] /\ c.kek \in Keks
         /\ c.left \in Seq(Shares) /\ c.sealed \in SUBSET Shares
BY DEF CommandStates, Ready

LEMMA IssuingIsTyped ==
  ASSUME NEW c \in CommandStates, c.stage \in {"rows", "handOut"}
  PROVE  c.left \in Seq(Tokens) /\ c.tokens \in SUBSET Tokens
BY DEF CommandStates, Ready

LEMMA StatesOfCommands ==
  /\ Ready \in CommandStates
  /\ \A k \in Kinds, read \in [Machines -> Keys] : Building(k, read) \in CommandStates
  /\ \A stage \in {"created", "shares"}, k \in Kinds, read \in [Machines -> Keys],
        kek \in Keks, left \in Seq(Shares), sealed \in SUBSET Shares :
        Storing(stage, k, read, kek, left, sealed) \in CommandStates
  /\ \A stage \in {"rows", "handOut"}, left \in Seq(Tokens), tokens \in SUBSET Tokens :
        Issuing(stage, left, tokens) \in CommandStates
<1>1. Ready \in CommandStates
  BY DEF CommandStates
<1>2. ASSUME NEW k \in Kinds, NEW read \in [Machines -> Keys]
      PROVE  Building(k, read) \in CommandStates
  BY DEF CommandStates, Building
<1>3. ASSUME NEW stage \in {"created", "shares"}, NEW k \in Kinds, NEW read \in [Machines -> Keys],
             NEW kek \in Keks, NEW left \in Seq(Shares), NEW sealed \in SUBSET Shares
      PROVE  Storing(stage, k, read, kek, left, sealed) \in CommandStates
  BY DEF CommandStates, Storing
<1>4. ASSUME NEW stage \in {"rows", "handOut"}, NEW left \in Seq(Tokens), NEW tokens \in SUBSET Tokens
      PROVE  Issuing(stage, left, tokens) \in CommandStates
  BY DEF CommandStates, Issuing
<1> QED BY <1>1, <1>2, <1>3, <1>4

LEMMA FactsOfCommands ==
  /\ \A k \in Kinds, kek \in Keks : Created(k, kek) \in Facts
  /\ \A k \in Kinds, sealed \in SUBSET Shares : Issued(k, sealed) \in Facts
  /\ \A tokens \in SUBSET Tokens : AdmitsIssued(tokens) \in Facts
BY DEF Facts, Created, Issued, AdmitsIssued

LEMMA TypedInit == Init => Typed
<1> SUFFICES ASSUME Init PROVE Typed
  OBVIOUS
<1>1. TablesTyped /\ HistoryTyped
  BY DEF Init, TablesTyped, HistoryTyped
<1>2. command \in [Commands -> CommandStates]
  BY StatesOfCommands DEF Init
<1> QED BY <1>1, <1>2 DEF Typed

\* A step of a command is typed when the state it comes to is.
LEMMA CommandsStayTyped ==
  ASSUME ShapeInv, Typed, NEW w \in Commands, CommandStep(w), command'[w] \in CommandStates
  PROVE  command' \in [Commands -> CommandStates]
<1>1. ASSUME NEW v \in Commands PROVE command'[v] \in CommandStates
  <2>1. CASE v = w
    BY <2>1
  <2>2. CASE v # w
    BY <2>2, OthersStay DEF Typed
  <2> QED BY <2>1, <2>2
<1>2. command' = [v \in Commands |-> command'[v]]
  BY OthersStay
<1> QED BY <1>1, <1>2

LEMMA EnvelopesAreTyped ==
  ASSUME NEW kind \in Kinds, NEW id \in Nat, NEW byte \in Field,
         NEW coeffs \in [1..(Threshold - 1) -> Field],
         NEW read \in [Machines -> Keys], CanSplit(read)
  PROVE  LET sealed == SplitAndDestroy(kind, [id |-> id, byte |-> byte], coeffs, read)
         IN sealed \in Seq(Shares) /\ Range(sealed) \in SUBSET Shares
<1>1. PICK sealed : sealed = SplitAndDestroy(kind, [id |-> id, byte |-> byte], coeffs, read)
  OBVIOUS
<1>2. PICK n, to :
        /\ n \in Nat /\ n <= Order /\ DOMAIN sealed = 1..n
        /\ to \in [1..n -> Holders(read)]
        /\ \A i \in 1..n :
             sealed[i] = Envelope(kind, to[i],
                           Share(id, i, Threshold, SplitPoly(byte, coeffs)[i]), read[to[i]])
  BY <1>1, EnvelopesOfSplit
<1>3. PICK f \in [Field -> Field] : f = SplitPoly(byte, coeffs)
  <2>1. Threshold \in Nat \ {0} /\ Threshold \in Nat
    BY ProvisioningAssumption
  <2>2. PICK f \in Poly(Threshold) : f = SplitPoly(byte, coeffs)
    BY <2>1, SplitPolyFacts
  <2> QED BY <2>1, <2>2, PolyIsTyped
<1>4. ASSUME NEW i \in 1..n PROVE sealed[i] \in Shares
  <2>1. i \in 1..Order /\ i \in Field
    BY <1>2, FieldIsNat
  <2>2. to[i] \in Machines /\ read[to[i]] \in Keys
    BY <1>2 DEF Holders
  <2>3. f[i] \in Field
    BY <2>1
  <2>4. Share(id, i, Threshold, f[i]) \in [set: Nat, x: 1..Order, threshold: {Threshold}, y: Field]
    BY <2>1, <2>3 DEF Share
  <2>5. sealed[i] = Envelope(kind, to[i], Share(id, i, Threshold, f[i]), read[to[i]])
    BY <1>2, <1>3
  <2> QED BY <2>2, <2>4, <2>5 DEF Envelope, Shares
<1>5. sealed \in Seq(Range(sealed))
  BY <1>1, SplitFacts
<1>6. sealed \in [1..n -> Shares]
  <2>1. sealed \in [1..Len(sealed) -> Range(sealed)]
    BY <1>5, LenProperties
  <2> QED BY <1>2, <1>4, <2>1
<1>7. Range(sealed) \in SUBSET Shares
  BY <1>2, <1>4 DEF Range
<1>8. sealed \in Seq(Shares)
  BY <1>2, <1>6, SeqDef
<1> QED BY <1>1, <1>7, <1>8

LEMMA BuildIsTyped ==
  ASSUME ShapeInv, KeysInv, Typed, NEW w \in Commands, Build(w)
  PROVE  Typed'
<1> DEFINE c == command[w]
<1>0. /\ CommandStep(w)
      /\ UNCHANGED <<shares, admits, log, begun, enrolments, faults, reported, cards, lastRead>>
  BY DEF CommandStep, Build
<1>1. PICK k \in Kinds, read \in [Machines -> Keys] : k = c.kind /\ read = c.read /\ CanSplit(read)
  <2>1. c.stage = "build" /\ c.kind \in Kinds /\ CanSplit(c.read)
    BY BuildDoes DEF IsBuilding
  <2> QED BY <2>1 DEF KeysInv, ReadOK, Known
<1>2. PICK byte \in Secrets, coeffs \in [1..(Threshold - 1) -> Coefficients] :
        LET kek    == [id |-> minted + 1, byte |-> byte]
            sealed == SplitAndDestroy(c.kind, kek, coeffs, c.read)
        IN /\ minted' = minted + 1
           /\ bundles' = [bundles EXCEPT ![c.kind] = kek]
           /\ command'[w] = Storing("created", c.kind, c.read, kek, sealed, Range(sealed))
  BY BuildDoes
<1>3. byte \in Field /\ coeffs \in [1..(Threshold - 1) -> Field]
  BY ProvisioningAssumption
<1>4. minted \in Nat /\ minted + 1 \in Nat \ {0}
  BY DEF Typed, HistoryTyped
<1>5. PICK kek \in Keks : kek = [id |-> minted + 1, byte |-> byte]
  BY <1>4 DEF Keks
<1>6. PICK sealed : sealed = SplitAndDestroy(k, kek, coeffs, read)
  OBVIOUS
<1>7. sealed \in Seq(Shares) /\ Range(sealed) \in SUBSET Shares
  BY <1>1, <1>3, <1>4, <1>5, <1>6, EnvelopesAreTyped
<1> HIDE DEF c
<1>8. /\ minted' = minted + 1
      /\ bundles' = [bundles EXCEPT ![k] = kek]
      /\ command'[w] = Storing("created", k, read, kek, sealed, Range(sealed))
  BY <1>1, <1>2, <1>5, <1>6
<1>9. command'[w] \in CommandStates
  BY <1>7, <1>8, StatesOfCommands
<1>10. command' \in [Commands -> CommandStates]
  BY <1>0, <1>9, CommandsStayTyped
<1>11. TablesTyped'
  BY <1>0, <1>8 DEF Typed, TablesTyped
<1>12. HistoryTyped'
  BY <1>0, <1>4, <1>8 DEF Typed, HistoryTyped
<1> QED BY <1>10, <1>11, <1>12 DEF Typed

LEMMA SignedIsTyped ==
  ASSUME NEW roster \in Rosters, NEW n \in 1..MaxBegun
  PROVE  Signed(roster, n) \in Seq(Tokens) /\ Range(Signed(roster, n)) \in SUBSET Tokens
<1>1. roster \in Seq(Range(roster))
  BY ProvisioningAssumption
<1>2. Len(roster) \in Nat /\ DOMAIN roster = 1..Len(roster)
  BY <1>1, LenProperties
<1>3. ASSUME NEW i \in DOMAIN roster
      PROVE  [who |-> roster[i].who, seat |-> roster[i].seat, issue |-> n] \in Tokens
  <2>1. [who |-> roster[i].who, seat |-> roster[i].seat, issue |-> n] \in
          {[who |-> roster[j].who, seat |-> roster[j].seat, issue |-> m] :
             j \in DOMAIN roster, m \in 1..MaxBegun}
    OBVIOUS
  <2> QED BY <2>1 DEF Tokens
<1>4. Signed(roster, n) \in [1..Len(roster) -> Tokens]
  BY <1>2, <1>3 DEF Signed
<1>5. Signed(roster, n) \in Seq(Tokens)
  BY <1>2, <1>4, SeqDef
<1> QED BY <1>4, <1>5 DEF Range

\* The steps that start a command, or end one with nothing done.
LEMMA StartIsTyped ==
  ASSUME ShapeInv, KeysInv, Typed, NEW w \in Commands,
         StartProvision(w) \/ BuildRefused(w) \/ StartAdmit(w) \/ Fail(w)
  PROVE  Typed'
<1>0. CommandStep(w)
  BY DEF CommandStep
<1>1. TablesTyped'
  <2>1. UNCHANGED <<bundles, shares, admits, log>>
    BY DEF StartProvision, BuildRefused, StartAdmit, Fail, tableVars
  <2> QED BY <2>1 DEF Typed, TablesTyped
<1>2. HistoryTyped'
  <2>1. CASE StartProvision(w) \/ StartAdmit(w) \/ Fail(w)
    BY <2>1 DEF StartProvision, StartAdmit, Fail, Typed, HistoryTyped
  <2>2. CASE BuildRefused(w)
    <3>1. command[w].read \in [Machines -> Keys]
      BY <2>2, AtShape DEF BuildRefused, At, KeysInv, ReadOK, Known
    <3> QED BY <2>2, <3>1 DEF BuildRefused, Typed, HistoryTyped
  <2> QED BY <2>1, <2>2
<1>3. command'[w] \in CommandStates
  <2>1. CASE StartProvision(w)
    <3>1. custodians \in [Machines -> Keys] /\ "paper" \in Kinds
      BY DEF KeysInv, Known, Kinds
    <3> QED BY <2>1, <3>1, StartProvisionDoes, StatesOfCommands
  <2>2. CASE BuildRefused(w) \/ Fail(w)
    BY <2>2, ReadyAgain, StatesOfCommands
  <2>3. CASE StartAdmit(w)
    <3>1. PICK roster \in Rosters :
            command'[w] = Issuing("rows", Signed(roster, begun + 1), Range(Signed(roster, begun + 1)))
      BY <2>3, StartAdmitDoes
    <3>2. begun + 1 \in 1..MaxBegun
      BY <2>3, ProvisioningAssumption DEF StartAdmit, Typed, HistoryTyped
    <3>3. /\ Signed(roster, begun + 1) \in Seq(Tokens)
          /\ Range(Signed(roster, begun + 1)) \in SUBSET Tokens
      BY <3>2, SignedIsTyped
    <3> QED BY <3>1, <3>3, StatesOfCommands
  <2> QED BY <2>1, <2>2, <2>3
<1>4. command' \in [Commands -> CommandStates]
  BY <1>0, <1>3, CommandsStayTyped
<1> QED BY <1>1, <1>2, <1>4 DEF Typed

\* The steps that store shares or say that they are stored.
LEMMA StoringStaysTyped ==
  ASSUME ShapeInv, Typed, NEW w \in Commands,
         AppendCreated(w) \/ PutShare(w) \/ AppendIssued(w)
  PROVE  Typed'
<1> DEFINE c == command[w]
<1>0. CommandStep(w)
  BY DEF CommandStep
<1>1. c.stage \in {"created", "shares"}
  BY AppendCreatedDoes, PutShareDoes, AppendIssuedDoes
<1>2. /\ c.kind \in Kinds /\ c.read \in [Machines -> Keys] /\ c.kek \in Keks
      /\ c.left \in Seq(Shares) /\ c.sealed \in SUBSET Shares
  BY <1>1, StoringIsTyped DEF Typed
<1>3. CASE AppendCreated(w)
  <2>1. /\ log' = log \union {Created(c.kind, c.kek)}
        /\ command'[w] = Storing("shares", c.kind, c.read, c.kek, c.left, c.sealed)
    BY <1>3, AppendCreatedDoes
  <2> HIDE DEF c
  <2>2. command'[w] \in CommandStates /\ Created(c.kind, c.kek) \in Facts
    BY <1>2, <2>1, StatesOfCommands, FactsOfCommands
  <2>3. command' \in [Commands -> CommandStates]
    BY <1>0, <2>2, CommandsStayTyped
  <2>4. TablesTyped'
    BY <1>3, <2>1, <2>2 DEF AppendCreated, Typed, TablesTyped
  <2>5. HistoryTyped'
    BY <1>3 DEF AppendCreated, otherVars, Typed, HistoryTyped
  <2> QED BY <2>3, <2>4, <2>5 DEF Typed
<1>4. CASE PutShare(w)
  <2>1. /\ c.left # <<>>
        /\ \/ command'[w] = Ready /\ shares' = shares
           \/ /\ shares' = shares \union {Head(c.left)}
              /\ command'[w] = Storing("shares", c.kind, c.read, c.kek, Tail(c.left), c.sealed)
    BY <1>4, PutShareDoes
  <2> HIDE DEF c
  <2>2. Head(c.left) \in Shares /\ Tail(c.left) \in Seq(Shares)
    BY <1>2, <2>1, HeadAndTail
  <2>3. command'[w] \in CommandStates
    <3>1. Ready \in CommandStates
      BY StatesOfCommands
    <3>2. Storing("shares", c.kind, c.read, c.kek, Tail(c.left), c.sealed) \in CommandStates
      BY <1>2, <2>2, StatesOfCommands
    <3> QED BY <2>1, <3>1, <3>2
  <2>4. command' \in [Commands -> CommandStates]
    BY <1>0, <2>3, CommandsStayTyped
  <2>5. TablesTyped'
    BY <1>4, <2>1, <2>2 DEF PutShare, Typed, TablesTyped
  <2>6. HistoryTyped'
    BY <1>4 DEF PutShare, otherVars, Typed, HistoryTyped
  <2> QED BY <2>4, <2>5, <2>6 DEF Typed
<1>5. CASE AppendIssued(w)
  <2>1. /\ log' = log \union {Issued(c.kind, c.sealed)}
        /\ command'[w] = Building("answers", c.read) \/ command'[w] = Ready
    BY <1>5, AppendIssuedDoes
  <2>2. /\ reported' = reported \/ reported' = reported \union {c.read}
        /\ lastRead' = lastRead \/ lastRead' = {c.read}
    BY <1>5 DEF AppendIssued
  <2> HIDE DEF c
  <2>3. command'[w] \in CommandStates /\ Issued(c.kind, c.sealed) \in Facts
    BY <1>2, <2>1, StatesOfCommands, FactsOfCommands DEF Kinds
  <2>4. command' \in [Commands -> CommandStates]
    BY <1>0, <2>3, CommandsStayTyped
  <2>5. TablesTyped'
    BY <1>5, <2>1, <2>3 DEF AppendIssued, Typed, TablesTyped
  <2>6. HistoryTyped'
    BY <1>2, <1>5, <2>2 DEF AppendIssued, Typed, HistoryTyped
  <2> QED BY <2>4, <2>5, <2>6 DEF Typed
<1> QED BY <1>3, <1>4, <1>5

\* The steps that store admit tokens and hand them out.
LEMMA IssuingStaysTyped ==
  ASSUME ShapeInv, Typed, NEW w \in Commands,
         PutToken(w) \/ AppendAdmits(w) \/ HandOut(w)
  PROVE  Typed'
<1> DEFINE c == command[w]
<1>0. CommandStep(w)
  BY DEF CommandStep
<1>1. c.stage \in {"rows", "handOut"}
  BY PutTokenDoes, AppendAdmitsDoes, HandOutDoes
<1>2. c.left \in Seq(Tokens) /\ c.tokens \in SUBSET Tokens
  BY <1>1, IssuingIsTyped DEF Typed
<1>3. CASE PutToken(w)
  <2>1. /\ c.left # <<>>
        /\ \/ command'[w] = Ready /\ admits' = admits
           \/ /\ admits' = admits \union {Head(c.left)}
              /\ command'[w] = Issuing("rows", Tail(c.left), c.tokens)
    BY <1>3, PutTokenDoes
  <2> HIDE DEF c
  <2>2. Head(c.left) \in Tokens /\ Tail(c.left) \in Seq(Tokens)
    BY <1>2, <2>1, HeadAndTail
  <2>3. command'[w] \in CommandStates
    BY <1>2, <2>1, <2>2, StatesOfCommands
  <2>4. command' \in [Commands -> CommandStates]
    BY <1>0, <2>3, CommandsStayTyped
  <2>5. TablesTyped'
    BY <1>3, <2>1, <2>2 DEF PutToken, Typed, TablesTyped
  <2>6. HistoryTyped'
    BY <1>3 DEF PutToken, otherVars, Typed, HistoryTyped
  <2> QED BY <2>4, <2>5, <2>6 DEF Typed
<1>4. CASE AppendAdmits(w)
  <2>1. /\ log' = log \union {AdmitsIssued(c.tokens)}
        /\ command'[w] = Issuing("handOut", c.left, c.tokens)
    BY <1>4, AppendAdmitsDoes
  <2> HIDE DEF c
  <2>2. command'[w] \in CommandStates /\ AdmitsIssued(c.tokens) \in Facts
    BY <1>2, <2>1, StatesOfCommands, FactsOfCommands
  <2>3. command' \in [Commands -> CommandStates]
    BY <1>0, <2>2, CommandsStayTyped
  <2>4. TablesTyped'
    BY <1>4, <2>1, <2>2 DEF AppendAdmits, Typed, TablesTyped
  <2>5. HistoryTyped'
    BY <1>4 DEF AppendAdmits, otherVars, Typed, HistoryTyped
  <2> QED BY <2>3, <2>4, <2>5 DEF Typed
<1>5. CASE HandOut(w)
  <2>1. command'[w] = Ready /\ cards' = cards \union c.tokens
    BY <1>5, HandOutDoes
  <2>2. command' \in [Commands -> CommandStates]
    BY <1>0, <2>1, StatesOfCommands, CommandsStayTyped
  <2>3. TablesTyped'
    BY <1>5 DEF HandOut, tableVars, Typed, TablesTyped
  <2>4. HistoryTyped'
    BY <1>2, <1>5, <2>1 DEF HandOut, Typed, HistoryTyped
  <2> QED BY <2>2, <2>3, <2>4 DEF Typed
<1> QED BY <1>3, <1>4, <1>5

LEMMA TypedNext == ShapeInv /\ KeysInv /\ Typed /\ [Next]_vars => Typed'
<1> SUFFICES ASSUME ShapeInv, KeysInv, Typed, [Next]_vars PROVE Typed'
  OBVIOUS
<1>1. ASSUME NEW w \in Commands, CommandStep(w) PROVE Typed'
  BY <1>1, StartIsTyped, BuildIsTyped, StoringStaysTyped, IssuingStaysTyped DEF CommandStep
<1>2. CASE KeyStep \/ UNCHANGED vars
  <2>1. UNCHANGED <<tableVars, command, otherVars>>
    BY <1>2 DEF KeyStep, vars
  <2> QED BY <2>1 DEF tableVars, otherVars, Typed, TablesTyped, HistoryTyped
<1>3. ASSUME NEW c \in Machines, Enrol(c) PROVE Typed'
  <2>1. TablesTyped' /\ UNCHANGED command
    BY <1>3 DEF Enrol, Typed, TablesTyped
  <2>2. HistoryTyped'
    BY <1>3 DEF Enrol, Typed, HistoryTyped
  <2> QED BY <2>1, <2>2 DEF Typed
<1> QED BY <1>1, <1>2, <1>3 DEF Next

(* Every variable has its type: a share has its place in the field and a   *)
(* value of it, however many custodians there are, since a key that the    *)
(* field has no places for is not split (shamir.ts, shamirSplit).          *)
THEOREM ProvisioningTypes == Spec => []TypeOK
<1>1. Spec => []Typed
  BY TypedInit, TypedNext, ShapeInvariant, KeysInvariant, PTL DEF Spec
<1>2. KeyStoreInv /\ KeysInv /\ Typed => TypeOK
  BY DEF KeyStoreInv, KeysInv, Known, Typed, TablesTyped, HistoryTyped, TypeOK
<1> QED BY <1>1, <1>2, KeyFilesInvariant, KeysInvariant, PTL

(* A key file that was shown can still be read, and holds every key shown, *)
(* while custodians enrol and make keys, and exams are provisioned.        *)
THEOREM ShownKeysStay == Spec => [](FileIsReadable /\ PublishedIsKept)
<1>1. KeyStoreInv => FileIsReadable /\ PublishedIsKept
  BY InvIsReadable DEF KeyStoreInv
<1> QED BY <1>1, KeyFilesInvariant, PTL

=============================================================================
