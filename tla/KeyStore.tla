------------------------------ MODULE KeyStore ------------------------------
(***************************************************************************)
(* The long-lived keys of one machine and the file they are kept in        *)
(* (kms-vault/src/keystore.ts, kms-vault/src/index.ts).  The seed store    *)
(* of kms-pkcs11 is another file, and not part of this module.             *)
(*                                                                         *)
(* A program opens the file once, works on its own copy, makes the keys it *)
(* wants one after another when they are not there, and replaces the whole *)
(* file for each new one.  Nothing locks the file.  A program shows the    *)
(* public key of each key it wants (identity prints it, the log and the    *)
(* authority's enrolment take it).                                         *)
(*                                                                         *)
(* A seed stands for its key pair.  An entry records what it is sealed     *)
(* under: the salt of its program's copy and the passphrase it was given.  *)
(* Salts and seeds are random; the model draws 1, 2, 3, ...  A program     *)
(* that dies, or whose write fails, takes no more steps.  MaxDrawn only    *)
(* bounds the model.  overtaken is history.                                *)
(***************************************************************************)
EXTENDS Integers, Sequences, FiniteSets

CONSTANTS
  Machines,
  Programs,     \* each runs once
  HomeOf,       \* the machine of each program
  Wants,        \* the names of the keys each program asks for, in order
  Passphrases,  \* an operator may give any of them
  FirstFiles,   \* the file of each machine at the start, or NoFile
  NoFile,
  MaxDrawn

VARIABLES
  disk,       \* the file of each machine
  program,    \* what each program is in the middle of
  drawn,      \* salts and seeds drawn
  published,  \* public keys shown: machine, name and seed
  overtaken   \* machines whose file was replaced by a program that had not read it

keyVars == <<disk, program, drawn, published, overtaken>>

Names   == UNION {{Wants[p][i] : i \in DOMAIN Wants[p]} : p \in Programs}
Seals   == Nat \X Passphrases
Entries == [name: Names, seed: Nat, under: Seals]
Files   == [salt: Nat, entries: Seq(Entries)]

Seal(salt, pass) == <<salt, pass>>

\* Every entry can be opened with that salt and passphrase.
AllUnder(entries, seal) == \A i \in DOMAIN entries : entries[i].under = seal

Holds(entries, name) == \E i \in DOMAIN entries : entries[i].name = name

EntryOf(entries, name) ==
  entries[CHOOSE i \in DOMAIN entries : entries[i].name = name]

\* The keys of a machine whose file has those entries.
Shown(m, entries) ==
  {[machine |-> m, name |-> entries[i].name, seed |-> entries[i].seed] :
     i \in DOMAIN entries}

ASSUME KeyStoreAssumption ==
  /\ HomeOf \in [Programs -> Machines]
  /\ \A p \in Programs : Wants[p] \in Seq(Names) /\ Wants[p] # <<>>
  /\ FirstFiles \in [Machines -> Files \union {NoFile}]
  /\ NoFile \notin Files
  /\ \A m \in Machines : FirstFiles[m] # NoFile =>
       /\ FirstFiles[m].entries # <<>>
       /\ AllUnder(FirstFiles[m].entries, FirstFiles[m].entries[1].under)
       /\ FirstFiles[m].entries[1].under[1] = FirstFiles[m].salt
  /\ MaxDrawn \in Nat

Idle  == [stage |-> "idle"]
Ended == [stage |-> "ended"]

\* A program with its copy of the file; read is the file it last read or wrote.
Running(stage, salt, pass, entries, read, left) ==
  [stage |-> stage, salt |-> salt, pass |-> pass, entries |-> entries,
   read |-> read, left |-> left]

ProgramStates ==
  {Idle, Ended} \union [stage: {"open", "put"}, salt: Nat, pass: Passphrases,
                        entries: Seq(Entries), read: Files \union {NoFile},
                        left: Seq(Names)]

Stands(p, stage) == program[p].stage = stage

Proceed(p, state) == program' = [program EXCEPT ![p] = state]

\* A program that has all its keys writes no more: it counts as ended.
NextKey(state) ==
  IF Len(state.left) = 1 THEN Ended ELSE [state EXCEPT !.stage = "open", !.left = Tail(@)]

-----------------------------------------------------------------------------
KeyStoreInit ==
  /\ disk = FirstFiles
  /\ program = [p \in Programs |-> Idle]
  /\ drawn = 0
  /\ published = UNION {Shown(m, FirstFiles[m].entries) :
                          m \in {m \in Machines : FirstFiles[m] # NoFile}}
  /\ overtaken = {}

\* Mutant: the passphrase is not tried at open.
UnlocksUntried(file, pass) == TRUE

\* Keystore.open tries the passphrase on the first entry, when there is one.
Unlocks(file, pass) ==
  file.entries # <<>> => file.entries[1].under = Seal(file.salt, pass)

OpenFile(p, pass) ==
  LET file == disk[HomeOf[p]]
  IN /\ file # NoFile
     /\ Unlocks(file, pass)
     /\ Proceed(p, Running("open", file.salt, pass, file.entries, file, Wants[p]))
     /\ UNCHANGED drawn

OpenNoFile(p, pass) ==
  /\ disk[HomeOf[p]] = NoFile
  /\ drawn < MaxDrawn
  /\ drawn' = drawn + 1
  /\ Proceed(p, Running("open", drawn + 1, pass, <<>>, NoFile, Wants[p]))

\* Keystore.open; a passphrase that fails the test ends the program.
Open(p) ==
  /\ Stands(p, "idle")
  /\ \E pass \in Passphrases : OpenFile(p, pass) \/ OpenNoFile(p, pass)
  /\ UNCHANGED <<disk, published, overtaken>>

Show(p, state) ==
  LET name == Head(state.left)
  IN published' = published \union
       {[machine |-> HomeOf[p], name |-> name, seed |-> EntryOf(state.entries, name).seed]}

\* ensureSeed, the key is there and opens; else the program ends.
HaveKey(p) ==
  LET state == program[p]
      key   == EntryOf(state.entries, Head(state.left))
  IN /\ Stands(p, "open")
     /\ Holds(state.entries, Head(state.left))
     /\ key.under = Seal(state.salt, state.pass)
     /\ Show(p, state)
     /\ Proceed(p, NextKey(state))
     /\ UNCHANGED <<disk, drawn, overtaken>>

\* ensureSeed, it is not: the new entry is put in the program's copy.
NewKey(p) ==
  LET state == program[p]
      entry == [name |-> Head(state.left), seed |-> drawn + 1,
                under |-> Seal(state.salt, state.pass)]
  IN /\ Stands(p, "open")
     /\ ~Holds(state.entries, Head(state.left))
     /\ drawn < MaxDrawn
     /\ drawn' = drawn + 1
     /\ Proceed(p, [state EXCEPT !.stage = "put", !.entries = Append(@, entry)])
     /\ UNCHANGED <<disk, published, overtaken>>

\* Mutant: the new entry is written without the others.
WrittenAlone(state) ==
  [salt |-> state.salt, entries |-> <<state.entries[Len(state.entries)]>>]

Written(state) == [salt |-> state.salt, entries |-> state.entries]

\* flush: the whole file, renamed into place; the key is shown after that.
Flush(p) ==
  LET state == program[p]
      m     == HomeOf[p]
  IN /\ Stands(p, "put")
     /\ disk' = [disk EXCEPT ![m] = Written(state)]
     /\ overtaken' = overtaken \union (IF disk[m] = state.read THEN {} ELSE {m})
     /\ Show(p, state)
     /\ Proceed(p, NextKey([state EXCEPT !.read = Written(state)]))
     /\ UNCHANGED drawn

KeyStoreNext ==
  \E p \in Programs : Open(p) \/ HaveKey(p) \/ NewKey(p) \/ Flush(p)

KeyStoreSpec == KeyStoreInit /\ [][KeyStoreNext]_keyVars

-----------------------------------------------------------------------------
KeyStoreTypeOK ==
  /\ disk \in [Machines -> Files \union {NoFile}]
  /\ program \in [Programs -> ProgramStates]
  /\ drawn \in Nat
  /\ published \subseteq [machine: Machines, name: Names, seed: Nat]
  /\ overtaken \subseteq Machines

(* One passphrase opens all of a machine's keys: no sequence of opens,     *)
(* deaths and writes by overlapping programs leaves a file whose entries   *)
(* are sealed under different passphrases, or under another salt than the  *)
(* file's.  Keystore.open tries only the first entry and draws a salt when *)
(* there is no file, and flush writes whatever copy the program has.       *)
FileIsReadable ==
  \A m \in Machines : disk[m] # NoFile =>
    \E pass \in Passphrases : AllUnder(disk[m].entries, Seal(disk[m].salt, pass))

(* A public key that was shown (enrolled at the authority, printed for an  *)
(* operator) stays on file: only a program that replaces a file it has not *)
(* read can take it away.  A share or a release sealed to a key that left  *)
(* the file can never be opened.                                           *)
PublishedIsKept ==
  \A k \in published : k.machine \notin overtaken =>
    /\ disk[k.machine] # NoFile
    /\ k \in Shown(k.machine, disk[k.machine].entries)

=============================================================================
