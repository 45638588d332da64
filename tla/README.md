# Zero Window in TLA+

Zero Window keeps an examination paper unreadable until the exam begins. The
paper is encrypted to a key (the KEK) that is split among custodians, the
ciphertext is distributed to exam centres ahead of time, and at T-0 a quorum of
custodians lets the authority reconstruct the key and hand it to each centre,
which decrypts, prints and closes. Everything that happens is appended to signed,
hash-chained transparency logs that an independent verifier audits afterwards.

This directory holds a formal model of that program: TLA+ modules translated from
the TypeScript source (paths below are relative to the repository, under
`packages/` unless they say otherwise), TLC configurations that check them on small
instances, and proofs for TLAPS. `PROJECT.json` maps every definition to
the lines it models.

Contents: [the system](#1-the-system), [modules](#2-modules),
[correspondence with the code](#3-correspondence-with-the-code),
[runs](#4-runs), [proofs](#5-proofs), [disagreements found](#6-disagreements-between-code-and-documents),
[limits](#7-what-is-not-modelled), [plan](#8-plan).

## 1. The system

### Processes and how they meet

* The **authority** is one state directory: a SQLite database, a log (another SQLite
  file), a keystore. A **daemon** (`authority/src/server.ts`) and any number of **CLI
  commands** (`authority/src/cli.ts`) work on it at the same time, each a process with
  objects of its own. They share only the files.
* A **centre** is again one state directory, shared by a **daemon** with a
  synchronisation loop (`centre/src/daemon.ts`), CLI commands (`centre/src/cli.ts`),
  and programs that call the classes directly. The KEK lives in the memory of the
  process that received it.
* Authority and centre talk over mutually authenticated HTTPS: the centre fetches its
  bundle and polls for its wrapped KEK; custodians post shares. A signed **offline
  medium** carried by a courier replaces the link when it is down.
* A **verifier** reads exported evidence bundles only.

Within one process JavaScript runs to the next `await`; several processes interleave at
every SQL statement. This is the source of nearly everything that is hard here.

### Components

| Component | State it keeps | Operations | What makes it correct |
|---|---|---|---|
| Transparency log (`log/src/store.ts`) | tables `entries`, `checkpoints` | append, checkpoint, attach anchors, export | the chain is dense and linked under any interleaving; what was acknowledged stays; a checkpoint commits to a prefix |
| Log verification (`log/src/verify.ts`) | none | verify chain, checkpoints, evidence | an honest log is not accused; a tampered one is |
| Threshold release (`authority/src/release.ts`, shares route in `server.ts`) | box of pending shares; table `releases` | post share, release, release offline | no key without quorum and T-0; every outcome on record; the ceremony can always be completed |
| Authority commands (`authority/src/authority.ts`, `store.ts`) | centres, custodians, distributions, schedules | enrol, distribute, schedule | rows and log entries agree |
| Provisioning (`authority/src/provision.ts`, `admit.ts`, `bank.ts`) | bundles, shares, tokens | provision, issue tokens, verify tokens | what is reported can be released; every share opens; a seat has one card |
| Centre node (`centre/src/centre.ts`, `store.ts`) | bundles, check-ins, papers; held KEKs | receive bundle, receive key, check in, run T-0, close | one candidate and one paper to a seat; all that is printed is logged; closing is honest |
| Printing (`centre/src/print.ts`) | none | print with failover | each paper comes out, copies are bounded |
| Centre synchronisation (`centre/src/daemon.ts`) | the timer | tick, stop | the key arrives, through failures and restarts |
| Certificate authority (`ca/src`) | `ca.json`, key files, `crl.pem`; the CRL each service has loaded | initialise, issue, rotate, revoke, CRL, check a peer | the issuer has its key; a rotation leaves a successor; what was acknowledged is on record; a revoked certificate stops being accepted |
| Key providers (`kms`, `kms-vault`, `kms-pkcs11`) | keystore file, KEKs in memory | open, make and show keys; create, wrap, split, reconstruct, destroy a KEK | one passphrase opens all of a file; a public key that was shown keeps its private key |
| Cryptography (`crypto/src`) | none | Shamir, boxes, signatures, hashing | any quorum reconstructs, fewer do not |
| Paper assembly (`centre/src/assemble.ts`, `prng.ts`) | none | sample questions, shuffle options | the same paper for whoever derives it; no bias; the answers can be found again |
| Anchoring (`log/src/anchor.ts` and backends) | tokens in checkpoints | stamp, verify | enough authorities vouch, or it fails |
| Independent audit (`verifier/src`) | none | audit an exam across logs | a complaint has a cause; a clean report was earned |
| Rendering, evidence files, operations | none the system reads back | layout, encoding, health, shutdown | - |

### Behaviours that are hard

Interleavings at the awaits of `append`, `createCheckpoint` and `performRelease`;
rows stored before their log entry, with a rejection or a crash between them; a box of
shares shared by all requests and lost with the process; overlapping synchronisation
ticks; two runs of T-0 at once or one after another; print jobs that finish after they
were given up; keys that end with a process; `zw-ca` commands that write whole files over each
other's, and services that keep a CRL in memory; programs that rewrite a whole key file from the copy
they opened; a key destroyed before its shares are stored; and an audit that must draw the right conclusion from
logs with a late, a rejected or a doubled entry. `PROJECT.json` lists each one at its line, with the
properties aimed at it.

## 2. Modules

| Module | What it is |
|---|---|
| `AppendOnlyLog` | Abstract: a sequence of events that grows, with published prefixes. |
| `LogVerify` | Hashes, signatures and the checks of `verify.ts`, as operators. |
| `TransparencyLog` | The log over its two tables, used by several tasks statement by statement. Implements `AppendOnlyLog`. |
| `TransparencyLogProofs` | Its theorems. |
| `ReleaseCeremony` | Abstract: approvals, T-0, and a key that opens only after both. |
| `ThresholdRelease` | Release, share box, operators' commands on one authority. Implements `ReleaseCeremony`. |
| `ThresholdReleaseProofs` | Its theorems. |
| `ExamHall` | Abstract: seats are taken once, bound to a paper once, and served only when bound. |
| `CentreNode` | Custody, key receipt, check-in, T-0, printing and closing on one centre. Implements `ExamHall`. |
| `CentreNodeProofs` | Its theorems. |
| `CertificateAuthority` | The CA's directory under several `zw-ca` commands, and the services that check their peers against its CRL. |
| `CertificateAuthorityProofs` | Its theorems. |
| `KeyStore` | The file of long-lived keys of each machine, under overlapping programs. |
| `SecretSharing` | Shamir's scheme over a binary field with its tables, as functions. Operators only. |
| `SecretSharingProofs` | Its theorems: that the scheme is exact. |
| `Provisioning` | Enrolled custodians, the two bundles and their shares, admit tokens, under overlapping commands. EXTENDS `KeyStore` and `SecretSharing`. |
| `ProvisioningProofs` | Its theorems, and first those of `KeyStore`. |
| `ExamAudit` | The logs of an authority and its centres over a whole exam, and the rows of the audit report. |
| `ExamAuditProofs` | Its theorems. |
| `MerkleTree`, `PaperAssembly`, `TimeStamp` | The computations the audit rests on: inclusion proofs, papers, anchors. Operators only. |
| `AuditEvidence` | `ExamAudit` with those three: the inclusion proofs and anchors of the exam's own logs, and the papers of its bank. |
| `AuditEvidenceProofs` | Its theorems, which are mostly about those three. |
| `MC...` | An instance for TLC each. |

`CentreNode` and `ThresholdRelease` rely on the log through what `TransparencyLog` shows
of it: an append adds one entry or is rejected and adds none. `CentreNode` relies on
`ThresholdRelease` through the single step `Release`: at some point the authority has
released. `Provisioning` comes before `ThresholdRelease`, which begins with the shares stored, and is the composition of the authority
with the custodians' machines: a key is enrolled when a machine has shown it, and a share is
sealed to it while programs on that machine may still be writing. `ExamAudit` composes the stages
through what they leave in the logs; there a command is its guard, its row and its entry, since the modules
before it have the steps inside.

## 3. Correspondence with the code

### TransparencyLog

`entries` and `checkpoints` are the tables, functions from the primary key to the row.
`task[t]` is what an invocation holds in local variables between two statements. `append`
is `Reserve` (the IMMEDIATE transaction that reads the head, up to the awaited signature)
then `Insert` or `InsertRefused` (the statement succeeds, or a constraint rejects it).
`createCheckpoint` is `ReadHashes`, `StoreCheckpoint`; `attachAnchors` is `ReadAnchors`,
`WriteAnchors`; `evidence` is `ReadEvidence`, `ExportEvidence`. `Abandon` is a rejection by
the provider or the end of a process at any of those points.

A hash is modelled by what it commits to, a Merkle root by its leaves, a signature by its
key and what it is over: hashing is taken as collision free. `acked` and `answers` record what
callers were told. The transaction of `append` ends before the signature is awaited, so two tasks can
reserve the same place; `InsertRefused` is what the slower of them meets.

### ThresholdRelease

One provisioned bundle. `keys`, `distributed`, `schedule`, `rows` are the tables
`centres`, `distributions`, `schedules`, `releases`; `box` is `pendingShares` of the
daemon; `media` the files `releaseOffline` wrote; `task[t]` a request or command between
its awaits. `PostShare` is the shares route up to the first await of `performRelease`,
`CliRelease` the CLI's entry to the same function. Then: `RefuseEarly`, or `Approve` for
each custodian, `Reconstruct` or `ReconstructFails`, `RecordRelease` for each centre,
`Announce`, and `DeliverMedium` for the offline command. `EnrolCentre`, `Distribute`,
`ScheduleRelease` write their row and leave the append to `LogCommand`. `Fail` is a rejected
append, a provider error or budget, or the end of the process; with the daemon goes its box.

The vault provider does no I/O, so a daemon is not interrupted inside a release by another
of its requests, and `PostShare` requires an idle daemon; other *processes* act between any
two of its steps. `Combine` states what `parseShare` and `shamirCombine` accept: shares of this
split with distinct indices. A share carries no name, so a custodian may post it under a
colleague's (`PostShare(n, s)` with `n # s`). The order of the two loops (over custodians, over
centres) is not modelled: any order is allowed, which includes the code's. The clock does
not run backwards.

### CentreNode

`bundle`, `checkins`, `papers` are the tables; `held` says which processes have the KEK in
memory; `syncing` whether the daemon's timer is armed. A tick is `StartTick`,
`ReceiveBundle`, `LogBundle`, `ReceiveKek`, `LogKek`; the same methods serve the commands. Check-in
is `CheckIn` (the synchronous look-ups and the insert), `LogCheckin`. `runT0` is `StartRun`, then per
seat `Generate` (the checks up to the decryption), `StorePaper`, `LogGenerated`, `PrintCompletes` or
`PrinterFails` and `LogFailover`, `PrintExhausted`, `MarkPrinted`, `LogPrinted`, and `EndRun`. `closeExam`
is `StartClose`, `LogClose`. `Finish` ends a command, whose `close()` discards the key. `Fail` is
any awaited call that rejects, treated as the code treats it (`runT0` goes on to the next
seat, everything else ends); `Crash` ends a process, and a job it had submitted may still
print.

Three kinds of tasks differ in how long their process lives: `Ticks` share the daemon's,
each of `Clis` gets a fresh one, each of `Hosts` keeps one across calls. `runT0` goes through the
seats in the order of the table; the model lets it take any order. Inputs that are refused before
anything is stored (wrong hash, fingerprint or signature, a taken seat, a used card) change
nothing and have no action of their own. `twice`, `copies`, `admitted` are history.

### CertificateAuthority

`ca`, `keys`, `crl` are `ca.json`, the private key files and `crl.pem`. A command is a process with a
copy of `ca.json`: `Open` reads it; `Initialize`, `RotateIntermediate`, `Issue`, `Rotate`, `Revoke` or
`GenerateCrl` decides on the copy, which comes to a list of files to write, in the code's order;
`WriteKey`, `Persist`, `WriteCrl` write them one by one, each atomically (`writeFileAtomic`); `Reply`
answers the operator. `Refuse` is an error before anything is written, `Fail` a write that fails or
the end of the process: what was written stays. Nothing locks the directory, so commands overlap.

A service reads the CRL when it starts (`StartService`) and `Accepts` a peer while that CRL is
fresh and does not list the peer's certificate. Serials are random in the code and 1, 2, 3, ... in the model; a certificate is its
subject, issuer and revocation. `delivered`, `annulled` and `overwritten` are history: the last one
says that some command has replaced a `ca.json` it had not read. From then on records can be lost, and the
properties that speak of records say nothing; the other two hold even then.

### KeyStore

`disk[m]` is the keystore file of a machine: its salt and its entries. A program is one process that uses
the keystore: `Open` is `Keystore.open` (reads the file, or draws a salt when there is none, and tries the passphrase on
the first entry), `HaveKey` and `NewKey` are the two outcomes of `ensureSeed` for the next name it wants, `Flush` writes
the whole of the program's copy and renames it into place. A key is `published` when `ensureSeed` returns it.
A wrong passphrase, an entry that does not open and the end of a process are a program that takes no
more steps, so every program may stop anywhere. `overtaken` is history: the machines whose file was replaced by a
program that had not read it. There a key that was shown can be lost, and nothing is claimed of it; that the file stays
readable holds even there.

`kms-pkcs11/src/index.ts` keeps its seeds in a file that is read once, held and replaced whole as well. It is another store,
sealed by the token's master key, and not part of this module.

### SecretSharing

Every table and loop of `gf256.ts` and `shamir.ts`, for a field of any width: the code's is `Width` 8 and `Modulus` 283 (0x11b).
A loop is a function of the rounds it has made, which can be computed and reasoned about. One byte
is shared; a secret of several is shared byte by byte in the code. `Combinable` is the list of checks that
`shamirCombine` makes before it interpolates.

### Provisioning

`custodians`, `bundles`, `shares`, `admits` are the tables, `log` the facts that the authority's log states.
`command[w]` is what a `zw-authority` process is in the middle of. `provision` is `StartProvision` (reads the custodians,
checks the threshold) and then, for the paper and for the answers, `Build` (make the key, encrypt, split and
destroy it, `putBundle`) or `BuildRefused`, `AppendCreated`, `PutShare` for each custodian and `AppendIssued`. `issue-admit` is
`StartAdmit` (all tokens signed), `PutToken` for each row, `AppendAdmits` and `HandOut` (the file of tokens).
`Fail` is a rejected append, a refused statement or the end of the process at any point; `Enrol` is `enrol-custodian`
with a key the machine has shown, or with a mistyped one. The statements that a UNIQUE or PRIMARY KEY refuses end
their command: `CanPutBundle`, the row test in `PutShare`, `SeatFree`. `KeyStep` is a step of any custodian's
machine, with the tables left alone; this is where enrolment and `KeyStore` meet.

A bundle is represented by its key: which one it is, and one byte. `reported`, `cards`, `lastRead` are history.

### ExamAudit

All the logs of one exam, entry by entry, with the rows behind them; the audit is a set of operators (`T1`, `T2`, ... as in
`audit.ts`) that are evaluated in every state. Where `audit.ts` looks entries up, `SchedulesOf`, `IssuesOf`, `SentFor`,
`EnteredWith` and `PaperBundles` are the places it finds, `FirstOf` is a `find` and `LastOf` a `Map` filled in the order of the log.
`Earlier` is what the authority's log holds from exams before this one, of which only this is assumed (`EarlierAssumption`): its
entries are about other bundles, each created once under a key of its own. A command is one step here, since its inside is the matter of
the modules above: its guard, its row and its entry. The entry may be appended with the row or later
(`Record`, `AppendLate`). An entry that stays delayed is the same evidence as an append that was rejected and as a log exported
between the two, so one fault covers all three. `Provision(n)` ends after `n` of its four entries. A release has two
steps, because the schedule may change between its checks and its entry.

A log is kept as one sequence for each type of entry: that is how the audit reads it (`entriesOf`), and no row of
the report compares the places of entries of different types. `Approvals` may include custodians enrolled after provisioning, who
hold no share: `performRelease` accepts their label (see `ThresholdRelease`), and `T9` is to notice.

### MerkleTree, PaperAssembly, TimeStamp, AuditEvidence

The first three are operators without state. `MerkleTree` is `merkle.ts`. Its recursions go over slices of the list of leaves; here each
is a recursive function of the slice, that is of its size and its first leaf (`Nodes` for `rootOf`, `Siblings` for `build`), and
`Computed` is `recompute` for every place of a tree and every part of the proof that is left. A caller's arguments select one value. In
this form the functions can be reasoned about as well as computed. `ProofsAreExact` compares them with RFC 6962 and tries each proof at
every index, for every entry and with a sibling missing or added.
`PaperAssembly` is `prng.ts` and `assemble.ts` on a stream of words, with `validateBank` and `splitBank`. How far the numbers of
a sample or a shuffle reach depends on the round and not on the numbers before, so `Draws` takes them all from the stream
(the words `NextBelow` accepts) and `Sampled`, `Shuffled` use them; the order in which words are read is the code's. The sort of a pool is
stated by its result: the `k`-th item has `k - 1` ids below its own (`Rank`).
`DrawsAreUniform` counts, over all streams, how often each sample and each order comes out. `TimeStamp` is the request, the answer and
the stored token of `rfc3161.ts`, `anchorToAll` and `verifyAnchors`.

`AuditEvidence` ties them to the exam: proofs in trees of all sizes its logs reach, anchors at its times, with
clocks that are wrong by just too much and by just not too much, and the papers of a bank, with every small bank and blueprint beside it
(`BankIsFair`).

## 4. Runs

All configurations run TLC with two workers in under five minutes.

| Run | Configuration | Question and answer |
|---|---|---|
| `log` | `TransparencyLog.cfg` | Do two tasks that append, checkpoint, anchor and export in every interleaving keep the log sound? Yes (`ChainIntact`, `AckedIsStored`, `CheckpointsCoverPrefix`), a verifier can raise nothing against it but an overrun (`OnlyOverrunOfHonestLog`), and it implements `AppendOnlyLog`. |
| `release` | `ThresholdRelease.cfg` | Does any interleaving of daemon and operator, with one failure anywhere, give a key out without quorum and T-0, or leave an outcome without evidence? No; it implements `ReleaseCeremony`. |
| `release_live` | `CeremonyLiveness.cfg` | Can a wrong share, a stranger's label, a lost box or a moved T-0 wedge the ceremony? No (`CeremonyCompletes`). |
| `centre` | `CentreNode.cfg` | Do two programs on one centre, with two failures anywhere, ever bind two candidates to a seat, generate twice, print off the record, print without bound or close with too high a count? No; they implement `ExamHall`. |
| `centre_sync` | `KeySync.cfg` | Does the daemon get the key and keep it? Yes (`KeyArrives`). |
| `centre_rerun` | `Rerun.cfg` | Is every seat that a later run skips one that was served? No. |
| `ca` | `CertificateAuthority.cfg` | Do two overlapping commands that may end anywhere leave an issuer without its key, an identity superseded without a successor, an acknowledged record missing, or a revoked certificate accepted past the validity of a CRL? No. |
| `ca_issuer` | `RotateIssuer.cfg` | Can a certificate of a previous intermediate be individually revoked, with effect? No. |
| `ceremony` | `Provisioning.cfg` | Two commands overlap, one may die anywhere, a custodian's programs make his keys meanwhile: is every file readable with one passphrase (`FileIsReadable`), every shown key kept (`PublishedIsKept`), every stored share one its custodian can open (`SharesOpen`), and do exactly the threshold of them give the key (`ThresholdIsExact`)? Is what was reported complete (`ReportedIsReleasable`), what was logged stored (`IssuedIsStored`), and every card on record and alone on its seat (`CardsAreOnRecord`)? Yes. |
| `provision_redo` | `ProvisionRedo.cfg` | A share was sealed to a mistyped key. Does enrolling the custodian under the right key and repeating the provisioning replace it? No: the repeated command reads the right key, but the second bundle is refused and the share stays as it was. |
| `audit` | `ExamAudit.cfg` | In every state of an exam where nobody cheats: does each complaint of the audit have a cause (`AccusationsHaveCause`), and is a clean report earned (`PassIsEarned`)? Yes, with the exceptions these properties spell out. Are the papers drawn without bias and the same for whoever derives them (`PapersAreFair`), inclusion proofs exact for every log size reached (`InclusionProofsAreExact`), anchors bound to their request and enough for the audit (`AnchorsVerify`)? Yes. |
| `audit_second` | `AuditSecond.cfg` | Is an honest disclosure accepted when the authority's log holds an earlier exam? No. |

### Bounds

* Log: two tasks, two events, three entries, two anchors per checkpoint. Two tasks are
  enough for every pairwise race, two events so that rivals for a place may differ or
  coincide (the UNIQUE hash), three entries so that a checkpoint can be at the front,
  in the middle and at the end of the log. The proofs do without any of these bounds.
* Release: two custodians with threshold 2, two centres, a daemon and one operator,
  `MaxTime` 1 (T-0 may be now or later), one key per centre, `MaxFaults` 1. A wrong share counts as
  a fault. Custodians and centres are symmetric. In `release_live` a third name, that of no custodian,
  may be posted, and there is one centre. With `MaxKeys` 2 and one centre (a re-enrolment during a
  release) the same properties hold over 1.65 million states; that instance is not among the runs.
* Centre: two seats, three candidates (two of them with tokens for one seat), one printer and a spool directory, two faults, and two
  symmetric programs. Runs that overlap and runs that follow each other both fit. In `centre_sync` two ticks
  may overlap, three faults hit any of them, and there is no spool, so a print can be exhausted.
* Certificate authority: two symmetric commands, up to four in all, one identity, one service, four serials (a root, an
  intermediate and two more: a leaf and its successor, or a second intermediate), CRLs valid for one step of a clock
  that goes to 2. One identity is enough since a command touches one; one service, since services do not interact. With
  five commands, CRLs valid for an instant and a clock up to 1 the properties hold over 3.96 million states; that
  instance is not among the runs. The proofs do without these bounds.
* Provisioning: three custodians with threshold 2, one of them with no key file yet and two programs that make his keys under
  either of two passphrases (`MaxDrawn` 4: two salts, two seeds); two symmetric commands, two begun in all, so that
  two provisionings, two issues or one of each overlap or follow each other; one enrolment, one failure; a roster of two, which two issues put on the same
  seats. With three custodians a threshold of 2 is neither all nor one. The field has 8 elements; `SharingIsExact` goes
  through every polynomial of degree 1 and 2 and every order of shares. 0.77 million states; the proofs do without these bounds.
  That the code's own constants make a field with generator 3 (`FieldAssumption`, `GeneratorAssumption` for `Width` 8 and `Modulus` 283)
  is evaluated at the start of the two runs of `MCThresholdRelease`.
* Audit: two centres with a candidate each, a threshold of 2 of two custodians and a latecomer, one fault, two schedules, one
  release, two closings a centre, a clock up to 2: a schedule can be moved before, during and after the release, and each
  exception the properties allow does occur. 0.82 million states. The authority's log is empty before the exam; that earlier
  exams in it give no cause for complaint, but to T4, is proved. Merkle trees up to `MaxTree` = 16 leaves, which is more than
  any log of the run has (each split below, at and above a power of two); nonces below 4 (the top bit set and clear, zero
  included). For the papers, five words and draws of 2 and 3 (so that words are rejected in both), banks
  of up to three items and blueprints of up to two slots. The proofs do without these bounds.
* Configurations for the expected disagreements are as small as the disagreement: `provision_redo` allows the two enrolments it
  needs, of the mistyped key and of the right one.

Deadlock is checked for the log and the centre, which can always take another step. The
ceremony is over when all is released and the bounds are used up, and a certificate authority has nothing to do
once no operator gives another command (`MaxCommands`); provisioning and the exam of the audit come to an end in the same
way. There deadlock checking is off.

### Fairness

Only liveness runs assume any, and only of what the runtime provides:

* `release_live`: time passes; the event loop continues a release the daemon has begun; a
  custodian who has not heard of a release keeps posting *their own* share. Nothing is assumed of
  the operators, of strangers or of failures; failures are finitely many (`MaxFaults`). Restarts of
  the daemon are part of `Fail`.
* `centre_sync`: the timer fires (`StartTick`) while it is armed; a tick that has begun reaches its
  next step. Requests and appends may fail, and the process may be restarted, `MaxFaults` times.

## 5. Proofs

`TransparencyLogProofs` proves, for any sets of tasks, events and authorities and any bounds, that the
specification has the invariants `TypeOK`, `ChainIntact`, `AckedIsStored`, `CheckpointsCoverPrefix` and
`OnlyOverrunOfHonestLog`, and that it implements `AppendOnlyLog`. The only assumption is that the two
bounds are natural numbers.

`ChainIntact` is not inductive: whether an insert keeps the chain linked depends on what the
task had reserved, possibly long ago. The inductive invariant `LogInv` adds `InHand`, what a task between
two statements can hold: a reserved row has a sequence number at most the log's size and links
to the row before that number *as it is now* (rows never change), hashes read for a checkpoint
commit to a prefix of the log, rows read for an export are one. With it, an insert that the
PRIMARY KEY lets through can only be at the end (`InsertAtEnd`), and everything else follows from the
fact that the tables only grow (`StepGrows`). `HonestEvidence` then evaluates each check of `verify.ts` on
rows and checkpoints of such a log. The refinement maps the rows to their events and the
checkpoints to the prefixes that their roots list.

`ThresholdReleaseProofs` proves, for any custodians, names, centres, threshold, processes and bounds, the
invariants `TypeOK`, `OpenedByQuorum`, `ReleasesAreEvidenced`, `OutcomesAreEvidenced`, `FullBoxWasEarly`, and
that the specification implements `ReleaseCeremony`. `CeremonyAssumption` asks that there are finitely many
names, custodians among them, that the threshold is positive and the daemon no command. Here too the invariants
of the tables are not inductive alone: a row is written from what the release read before its first await.
`RelInv` adds what a task has in hand (`InHandOK`: recipients that were distributed to, a signed T-0 not
after the release's time, enough enrolled labels, approvals for all but the custodians left, and once reconstructed a
quorum with shares of its own). `InHandStable` shows that this survives the steps of other processes because rows,
log and clock only grow (`StepGrows`); `WhoAppends` says which step an entry comes from. The refinement maps
approvals in the log, a signed T-0 that has passed and the rows; `Quorums` in the abstract module
are the sets of at least `Threshold` custodians.

`CertificateAuthorityProofs` proves, for any commands, identities and services and any bounds, the invariants
`TypeOK`, `ActiveHasKey`, `SupersededHasSuccessor`, `AckedIsOnRecord` and `ExposureIsBounded`. `CaAssumption` asks that the
root's and the issuer's names are not those of a leaf and that the bounds and the validity are natural numbers. What
is on file depends on what commands have yet to write, so the inductive invariants speak of their lists of files.
`KeyInv` says that every state in such a list, like the one on file, is sound (issuer on record, superseded
certificates with a successor), that it comes after the key it needs, that each extends the one before, that the
answer is on record in the last, and that a CRL comes last. This holds whatever overwrites what. `CrlInv` adds, as long as no
command has overwritten a state it had not read, that each command's copy is extended by `ca.json`, that what operators were told
is on record, and that every CRL in memory, on file or next to be published either lists a revoked certificate of the active
issuer or expires within `Validity` of its revocation; the same is said ahead of the states that a command whose copy is
current will write. A write then either replaces the very state the command read, so all of this follows from its list, or sets
`overwritten`. `Extends` is antisymmetric, so a copy that is older than the new state cannot equal it unless nothing changed.

`CentreNodeProofs` proves, for any ticks, commands and programs, any seats, tokens and printers, with or without a spool and any
number of faults, all invariants of the run `centre` (`TypeOK`, `SeatBinding`, `OneGenerationPerSeat`, `PrintedIsOnRecord`,
`CopiesAreBounded`, `CloseIsHonest`) and that the specification implements `ExamHall`. `CentreAssumption` asks that the seats are
finitely many, that each token names one, and that a tick is neither a command nor a program. `TypeOK` is not even
inductive: `MarkPrinted` rewrites a row that was stored five steps before. Four invariants make it so:

* `TypeInv`: the seats a run still has before it are taken, the seat it is at has a paper once `StorePaper` let it past, and ticks
  do nothing but synchronise.
* `CheckinInv`: a check-in between its row and its entry is in the hands of one task, and its entry is not in the log.
* `HallInv`: from the row in `papers` to the entry of the print, one task at most works on a seat (the PRIMARY KEY on `seat` admits
  one, ever), and `WorkOK` says how far the seat is at each stage; the copies of a seat never exceed the printers its
  one run has tried. What happens away from a seat leaves this alone (`HallFrame`, `SeatFrame`).
* `CloseInv`: what a close has counted is at most the number of seats served by now; seats served only grow (`CopiesGrow`).

In the refinement `LogGenerated` is `Bind`, a job that completes, times out or outlives its process is `Serve`; a crash serves one
seat at most, because a process has one job under way (`OneJobPerProcess`).

`SecretSharingProofs` proves Shamir's scheme as the code computes it, for a field of any width: `EnoughSharesCombine` (of any split, as many
shares as the threshold or more, in any order, are combined to the secret) and `FewerSharesTellNothing` (with fewer, for any other
secret exactly one draw of the coefficients gives the same shares). Assumed are `FieldAssumption` (the modulus has one bit more than an element)
and `GeneratorAssumption` (the powers of 3, as `gf256.ts` makes them, are all elements but 0, and the last is followed by 1); both are evaluated by TLC for the code's
constants. The argument goes from the digits up.

* *Loops.* Each is shown to be defined (`LoopIsDefined`, `LoopsAgree`), by complete induction over sets of numbers.
* *Exclusive or.* `XorUnfolds` gives it digit by digit; from this it is typed, commutative, associative and its own inverse, it commutes with
  doubling, and it keeps below a power of two what is below it.
* *The field.* `TimesGenerator` is linear (`GeneratorIsLinear`: the reduction subtracts the modulus exactly when the top bit is set, and the top bits of a
  sum are the sum of the top bits). Every element but 0 is a power of the generator, so multiplication, which adds logarithms, is associative and
  commutative, and `ProductDistributes` follows by moving one power of the generator after the other to the sum.
* *Polynomials* are taken by their values: `Poly(n)` is what `GfPolyEval` computes from `n` coefficients, and one of `n + 1` is a constant plus `x` times
  one of `n` (`PolySplits`, `PolyJoins`). `Division` takes out a root, so one of degree below `n` with `n` roots is zero (`RootsDetermine`).
* *Interpolation.* What `shamirCombine` totals is the value at 0 of the polynomial through the shares (`CombinationIsValueAtZero`). For secrecy, the
  polynomial through the few shares and any value at 0 exists, and its coefficients are determined (`FewerFit`, `CoefficientsAreDetermined`).

`ProvisioningProofs` proves, for any custodians, machines, programs, commands, rosters, fields and bounds, all invariants of the run `ceremony`:
first, of the key files alone, `KeyStoreTypeOK`, `FileIsReadable` and `PublishedIsKept`, for any machines, programs, names and passphrases and any
files to begin with that are sealed alike (`KeyStoreAssumption`). The file at any moment is the
copy of some program, so the inductive invariant `KeyStoreInv` speaks of the copies as well: each is sealed alike under the
salt and the passphrase of its program, holds what that program read or wrote and at most one entry more, and, unless the machine was
overtaken, what the program read is still on file. The test of one entry in `open` is enough exactly because the
file was sealed alike before; a program that found no file has a salt of its own and an empty copy. A step of `Provisioning` is one of
`KeyStore` or leaves its variables alone (`KeyFilesInvariant`), so this holds during a provisioning too.

Then `TypeOK`, `CardsAreOnRecord`, `SharesOpen`, `ReportedIsReleasable`, `IssuedIsStored` and `ThresholdIsExact`.
`ProvisioningAssumption` asks that custodians are finitely many and ordered, that a custodian enrolled at the start has that key on
file, that the threshold is at least 2, and that a roster names no candidate twice. None of the properties is inductive, because a command
acts on what it read or made several steps ago; these invariants say what it may have in hand.

* `ShapeInv`: the form of its state. It makes what an action does to a command a rewriting step (`BuildDoes`, ...).
* `KeysInv`: every key it has read or sealed to is none, a mistake, or one its custodian's machine has shown. What was shown
  stays shown (`HeldStays`), so that `SharesOpen` follows from `PublishedIsKept`.
* `AdmitInv`: each token of its roster is stored or still to be stored; seats in the table are unique.
* `BundleInv`: at most one command is at work on a bundle, the key on record is the one it made, what it made is a whole
  split (each custodian it read once, sealed to the key it read), what is stored of it is what it has not left to store,
  and no `SHARES_ISSUED` is in the log before the last of them is stored. A command that builds the answers has completed the paper.
  `OneBundle` shows that a step about one bundle leaves alone what is said of the other and of other commands.
* `SplitInv`: the shares of a bundle, stored or still to be stored, lie on one polynomial whose value at 0 is the byte of its key. With the
  theorems on Shamir's scheme, `ThresholdIsExact` follows.
* `Typed`: a share has a place in the field. A split for more custodians than the field has places is refused (`BuildRefused`), so this holds for
  any number of them.

That the split is whole rests on `RecipientsFacts`: the finite set of holders has exactly one increasing enumeration. It is
proved without induction, by the rank of each element: the map from a holder to the number of holders up to it is strictly
increasing, hence a bijection onto its length, and its inverse is the enumeration.

`ExamAuditProofs` proves, for any centres, cards, custodians, latecomers, threshold, earlier exams and bounds, the invariants `TypeOK`,
`AccusationsHaveCause` and `PassIsEarned` (`ExamAssumption`, `EarlierAssumption`). What the audit finds depends on which entries
there are and in what order, and neither property says enough of that to be inductive. `ShapeInv` has the rows, the calls and the form of
every entry. `EvidenceInv` adds what the logs are evidence of, row by row of the report:

* `EntriesGrounded`, `DelayedGrounded`: an entry of this exam, in a log or delayed, is that of a row or of a call which happened (`Ground`): a
  `KEK_RELEASED` of a call past its T-0, an `EARLY_RELEASE_ATTEMPT` of one before it, a `PAPER_GENERATED` of a card with a row in
  `papers` at the centre the card is for.
* `EarlierStays`: what the authority's log began with is still there, at its places; so a look-up by bundle finds this exam's entries only.
* `BundlesGrounded`, `CreatedOnce`: the entries about bundles and shares are those of `provision`, each bundle created once.
* `GeneratedOnce`: a card has one `PAPER_GENERATED`, in the log or delayed.
* `ClosingsCounted`: a centre's log has at most as many `EXAM_CLOSED` as it was closed, less the one delayed.
* `CallInv`: a release past its checks is a call past its T-0, and a card with a paper is at a centre with bundle and key.

Rows and calls only grow (`NextGrows`), so evidence stays evidence (`GroundStays`), and one more entry disturbs one type of one log
(`RecordedPlaces`). Then each row of the report has a lemma that derives the cause from its failure (`T2HasCause`, ...), and
`PassIsEarned` follows by reading the same facts the other way (`ReleaseIsEarned`, `PaperOfCard`). T10 compares the number of closings with that of
the centres: if one centre was never closed and none twice, the closings are fewer (`T10IsEarned`).

`AuditEvidenceProofs` proves what the audit takes for granted: for trees of every size; of anchors, for every range of
nonces, set of roots and TSAs and any clocks; of papers, for any number of words, any bank, blueprint and stream.

* *Definedness.* A recursive definition in TLA+ is a `CHOOSE`; that there is such a function has to be shown. `CompleteInduction` does it
  with sets: a property that passes from all smaller sizes to a size holds for every one, since otherwise a least exception exists
  (`WFMin`). `NodesAreDefined`, `SiblingsAreDefined` and `ComputedIsDefined` extend a function on the smaller sizes by one;
  `LoopIsDefined` does it for the loop of `largestPowerOfTwoBelow`.
* *The split.* `SplitIsRight`: `k` is a power of two with `k < n <= 2k`, so both parts are smaller and not empty.
* *Exactness.* `OnlyTheProofVerifies`: for any log, any index in range, any entry and any sequence of hashes, `VerifyInclusion` is true exactly
  if the entry is at the index and the sequence is `InclusionProof`. At a split, a hash of the node above determines both children
  (hashing is injective), so the sibling must be the last of the proof and the rest is the same claim for a smaller tree;
  `NodesTellTheFirst` and `EveryPathDiffers` show that in a log without repetitions two places never have the same proof. `ProofsAreExact(n)` for all `n`, and with it the property
  of the run for any `MaxTree`, are special cases.
* *Uniform draws.* `DrawingIsUniform`: for any `n` up to the number of words, any `k` up to `n` and streams of any length of at least `n`, each
  sequence of `k` out of `n` is what `sample` gives from equally many streams, and from one at least; likewise each order of `n` for `shuffle`. A sample is told
  by the numbers drawn and tells them (`SampleTellsNumbers`, `SampleReachesAll`; `ShuffleTellsNumbers`, `ShuffleReachesAll`), so the claim is one about
  numbers. Given two sequences of numbers, exchanging the remainders of the words that were taken, and leaving the rejected ones, makes of every stream
  that gives the first a stream that gives the second, and is undone by the exchange back (`Traded`, `TradedIsDrawn`): an accepted word is below a
  multiple of the bound, so any remainder can be put in its place, and the words taken stay the same (`UsesStay`).
* *Storage.* `StorageIsIrrelevant`: in a bank without double ids the ranks of the ids of a slot are 0, 1, ... (`ItemsHaveRanks`), and a
  permutation changes places but no ranks (`PoolsAreTheSame`).
* *Accepted banks.* `AcceptedBanksAreAssembled`: what `validateBank` accepts gives a paper without a double question (unless a slot is double), with the
  correct option exactly once in each printed order. `Papers` says of a paper in the making how much of the stream it has used and from which
  slots its questions are; each question, slot and the whole keep it up (`AddQuestionIs`, `AddSlotIs`, `AddSlotsIs`). A stream of the code does not end, one of the model
  does, so it is assumed to have as many words of the lower half as the paper can draw numbers: no draw rejects those (`LowerHalf`).
  `PapersAreFair` is an instance, for which `WordsSuffice` asks for three words; the code has 2^32.
* *Anchors.* A request is known by its imprint, its algorithm and its nonce below `HalfRange`. `AnswersMatch` and `StoredVerify` go through
  what `Anchored` compares; `AnchoringSuffices` shows that the TSAs of the stored anchors are exactly those that answered.

Only model-checked: both liveness properties, since fairness is beyond the prover, and the expected disagreements. Every other property of a passing
run is stated by a theorem. The induction theorems of the library take an operator as a parameter, which the provers cannot instantiate; where a loop is
reasoned about, `CompleteInduction` over a set of numbers takes their place, so nothing here rests on a bound of TLC's.

## 6. Disagreements between code and documents

With a run that ends in a counterexample:

1. `centre_rerun`: `runbooks/restore.md` and `runbooks/exam-day.md` say a rerun skips seats *already
   served*. It skips seats whose paper was *generated*, which a crash or an exhausted printer leaves unprinted.
2. `ca_issuer`: the comment on `rotateIntermediate` (`ca/src/ca.ts:332`) says certificates of the previous intermediate
   remain valid until they expire or are individually revoked. Their revocation is recorded, but
   `generateCrl` lists only what the active intermediate issued, so no later CRL carries it.
3. `provision_redo`: `runbooks/key-ceremony.md:137` and `:250` repeat the provisioning when a custodian cannot open
   his share. The PRIMARY KEY of `bundles` refuses the second bundle. The counterexample: an exam is
   provisioned with a mistyped key, the right key enrolled, the provisioning repeated; it reads the right key and is refused, and the
   share sealed to the mistyped key is still stored.
4. `audit_second`: `audit.ts:329` compares a disclosed paper with "what BUNDLE_CREATED committed to", but takes the first
   such entry of the log, whatever exam it is of. At the second exam of an authority the honest disclosure is
   called another one.

Seen while modelling, without a run of their own:

* `evidence()` reads entries and then checkpoints without a transaction, so a bundle of an honest log can hold a
  checkpoint newer than its entries; `verify.ts:175` calls that "entries covered by a published checkpoint have been
  removed". `OnlyOverrunOfHonestLog` shows that nothing else can be held against such a log.
* `receive-medium` prints "This centre can now generate papers" (`centre/src/cli.ts:224`); its process ends with the
  key, and `run-t0`, another process, finds none.
* `runbooks/exam-day.md:230` says the node cannot generate papers after closing. Nothing records the closing: with the wrapped
  key received again it can. Closing twice gives two `EXAM_CLOSED` entries, and the audit (T10) compares their number with
  that of the centres: it accuses an exam closed twice, and one closed twice hides one that was not closed.
* The comment on `rotate` (`ca/src/ca.ts:307`) says "Both steps happen or neither does". The replacement is
  persisted by `issue` and the revocation by `revoke`; a command that ends between the two leaves the
  identity two live certificates.
* When the append of `KEK_RELEASED` is lost, T2 and T9 have nothing to look at and pass.
* The header of `audit.ts` (17-22) says that without a list of trusted signers the affected rows are downgraded; T6 still
  passes, with a warning in its text (112-119).
* `bank.ts:93` calls a pool equal to the slot's size unacceptable ("with margin"); `:103` accepts it. Two slots of one subject
  and difficulty are drawn independently, so that a question can come twice.
* Login to a token is the process's, not the session's (comment at `kms-pkcs11/src/session.ts:134`), yet `close()` of one
  session logs out (`:212`), and with it the others.
* `anchorToAll` is called by nothing in the product (only by `deploy/pilot/pilot.mjs:450`), and nothing passes `centreIds` to a
  release.
* A check-in stored whose append fails is refused as a duplicate from then on. The synchronisation loop does not stop when
  the append of `KEK_RECEIVED` fails.
* `runbooks/incident-response.md` calls `rotate-intermediate` without the `--root-key` it requires. The CRL counter is
  stored but never put into a CRL.

## 7. What is not modelled

* Cryptography is ideal: hashes do not collide, signatures are not forged, boxes open
  only with their key.
* Tampering with databases, and hence the checks that only matter then (the schedule's
  signature in `performRelease`, most findings of the verifier).
* HTTP, TLS, ASN.1, JSON and PDF encodings; logging and metrics; the polling inside one print job.
* Rendering, QR codes and evidence files, which are layout and encoding; `ops`, which changes nothing the system
  reads back; the order of a shutdown, which ends a process, as every module allows at any point.
* PKCS#11, its sessions and its seed store: what a native library does after `C_Initialize` and `C_Finalize` is not in the repository.
* Of the audit: T6, whose checks are `LogVerify`'s and are checked on the log itself; T8, a search for names; the texts of the report; lists of trusted
  signers; a comparison of two bundles of one log.
* Of provisioning: the parsing of banks and rosters, the QR form of a token, and its expiry.
* Of the certificate authority: PEM and chains, key usages, expiry of certificates, the pinning of roles and fingerprints
  (`checkPeerCertificate` beyond the CRL), and a `--root-key` that is not the root's.

## 8. Plan

Done: every component of section 1 that has a state or a computation is modelled and checked, and has its invariants proved. What could come next:

1. The refinements that have no abstract specification yet: provisioning hands `ThresholdRelease` its initial state, and both hand
   `CentreNode` the key.
2. An abstract certificate authority (a set of valid certificates) for `CertificateAuthority` to implement as long as no command overwrites what it has not read.
3. The rest of the verifier: the comparison of two bundles of one log, and lists of trusted signers.
