----------------------------- MODULE LogVerify -----------------------------
(***************************************************************************)
(* The commitments a log is built from and the checks an auditor runs on   *)
(* an exported one: log/src/store.ts (entry hash, self checks) and         *)
(* log/src/verify.ts (verifyChain, verifyCheckpoints).                     *)
(*                                                                         *)
(* Hashes are collision free, so a hash is modelled by what it commits to: *)
(* the hash of an entry is the hash before it extended by the entry's      *)
(* sequence number and event, and a Merkle root is the list of its leaves. *)
(* A signature is the key that made it and the commitment it is over.      *)
(* Timestamps, and the warnings about them, are left out.                  *)
(***************************************************************************)
EXTENDS Integers, Sequences

ZeroHash == <<>>

HashOf(seq, event, prev) == Append(prev, <<seq, event>>)

MerkleRoot(hashes) == hashes

Sign(key, commitment) == [key |-> key, over |-> commitment]

\* verifyEntrySelf: the stored hash and the signature are those of the body.
EntrySelfOk(e) ==
  LET expected == HashOf(e.seq, e.event, e.prev)
  IN  /\ e.hash = expected
      /\ e.sig = Sign(e.signer, expected)

\* verifyCheckpointSelf: the signature is over the stored size, root and head.
CheckpointSelfOk(c) == c.sig = Sign(c.signer, <<c.size, c.root, c.head>>)

Raise(code, condition) == IF condition THEN {code} ELSE {}

(***************************************************************************)
(* The codes of the fatal findings verifyChain reports for a sequence of   *)
(* entries, trusted being the one key pinned for the log's actor.          *)
(***************************************************************************)
ChainFindings(es, trusted) ==
  UNION {
    Raise("SEQ_DISCONTINUITY",  \E i \in DOMAIN es : es[i].seq # i - 1),
    Raise("ENTRY_INVALID",      \E i \in DOMAIN es : ~EntrySelfOk(es[i])),
    Raise("CHAIN_ROOT_INVALID", \E i \in DOMAIN es : i = 1 /\ es[i].prev # ZeroHash),
    Raise("CHAIN_BROKEN",
          \E i \in DOMAIN es : i > 1 /\ es[i].prev # es[i - 1].hash),
    Raise("SIGNER_UNTRUSTED",   \E i \in DOMAIN es : es[i].signer # trusted) }

\* Mutant: the slice stops one entry short.
ShortRootOf(es, n) == MerkleRoot([i \in 1..(n - 1) |-> es[i].hash])

\* The root of the first n entries.
RootOf(es, n) == MerkleRoot([i \in 1..n |-> es[i].hash])

(***************************************************************************)
(* The codes of the fatal findings verifyCheckpoints reports for a set of  *)
(* checkpoints against the entries they claim to cover.  A checkpoint that *)
(* fails its self check, and then one that overruns the entries, is not    *)
(* examined any further.                                                   *)
(***************************************************************************)
CheckpointFindings(es, cps, trusted) ==
  LET sound   == {c \in cps : CheckpointSelfOk(c)}
      covered == {c \in sound : c.size <= Len(es)}
  IN  UNION {
        Raise("CHECKPOINT_INVALID", sound # cps),
        Raise("CHECKPOINT_OVERRUN", covered # sound),
        Raise("CHECKPOINT_ROOT_MISMATCH",
              \E c \in covered : c.root # RootOf(es, c.size)),
        Raise("CHECKPOINT_HEAD_MISMATCH",
              \E c \in covered : c.size > 0 /\ c.head # es[c.size].hash),
        Raise("CHECKPOINT_SIGNER_UNTRUSTED",
              \E c \in covered : c.signer # trusted),
        Raise("CHECKPOINT_FORK",
              \E c, d \in cps : c.size = d.size /\ c.root # d.root) }

\* verifyEvidence, without anchors: every fatal finding of a bundle.
EvidenceFindings(es, cps, trusted) ==
  ChainFindings(es, trusted) \union CheckpointFindings(es, cps, trusted)

=============================================================================
