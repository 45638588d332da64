----------------------------- MODULE TimeStamp -----------------------------
(***************************************************************************)
(* Anchoring of a checkpoint's root at time-stamping authorities and the   *)
(* checks on what is stored: log/src/rfc3161.ts, log/src/anchor.ts, and    *)
(* verifyAnchors of log/src/verify.ts.                                     *)
(*                                                                         *)
(* A digest is its algorithm and what it is taken over; the CMS signature  *)
(* over a token is whether it verifies.  DER, HTTP and the fields that     *)
(* nobody compares (policy, serial number, accuracy) are left out: an      *)
(* answer that cannot be parsed is like one that never comes.  Times are   *)
(* in seconds.                                                             *)
(***************************************************************************)
EXTENDS Integers, FiniteSets

CONSTANT HalfRange  \* drawn nonces are below 2 * HalfRange; the code's is 2^63

ASSUME HalfRangeAssumption == HalfRange \in Nat \ {0}

Algorithms == {"sha256", "sha512"}

Digest(alg, root) == <<alg, root>>

Refused == [backend |-> "none"]
NoToken == [signed |-> FALSE]
NoReply == [status |-> 2, token |-> NoToken]

\* Mutant: what is remembered still has the top bit of the nonce.
RequestAsDrawn(imprint, alg, drawn) ==
  [sent |-> [imprint |-> imprint, alg |-> alg, nonce |-> drawn % HalfRange], nonce |-> drawn]

\* The top bit is cleared in what is sent and in what is remembered.
BuildTimeStampRequest(imprint, alg, drawn) ==
  [sent  |-> [imprint |-> imprint, alg |-> alg, nonce |-> drawn % HalfRange],
   nonce |-> drawn % HalfRange]

\* 0 is granted, 1 is granted with modifications.
Granted(reply) == reply.status \in {0, 1} /\ reply.token # NoToken

Binds(token, imprint, alg) == token.alg = alg /\ token.imprint = imprint

\* Leading zeros are dropped on both sides, so that an absent nonce is a zero.
Absent == -1
Echoes(token, nonce) == (IF token.nonce = Absent THEN 0 ELSE token.nonce) = nonce

\* Rfc3161AnchorBackend.anchor: what is stored of a TSA's reply to a request.
Anchored(tsa, alg, root, request, reply) ==
  IF /\ Granted(reply)
     /\ reply.token.signed
     /\ Binds(reply.token, Digest(alg, root), alg)
     /\ Echoes(reply.token, request.nonce)
    THEN [backend |-> "rfc3161", tsa |-> tsa, root |-> root, alg |-> alg,
          token |-> reply.token, genTime |-> reply.token.genTime]
    ELSE Refused

\* Rfc3161AnchorBackend.verify: with the algorithm on record, not the backend's.
Verifies(anchor, root) ==
  /\ anchor.backend = "rfc3161"
  /\ anchor.root = root
  /\ anchor.token.signed
  /\ Binds(anchor.token, Digest(anchor.alg, root), anchor.alg)
  /\ anchor.token.genTime = anchor.genTime

\* verifyAnchors, for one anchor of a checkpoint [root, ts].
FindingOn(anchor, cp, backends) ==
  LET skew == anchor.genTime - cp.ts
  IN IF anchor.tsa \notin backends        THEN "ANCHOR_BACKEND_UNAVAILABLE"
     ELSE IF ~Verifies(anchor, cp.root)   THEN "ANCHOR_INVALID"
     ELSE IF skew < -60                   THEN "ANCHOR_PREDATES_CHECKPOINT"
     ELSE IF skew > 24 * 60 * 60          THEN "ANCHOR_LATE"
     ELSE "none"

\* anchorToAll: all outcomes are awaited; too few successes fail the whole.
AnchorToAll(outcomes, minRequired) ==
  LET succeeded == {i \in DOMAIN outcomes : outcomes[i] # Refused}
  IN IF Cardinality(succeeded) < minRequired
       THEN [ok |-> FALSE, anchors |-> {}]
       ELSE [ok |-> TRUE, anchors |-> {outcomes[i] : i \in succeeded}]

\* The T5 row of the audit, for the anchors of a log's last checkpoint.
AnchoringMeets(anchors, minAnchors) ==
  Cardinality({a.tsa : a \in anchors}) >= minAnchors

-----------------------------------------------------------------------------
\* A TSA that follows RFC 3161 answers what was sent.
Reply(sent, at) ==
  [status |-> 0,
   token  |-> [alg |-> sent.alg, imprint |-> sent.imprint, nonce |-> sent.nonce,
               genTime |-> at, signed |-> TRUE]]

Requests(roots) ==
  {[alg |-> alg, root |-> root, drawn |-> drawn] :
     alg \in Algorithms, root \in roots, drawn \in 0..(2 * HalfRange - 1)}

Built(r) == BuildTimeStampRequest(Digest(r.alg, r.root), r.alg, r.drawn)

(* The answer to one request is taken for another's exactly when the two   *)
(* were the same on the wire; nothing but a TSA's answer is taken.         *)
AnswersAreMatched(roots) ==
  \A asked, answered \in Requests(roots) :
    LET reply == Reply(Built(answered).sent, 0)
        Taken(with) == Anchored("tsa", asked.alg, asked.root, Built(asked), with) # Refused
    IN /\ Taken(reply) <=> Built(asked).sent = Built(answered).sent
       /\ ~Taken(NoReply)
       /\ ~Taken([reply EXCEPT !.status = 2])
       /\ ~Taken([reply EXCEPT !.token.signed = FALSE])

StoredAnchors(roots, times) ==
  {Anchored("tsa", r.alg, r.root, Built(r), Reply(Built(r).sent, at)) :
     r \in Requests(roots), at \in times}

(* What was stored verifies for its root, and ceases to when the root, the *)
(* algorithm, the time or the token on record is replaced by another's.    *)
StoredAnchorsVerify(roots, times) ==
  \A a, b \in StoredAnchors(roots, times) :
    /\ Verifies(a, a.root)
    /\ \A root \in roots \ {a.root} : ~Verifies(a, root)
    /\ a.root # b.root => ~Verifies([a EXCEPT !.root = b.root], b.root)
    /\ a.alg # b.alg => ~Verifies([a EXCEPT !.alg = b.alg], a.root)
    /\ a.genTime # b.genTime => ~Verifies([a EXCEPT !.genTime = b.genTime], a.root)
    /\ Verifies([a EXCEPT !.token = b.token], a.root) =>
         b.root = a.root /\ b.genTime = a.genTime

\* What anchor returns of each TSA, the first request drawn being sent to all.
Outcomes(tsas, answering, root, times) ==
  LET request == Built([alg |-> "sha256", root |-> root, drawn |-> 1])
  IN [tsa \in tsas |-> Anchored(tsa, "sha256", root, request,
        IF tsa \in answering THEN Reply(request.sent, times[tsa]) ELSE NoReply)]

(* When anchoring succeeds, the audit of the checkpoint finds as many TSAs *)
(* as were required, and no fault but of their clocks; when it fails, too  *)
(* few answered.                                                           *)
IsEnough(tsas, answering, root, ts, skew, min) ==
  LET times  == [tsa \in tsas |-> ts + skew[tsa]]
      result == AnchorToAll(Outcomes(tsas, answering, root, times), min)
      cp     == [root |-> root, ts |-> ts]
  IN /\ result.ok <=> Cardinality(answering) >= min
     /\ result.ok =>
          /\ AnchoringMeets(result.anchors, min)
          /\ \A a \in result.anchors :
               /\ FindingOn(a, cp, tsas) \in {"none", "ANCHOR_LATE", "ANCHOR_PREDATES_CHECKPOINT"}
               /\ FindingOn(a, cp, tsas) = "none" <=> skew[a.tsa] >= -60 /\ skew[a.tsa] <= 24 * 60 * 60

AnchoringIsEnough(tsas, roots, ts, skews) ==
  \A root \in roots, answering \in SUBSET tsas, skew \in [tsas -> skews], min \in 1..Cardinality(tsas) :
    IsEnough(tsas, answering, root, ts, skew, min)

=============================================================================
