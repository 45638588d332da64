---------------------------- MODULE MCExamAudit ----------------------------
(***************************************************************************)
(* An exam of two centres, with one candidate each, for TLC; and, with it, *)
(* the computations that the audit rests on over small inputs              *)
(* (AuditEvidence).                                                        *)
(***************************************************************************)
EXTENDS AuditEvidence, TLC

CONSTANTS c1, c2, k1, k2, k3

MCCentres  == {c1, c2}
MCCards    == MCCentres \X {1}
MCCentreOf == [card \in MCCards |-> card[1]]
MCSeatOf   == [card \in MCCards |-> "A-01"]

NothingEarlier == [t \in Types |-> <<>>]

\* The authority's log after an exam of which all is well.
AnotherExam ==
  [NothingEarlier EXCEPT
     !["BUNDLE_CREATED"] = <<Created("last year", "paper", "old"),
                             Created("last year", "answers", "old key")>>,
     !["SHARES_ISSUED"]  = <<Issued("last year", "paper"), Issued("last year", "answers")>>,
     !["RELEASE_SCHEDULED"] = <<[bundle |-> BundleId("last year", "paper"), at |-> 2],
                                [bundle |-> BundleId("last year", "paper"), at |-> 1]>>,
     !["KEK_RELEASED"]   = <<[bundle |-> BundleId("last year", "paper"), at |-> 1,
                              threshold |-> 2, custodians |-> Custodians]>>]

Symmetric == Permutations({c1, c2}) \union Permutations({k1, k2})

=============================================================================
