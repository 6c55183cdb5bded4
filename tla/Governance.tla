----------------------------- MODULE Governance -----------------------------
(***************************************************************************)
(* The four programs that work on files of their own and share nothing:    *)
(* the norm compiler (Norms), action decisions, the trust anchors of a     *)
(* village, an evidence bundle.                                            *)
(***************************************************************************)
EXTENDS Norms

CONSTANTS
    Policies, Facts,                               \* of ActionDecisions
    Keys, Operators, MaxEntries, MaxInspections,
    MaxTime, NoAnchor,                             \* of TrustAnchors
    Sources, Builders, MaxVersion, MaxBuilds       \* of EvidenceBundle

\* The rules of a policy are a list, and a rule that fails denies or defers.
ASSUME PoliciesAssumption ==
    \A p \in Policies : /\ Len(p) \in Nat /\ DOMAIN p = 1..Len(p)
                        /\ \A i \in DOMAIN p : p[i].on_fail \in {"deny", "defer"}

VARIABLES rules, facts, next, failed, decided, receipt
A == INSTANCE ActionDecisions WITH policy <- rules, at <- next, status <- decided
actionVars == <<rules, facts, next, failed, decided, receipt>>

VARIABLES files, whole, rewritten, operator, entries, inspections, time
T == INSTANCE TrustAnchors WITH job <- operator
anchorVars == <<files, whole, rewritten, operator, entries, inspections, time>>

VARIABLES source, copy, manifest, digest, builder, builds, touched
E == INSTANCE EvidenceBundle WITH job <- builder
evidenceVars == <<source, copy, manifest, digest, builder, builds, touched>>

\* The clock counts, and the answer "no active anchor" is no anchor.
ASSUME AnchorsAssumption == MaxTime \in Nat /\ NoAnchor \notin T!Entry

\* The properties of the three that are instances; those of Norms are in Norms.
VerifiedReceiptIsTrue == A!VerifiedReceiptIsTrue
MissingNeverPermits == A!MissingNeverPermits
InspectionIsRight == T!InspectionIsRight
BuiltAloneVerifies == E!BuiltAloneVerifies
=============================================================================
