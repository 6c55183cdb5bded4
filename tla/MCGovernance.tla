---------------------------- MODULE MCGovernance ----------------------------
(***************************************************************************)
(* Instances for TLC of the four programs of Governance.  Each behaviour   *)
(* is one of them, and the others never begin.                             *)
(***************************************************************************)
EXTENDS Governance, TLC

CONSTANTS k1, k2, o1, o2

\* Which of the four it is.
VARIABLE turn

-----------------------------------------------------------------------------
(* Norm files of up to two norms, which agree, contradict, or lack one another *)

Val(kind, n) == [kind |-> kind, n |-> n]
R(key, kind, n) == [key |-> key, value |-> Val(kind, n)]
N(id, says) == [id |-> id, category |-> "governance", rules |-> says]

MCNorms == {
    N("a", <<R("quarantine_external_bundles", "bool", 1)>>),
    N("a", <<R("quarantine_external_bundles", "int", 1)>>),
    N("a", <<R("quarantine_external_bundles", "bool", 0)>>),
    N("b", <<R("quarantine_external_bundles", "word", 0)>>),
    N("b", <<R("policy_signature_threshold_m", "int", 2)>>),
    N("c", <<R("require_policy_signature", "bool", 1), R("policy_signature_threshold_m", "text", 2)>>),
    N("c", <<R("require_policy_signature", "int", 1), R("policy_signature_threshold_m", "int", 2)>>),
    N("d", <<R("require_trusted_manifest_signer", "bool", 1), R("trust_anchor_allowlist", "list", 1)>>),
    N("e", <<R("require_manifest_signature", "bool", 1), R("review_min_approvals", "int", 0)>>),
    N("e", <<R("require_manifest_signature", "bool", 1), R("review_min_approvals", "bool", 1)>>),
    N("f", <<R("another_template", "bool", 1)>>)}

MCFiles == {<<>>, Starter} \cup {<<x>> : x \in MCNorms} \cup {<<x, y>> : x, y \in MCNorms}
           \cup {<<Starter[p[1]], Starter[p[2]], Starter[p[3]]>> : p \in {<<1, 3, 2>>, <<2, 3, 1>>, <<3, 2, 1>>}}

-----------------------------------------------------------------------------
(* Action policies of up to two rules, and facts *)

Missing == [kind |-> "none", n |-> 0, of |-> {}]
Num(n) == [kind |-> "num", n |-> n, of |-> {}]
Text(n) == [kind |-> "text", n |-> n, of |-> {}]
List(s) == [kind |-> "list", n |-> 0, of |-> s]
Nums(s) == {<<"num", n>> : n \in s}
Lit(path, op, expected, on_fail) ==
    [path |-> path, operator |-> op, expected |-> expected, expected_path |-> "", path_given |-> FALSE,
     on_fail |-> on_fail, reason_code |-> op]
Cmp(path, op, expected_path, on_fail) ==
    [path |-> path, operator |-> op, expected |-> Missing, expected_path |-> expected_path, path_given |-> TRUE,
     on_fail |-> on_fail, reason_code |-> op]

MCRules == {
    Lit("evidence.price", "lte", Num(1), "deny"),
    Lit("evidence.price", "in", List(Nums({0, 1})), "defer"),
    Lit("evidence.price", "in", List(Nums({0}) \cup {<<"none", 0>>}), "deny"),
    Lit("evidence.price", "not_in", List(Nums({0, 1})), "deny"),
    Lit("evidence.place", "in", Text(2), "deny"),
    Lit("evidence.place", "gt", Text(1), "defer"),
    Lit("evidence.place", "neq", Text(1), "defer"),
    Lit("request.limit", "exists", Missing, "deny"),
    Lit("request.limit", "in", Text(1), "defer"),
    Cmp("evidence.price", "lt", "request.limit", "defer"),
    Cmp("evidence.price", "eq", "request.limit", "deny"),
    Cmp("request.limit", "eq", "", "deny"),
    Cmp("request.limit", "gte", "", "deny"),
    Lit("request.limit", "gte", Missing, "deny")}

MCPolicies == {<<>>} \cup {<<x>> : x \in MCRules} \cup {<<x, y>> : x, y \in MCRules}
MCFacts == {[path \in {"evidence.price", "evidence.place", "request.limit"} |->
                CASE path = "evidence.price" -> Num(price)
                  [] path = "evidence.place" -> Text(place)
                  [] OTHER                   -> Num(limit)] : price, limit \in 0..2, place \in 1..2}

NoDecisions ==
    /\ rules = <<>>
    /\ facts = [r \in A!Runs |-> [path \in {} |-> Missing]]
    /\ next = [r \in A!Runs |-> 1]
    /\ failed = [r \in A!Runs |-> [d \in {"deny", "defer"} |-> {}]]
    /\ decided = [r \in A!Runs |-> "evaluating"]
    /\ receipt = [r \in A!Runs |-> {}]

NoNorms ==
    /\ file = [s \in Sides |-> <<>>]
    /\ status = [s \in Sides |-> "unread"]
    /\ at = [s \in Sides |-> [norm |-> 1, rule |-> 1]]
    /\ byRule = [s \in Sides |-> [k \in {} |-> 0]]
    /\ policy = [s \in Sides |-> Base]

-----------------------------------------------------------------------------
(* Anchors and evidence *)

MCKeys == {k1, k2}
MCOperators == {o1, o2}

NoEvidence == E!Init /\ source = [s \in MCKeys |-> 0]

-----------------------------------------------------------------------------

MCSymmetry == Permutations(MCKeys) \cup Permutations(MCOperators)

GovernanceInit ==
    \/ turn = "norms" /\ Init /\ NoDecisions /\ T!Init /\ NoEvidence
    \/ turn = "actions" /\ NoNorms /\ A!Init /\ T!Init /\ NoEvidence
    \/ turn = "anchors" /\ NoNorms /\ NoDecisions /\ T!Init /\ NoEvidence
    \/ turn = "evidence" /\ NoNorms /\ NoDecisions /\ T!Init /\ E!Init

GovernanceNext ==
    /\ UNCHANGED turn
    /\ \/ turn = "norms" /\ Next /\ UNCHANGED <<actionVars, anchorVars, evidenceVars>>
       \/ turn = "actions" /\ A!Next /\ UNCHANGED <<vars, anchorVars, evidenceVars>>
       \/ turn = "anchors" /\ T!Next /\ UNCHANGED <<vars, actionVars, evidenceVars>>
       \/ turn = "evidence" /\ E!Next /\ UNCHANGED <<vars, actionVars, anchorVars>>

GovernanceSpec == GovernanceInit /\ [][GovernanceNext]_<<vars, turn, actionVars, anchorVars, evidenceVars>>
=============================================================================
