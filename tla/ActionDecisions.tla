-------------------------- MODULE ActionDecisions --------------------------
(***************************************************************************)
(* Evaluation of an application action (action_decisions.py): the rules of *)
(* a policy one after another against request, evidence and authority      *)
(* context, the decision, and the receipt with its digest.                 *)
(*                                                                         *)
(* The same policy is evaluated twice, once with some of the facts left    *)
(* out, so that the two decisions can be compared.                         *)
(***************************************************************************)
EXTENDS Naturals, Sequences

CONSTANTS
    Policies,    \* policies as sequences of rules
    Facts        \* what the three documents say: values by their dotted paths

Runs == {"full", "less"}

\* A JSON value: a number, a text (n letters of a kind), a list, with what it holds as
\* pairs of kind and n, or None.
Nothing == [kind |-> "none", n |-> 0, of |-> {}]

VARIABLES policy, facts, at, failed, status, receipt

vars == <<policy, facts, at, failed, status, receipt>>

\* validate_expected: something to compare with, from one place.  A path can be given
\* that is empty, and is a place as far as the validation goes.
ValidRule(rule) ==
    rule.operator = "exists" \/ (rule.expected = Nothing <=> rule.path_given)

\* _get_path: None for whatever is missing.  A path begins with the name of its document
\* and ends at one of the values of Facts.
GetPath(f, path) == IF path \in DOMAIN f THEN f[path] ELSE Nothing

Holds(n, m, operator) ==
    CASE operator = "lt"  -> n < m
      [] operator = "lte" -> n <= m
      [] operator = "gt"  -> n > m
      [] operator = "gte" -> n >= m

\* Mutant of Ordered: what is missing counts as 0.
Ordered_Missing(actual, expected, operator) ==
    /\ actual.kind \in {expected.kind, "none"} /\ expected.kind \in {"num", "text"}
    /\ Holds(actual.n, expected.n, operator)

\* None, and values that cannot be ordered, fail.  (Two lists, which Python orders item
\* by item, are left out.)
Ordered(actual, expected, operator) ==
    /\ actual.kind = expected.kind /\ actual.kind \in {"num", "text"}
    /\ Holds(actual.n, expected.n, operator)

\* `actual in expected`, where expected is a list or a text.
Member(actual, expected) ==
    IF expected.kind = "list" THEN <<actual.kind, actual.n>> \in expected.of
    ELSE actual.n <= expected.n

\* Asking whether something that is not a text is in a text raises a TypeError.
Raises(actual, expected, operator) ==
    operator \in {"in", "not_in"} /\ expected.kind = "text" /\ actual.kind # "text"

Compare(actual, expected, operator) ==
    CASE operator = "exists" -> actual # Nothing
      [] operator = "eq"     -> actual = expected
      [] operator = "neq"    -> actual # expected
      [] operator = "in"     -> expected.kind \in {"list", "text"} /\ Member(actual, expected)
      [] operator = "not_in" -> expected.kind \in {"list", "text"} /\ ~ Member(actual, expected)
      [] OTHER               -> Ordered(actual, expected, operator)

Actual(f, rule) == GetPath(f, rule.path)

\* An empty path is as good as none, here.
Expected(f, rule) == IF rule.path_given /\ rule.expected_path # "" THEN GetPath(f, rule.expected_path) ELSE rule.expected

-----------------------------------------------------------------------------

\* One rule.
Evaluate(r) ==
    /\ status[r] = "evaluating"
    /\ at[r] <= Len(policy)
    /\ LET rule == policy[at[r]]
           actual == Actual(facts[r], rule)
           expected == Expected(facts[r], rule)
       IN  IF Raises(actual, expected, rule.operator)
           THEN /\ status' = [status EXCEPT ![r] = "raised"]
                /\ UNCHANGED failed
           ELSE /\ failed' = IF Compare(actual, expected, rule.operator) THEN failed
                             ELSE [failed EXCEPT ![r][rule.on_fail] = @ \cup {rule.reason_code}]
                /\ UNCHANGED status
    /\ at' = [at EXCEPT ![r] = @ + 1]
    /\ UNCHANGED <<policy, facts, receipt>>

\* Mutant of Decision: what can be deferred is not denied.
Decision_Defer(r) ==
    IF failed[r]["defer"] # {} THEN "defer" ELSE IF failed[r]["deny"] # {} THEN "deny" ELSE "permit"

Decision(r) ==
    IF failed[r]["deny"] # {} THEN "deny" ELSE IF failed[r]["defer"] # {} THEN "defer" ELSE "permit"

Passed == "all_applicable_rules_passed"
Reasons(r) == IF Decision(r) = "permit" THEN {Passed} ELSE failed[r]["deny"] \cup failed[r]["defer"]

\* The seed of receipt_id; digests stand for what they are of.
Seed(rc) == [decision |-> rc.decision, reasons |-> rc.reasons, policy |-> rc.policy, facts |-> rc.facts]

Decide(r) ==
    /\ status[r] = "evaluating"
    /\ at[r] > Len(policy)
    /\ status' = [status EXCEPT ![r] = Decision(r)]
    /\ LET seed == [decision |-> Decision(r), reasons |-> Reasons(r), policy |-> policy, facts |-> facts[r]]
       IN  receipt' = [receipt EXCEPT ![r] = {[decision |-> seed.decision, reasons |-> seed.reasons,
                                               policy |-> seed.policy, facts |-> seed.facts,
                                               receipt_id |-> Seed(seed)]}]
    /\ UNCHANGED <<policy, facts, at, failed>>

\* A receipt is changed where it is kept.
Edit(r) ==
    \E rc \in receipt[r] :
        /\ rc.receipt_id = Seed(rc)
        /\ \/ \E decision \in {"permit", "deny", "defer"} :
                 receipt' = [receipt EXCEPT ![r] = {[rc EXCEPT !.decision = decision]}]
           \/ receipt' = [receipt EXCEPT ![r] = {[rc EXCEPT !.reasons = {Passed}]}]
           \/ receipt' = [receipt EXCEPT ![r] = {[rc EXCEPT !.facts = facts["full"]]}]
        /\ UNCHANGED <<policy, facts, at, failed, status>>

\* verify_action_receipt.
Verifies(rc) == rc.receipt_id = Seed(rc)

Init ==
    /\ policy \in {p \in Policies : \A i \in DOMAIN p : ValidRule(p[i])}
    /\ \E f \in Facts : \E kept \in SUBSET DOMAIN f :
          facts = [r \in Runs |-> IF r = "full" THEN f ELSE [path \in kept |-> f[path]]]
    /\ at = [r \in Runs |-> 1]
    /\ failed = [r \in Runs |-> [d \in {"deny", "defer"} |-> {}]]
    /\ status = [r \in Runs |-> "evaluating"]
    /\ receipt = [r \in Runs |-> {}]

Next == \E r \in Runs : Evaluate(r) \/ Decide(r) \/ Edit(r)

Spec == Init /\ [][Next]_vars

-----------------------------------------------------------------------------
(* Properties *)

\* The rules of a policy that fail on the facts.
Failing(p, f, d) ==
    {p[i].reason_code : i \in {i \in DOMAIN p : /\ p[i].on_fail = d
                                                /\ ~ Compare(Actual(f, p[i]), Expected(f, p[i]), p[i].operator)}}

\* A receipt that verifies tells the truth of the documents it names: it denies exactly
\* when a rule fails that denies, wherever it stands, permits exactly when none fails,
\* and gives the reason of every rule that fails.
VerifiedReceiptIsTrue ==
    \A r \in Runs : \A rc \in receipt[r] : Verifies(rc) =>
        LET deny == Failing(rc.policy, rc.facts, "deny")
            defer == Failing(rc.policy, rc.facts, "defer")
        IN  /\ rc.decision = "deny" <=> deny # {}
            /\ rc.decision = "permit" <=> deny \cup defer = {}
            /\ deny \cup defer # {} => rc.reasons = deny \cup defer

\* What can hold because a fact is missing: a rule that says what must not be there (neq,
\* not_in), one for equality with a value looked up elsewhere, which two missing values
\* have, or with nothing at all, which an empty path stands for, and one for a list with a
\* None in it.
AbsenceCanPass(rule) ==
    \/ rule.operator \in {"neq", "not_in"}
    \/ rule.operator = "eq" /\ rule.path_given
    \/ rule.operator = "in" /\ LET expected == Expected(facts["full"], rule)
                              IN  expected.kind = "list" /\ <<"none", 0>> \in expected.of

\* Leaving facts out never makes an action permitted, as long as the policy has no rule
\* that can hold because a fact is missing.
MissingNeverPermits ==
    (\A i \in DOMAIN policy : ~ AbsenceCanPass(policy[i]))
    => (status["less"] = "permit" => status["full"] \in {"permit", "evaluating"})
=============================================================================
