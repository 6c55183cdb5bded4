------------------------------- MODULE Norms -------------------------------
(***************************************************************************)
(* The norm compiler (norms.py): norm files are validated, compiled rule   *)
(* by rule into a policy, and compared.                                    *)
(*                                                                         *)
(* A value is a JSON value with what Python makes of it: a number, a       *)
(* truth value, the text of a number, another word, or a list of anchors.  *)
(* Of a policy only the fields are kept that a rule can set, each under    *)
(* the key of its rule and as a number: a flag is 0 or 1, the allowlist is *)
(* named by the list that gave it.                                         *)
(***************************************************************************)
EXTENDS Naturals, Sequences

CONSTANTS
    Files            \* norm sets, as the sequences of their norms

Sides == {"old", "new"}

Flags == {"quarantine_external_bundles", "require_policy_signature", "enable_transparency_checkpoints",
          "require_manifest_signature", "require_trusted_manifest_signer"}
Counts == {"review_min_approvals", "policy_signature_threshold_m"}
Allowlist == "trust_anchor_allowlist"
Templates == Flags \cup Counts \cup {Allowlist}
Categories == {"intake", "review", "governance", "trust", "transparency"}

Value == [kind : {"bool", "int", "text", "word", "list"}, n : Nat]
Rule == [key : STRING, value : Value]
Norm == [id : STRING, category : STRING, rules : Seq(Rule)]

ASSUME FilesAssumption == Files \subseteq Seq(Norm)

VARIABLES
    file,      \* the norm set on either side
    status,    \* of its compilation
    at,        \* the norm and the rule that are next
    byRule,    \* compiled_by_rule
    policy     \* the policy that is being made

vars == <<file, status, at, byRule, policy>>

\* validate_norm: what it knows.
Valid(f) == \A i \in DOMAIN f : /\ f[i].category \in Categories
                                /\ \A j \in DOMAIN f[i].rules : f[i].rules[j].key \in Templates

\* Two values that Python takes for equal: True is 1, "2" is not 2.
Equal(v, w) == \/ v = w
               \/ v.kind \in {"bool", "int"} /\ w.kind \in {"bool", "int"} /\ v.n = w.n

\* bool(value): every text that is not empty is true, "0" and "false" too.
Truthy(v) == v.kind \in {"text", "word"} \/ v.n > 0

\* int(value) raises for words and lists; a count of 0 and an allowlist that is no list
\* are refused.
Convertible(key, v) ==
    /\ key \in Counts => v.kind \in {"bool", "int", "text"} /\ v.n >= 1
    /\ key = Allowlist => v.kind = "list"

\* The field that a rule sets.
Field(key, v) == IF key \in Flags THEN (IF Truthy(v) THEN 1 ELSE 0) ELSE v.n

\* _base_policy.
Base == [key \in Templates |-> IF key \in Counts THEN 1 ELSE 0]

\* The checks that concern two fields.
Consistent(p) ==
    /\ p["policy_signature_threshold_m"] > 1 => p["require_policy_signature"] = 1
    /\ p["require_trusted_manifest_signer"] = 1 => p["require_manifest_signature"] = 1

-----------------------------------------------------------------------------

\* Mutant of Clashes: the last rule of a key wins.
Clashes_Never(s, rule) == FALSE

\* A rule of the same key came before, with another value.
Clashes(s, rule) == rule.key \in DOMAIN byRule[s] /\ ~ Equal(byRule[s][rule.key], rule.value)

\* validate_norm_file and the start of compile_norm_set: of the old file, then of the new.
Validate(s) ==
    /\ status[s] = "unread"
    /\ s = "new" => status["old"] \in {"invalid", "refused", "compiled"}
    /\ status' = [status EXCEPT ![s] = IF Valid(file[s]) THEN "compiling" ELSE "invalid"]
    /\ UNCHANGED <<file, at, byRule, policy>>

\* The next rule.
Compile(s) ==
    /\ status[s] = "compiling"
    /\ at[s].norm <= Len(file[s])
    /\ at[s].rule <= Len(file[s][at[s].norm].rules)
    /\ LET rule == file[s][at[s].norm].rules[at[s].rule]
       IN  IF Clashes(s, rule) \/ ~ Convertible(rule.key, rule.value)
           THEN /\ status' = [status EXCEPT ![s] = "refused"]
                /\ UNCHANGED <<at, byRule, policy>>
           ELSE /\ byRule' = [byRule EXCEPT ![s] =
                      [k \in DOMAIN @ \cup {rule.key} |-> IF k = rule.key THEN rule.value ELSE @[k]]]
                /\ policy' = [policy EXCEPT ![s] = [@ EXCEPT ![rule.key] = Field(rule.key, rule.value)]]
                /\ at' = [at EXCEPT ![s] = [norm |-> at[s].norm, rule |-> at[s].rule + 1]]
                /\ UNCHANGED status
    /\ UNCHANGED file

NextNorm(s) ==
    /\ status[s] = "compiling"
    /\ at[s].norm <= Len(file[s])
    /\ at[s].rule > Len(file[s][at[s].norm].rules)
    /\ at' = [at EXCEPT ![s] = [norm |-> at[s].norm + 1, rule |-> 1]]
    /\ UNCHANGED <<file, status, byRule, policy>>

\* The artifact, or the refusal of the whole.
Finish(s) ==
    /\ status[s] = "compiling"
    /\ at[s].norm > Len(file[s])
    /\ status' = [status EXCEPT ![s] = IF Consistent(policy[s]) THEN "compiled" ELSE "refused"]
    /\ UNCHANGED <<file, at, byRule, policy>>

Init ==
    /\ file \in [Sides -> Files]
    /\ status = [s \in Sides |-> "unread"]
    /\ at = [s \in Sides |-> [norm |-> 1, rule |-> 1]]
    /\ byRule = [s \in Sides |-> [k \in {} |-> 0]]
    /\ policy = [s \in Sides |-> Base]

Next == \E s \in Sides : Validate(s) \/ Compile(s) \/ NextNorm(s) \/ Finish(s)

Spec == Init /\ [][Next]_vars

-----------------------------------------------------------------------------
(* diff_norm_sets *)

\* Mutant of SameNorm: the values are not compared.
SameNorm_Keys(a, b) ==
    /\ a.category = b.category
    /\ DOMAIN a.rules = DOMAIN b.rules
    /\ \A j \in DOMAIN a.rules : a.rules[j].key = b.rules[j].key

\* Equality of what model_dump makes of two norms.
SameNorm(a, b) ==
    /\ a.category = b.category
    /\ DOMAIN a.rules = DOMAIN b.rules
    /\ \A j \in DOMAIN a.rules : /\ a.rules[j].key = b.rules[j].key
                                 /\ Equal(a.rules[j].value, b.rules[j].value)

Ids(f) == {f[i].id : i \in DOMAIN f}

\* The norm of that name, the last one if there are several.
NormOf(f, id) == f[CHOOSE i \in DOMAIN f : /\ f[i].id = id
                                           /\ \A j \in DOMAIN f : f[j].id = id => j <= i]

Diff(old, new) == [added   |-> Ids(new) \ Ids(old),
                   removed |-> Ids(old) \ Ids(new),
                   changed |-> {id \in Ids(old) \cap Ids(new) : ~ SameNorm(NormOf(old, id), NormOf(new, id))}]

NoDifference == [added |-> {}, removed |-> {}, changed |-> {}]

\* init_norm_set.
Starter == <<
    [id |-> "external-bundles-reviewed", category |-> "intake",
     rules |-> <<[key |-> "quarantine_external_bundles", value |-> [kind |-> "bool", n |-> 1]]>>],
    [id |-> "moderator-dual-review", category |-> "review",
     rules |-> <<[key |-> "review_min_approvals", value |-> [kind |-> "int", n |-> 2]]>>],
    [id |-> "signed-policy-updates", category |-> "governance",
     rules |-> <<[key |-> "require_policy_signature", value |-> [kind |-> "bool", n |-> 1]],
                 [key |-> "policy_signature_threshold_m", value |-> [kind |-> "int", n |-> 2]]>>]>>

-----------------------------------------------------------------------------
(* Properties *)

Rules(f) == UNION {{f[i].rules[j] : j \in DOMAIN f[i].rules} : i \in DOMAIN f}

\* In a compiled policy every rule of every norm holds, the first as well as the last,
\* and every other field is as it is without norms: what compile_norm_set returns does
\* not depend on the order of the norms.
EveryNormHolds ==
    \A s \in Sides : status[s] = "compiled" =>
        /\ \A key \in Templates :
               \/ \E rule \in Rules(file[s]) : rule.key = key
               \/ policy[s][key] = Base[key]
        /\ \A rule \in Rules(file[s]) : policy[s][rule.key] = Field(rule.key, rule.value)

Ended(s) == status[s] \in {"invalid", "refused", "compiled"}
UniqueIds(f) == \A i, j \in DOMAIN f : f[i].id = f[j].id => i = j

\* When diff_norm_sets shows no difference between two files that name each norm once,
\* both compile, to the same policy, or neither does: although their norms may come in
\* another order and their values be written in another way.
NoDifferenceNoEffect ==
    (/\ Ended("old") /\ Ended("new")
     /\ UniqueIds(file["old"]) /\ UniqueIds(file["new"])
     /\ Diff(file["old"], file["new"]) = NoDifference)
    => /\ status["old"] = status["new"]
       /\ status["old"] = "compiled" => policy["old"] = policy["new"]
=============================================================================
