----------------------------- MODULE PolicyQuorum -----------------------------
(***************************************************************************)
(* Policy update artifacts and the rules that decide whether one is        *)
(* accepted (links/policy_updates.py, evaluate_policy_quorum of            *)
(* links/policy_feed.py, evaluate_policy_update of                         *)
(* links/decision_receipts.py).                                            *)
(*                                                                         *)
(* A hash stands for what it hashes, so policy_hash is the policy it was   *)
(* computed from; a signature is the pair of a key and the payload that    *)
(* was signed, and it verifies over exactly that payload.                  *)
(***************************************************************************)
EXTENDS Integers, Sequences, FiniteSets

CONSTANTS
  Key,       \* signing keys (their key hashes)
  Role,      \* signer roles a policy may name
  Content,   \* what the policy of an update may say
  Time,      \* moments used as activation and expiry times
  NoSig      \* the artifact has no legacy signature

ASSUME QuorumAssumption == IsFiniteSet(Key) /\ Time \subseteq Nat

\* What a village's active policy says about signatures.  Weights are floats in the
\* code, of any sign: whole numbers of some unit here.  A key may list a role twice.
SignatureRules ==
  [required: BOOLEAN,
   model: {"m_of_n", "weighted", "role_based"},
   allow: SUBSET Key,
   metadata: BOOLEAN,
   quorumM: Int, policyM: Int,
   weight: [Key -> Int], needWeight: Int,
   roles: [Key -> Seq(Role)],
   needs: SUBSET [role: Role, min: Int]]

\* lifecycle_state is any string: a state of the lifecycle, no text, one in other
\* letters, or a word of somebody's own.
LifecycleState == {"proposal", "approved", "active", "rolled_back"}
State == LifecycleState \cup {"", "ROLLED_BACK", "retired"}

\* What is signed: everything but the signatures.  quorum says whether the update
\* carries quorum metadata.
Payload == [policy: Content, hash: Content, state: State, from: Time, until: Time,
            quorum: BOOLEAN]
Signature == [key: Key, over: Payload]

ASSUME MarkerAssumption == NoSig \notin Signature

\* signatures[], by key: sigs[k] is what k's entries sign, in the order of the list.
\* The order between the entries of different keys plays no role.
Unsigned == [k \in Key |-> << >>]
Update == [payload: Payload, sigs: [Key -> Seq(Payload)], legacy: Signature \cup {NoSig}]

\* build_update: the hash is computed, nothing is signed.
Built(policy, state, from, until, quorum) ==
  [payload |-> [policy |-> policy, hash |-> policy, state |-> state,
                from |-> from, until |-> until, quorum |-> quorum],
   sigs |-> Unsigned, legacy |-> NoSig]

-----------------------------------------------------------------------------
(* Signing *)

Sign(u, k) == [key |-> k, over |-> u.payload]

\* Mutant of AddSignature: the list starts again.
AddSignature_Alone(u, k) == [u EXCEPT !.sigs = [Unsigned EXCEPT ![k] = <<u.payload>>]]

\* Of several entries of one key the first stays, whatever it signs.
FirstOnly(entries) == IF entries = << >> THEN << >> ELSE <<Head(entries)>>

\* add_signature: the list keeps the first entry of every key, and a key that is
\* listed already is not added again.
AddSignature(u, k) ==
  [u EXCEPT !.sigs = [i \in Key |-> IF i = k /\ @[i] = << >> THEN <<u.payload>>
                                   ELSE FirstOnly(@[i])]]

\* sign_update_legacy: one slot, the last signer has it.
SignLegacy(u, k) == [u EXCEPT !.legacy = Sign(u, k)]

-----------------------------------------------------------------------------
(* Verification *)

\* The entries of signatures[].
Entries(u) == UNION {{[key |-> k, over |-> u.sigs[k][i]] : i \in DOMAIN u.sigs[k]} : k \in Key}

Presented(u) == Entries(u) \cup ({u.legacy} \ {NoSig})

\* The keys whose signature verifies over the update as it stands.  The loops
\* of the three verifiers count each key once, so the order is immaterial.
Signers(u) == {e.key : e \in {s \in Presented(u) : s.over = u.payload}}

HashOK(u) == u.payload.hash = u.payload.policy

\* Mutant of Counted: the allowlist is not consulted.
Counted_Anyone(rules, keys) == keys

\* The signers that count: an empty allowlist admits every key.
Counted(rules, keys) == IF rules.allow = {} THEN keys ELSE keys \cap rules.allow

VerifyAny(u) == HashOK(u) /\ Signers(u) # {}

\* A threshold of 0 counts as not given.
Threshold(rules) == CASE rules.quorumM # 0 -> rules.quorumM
                      [] rules.quorumM = 0 /\ rules.policyM # 0 -> rules.policyM
                      [] OTHER -> 1

MOfN(rules, keys, m) == m >= 1 /\ Cardinality(Counted(rules, keys)) >= m

\* A sum over signers, as the size of the union of what each of them brings.
Brought(part, keys) == UNION {{k} \X part[k] : k \in keys}

\* A negative weight takes away.
Weight(rules, keys) ==
  Cardinality(Brought([k \in Key |-> 1..rules.weight[k]], keys))
    - Cardinality(Brought([k \in Key |-> 1..-rules.weight[k]], keys))

Weighted(rules, keys) ==
  rules.needWeight > 0 /\ Weight(rules, Counted(rules, keys)) >= rules.needWeight

\* A role that a key lists twice counts twice.
RoleCount(rules, keys, role) ==
  Cardinality(Brought([k \in Key |-> {i \in 1..Len(rules.roles[k]) : rules.roles[k][i] = role}],
                      Counted(rules, keys)))

RoleBased(rules, keys) ==
  \A need \in rules.needs : RoleCount(rules, keys, need.role) >= need.min

\* Do these keys together satisfy the quorum that the village requires?
Quorum(rules, keys) ==
  \/ rules.model = "weighted"   /\ Weighted(rules, keys)
  \/ rules.model = "role_based" /\ RoleBased(rules, keys)
  \/ rules.model = "m_of_n"     /\ MOfN(rules, keys, Threshold(rules))

\* evaluate_policy_quorum.  Where signatures are optional an unsigned update
\* is accepted as it is, and signature material must be of some use.
EvaluateQuorum(rules, u) ==
  \/ rules.required /\ HashOK(u) /\ Quorum(rules, Signers(u))
  \/ /\ ~rules.required
     /\ \/ Presented(u) = {}
        \/ rules.allow # {} /\ HashOK(u) /\ MOfN(rules, Signers(u), 1)
        \/ rules.allow = {} /\ VerifyAny(u)

\* How the pull reads a lifecycle state: in small letters, and no text as a proposal.
Stage(state) == CASE state = "" -> "proposal"
                  [] state = "ROLLED_BACK" -> "rolled_back"
                  [] OTHER -> state

\* evaluate_policy_update; manifestOK is FALSE when the feed's manifest was refused.
Decision(rules, u, now, manifestOK) ==
  IF \/ ~manifestOK
     \/ ~EvaluateQuorum(rules, u)
     \/ rules.metadata /\ ~u.payload.quorum
     \/ u.payload.until < now
     \/ Stage(u.payload.state) = "rolled_back"
  THEN "reject"
  ELSE IF Stage(u.payload.state) = "proposal" \/ u.payload.from > now THEN "defer" ELSE "apply"

-----------------------------------------------------------------------------
(* Lifecycle *)

\* validate_transition: any other string is refused.
Follows(from, to) ==
  <<from, to>> \in {<<"proposal", "approved">>, <<"approved", "active">>,
                    <<"active", "rolled_back">>}

\* Mutant of Moved: the signatures are kept.
Moved_Signed(u, to) == [u EXCEPT !.payload.state = to]

\* transition_update: the change invalidates the signatures, so it drops them.
Moved(u, to) == [u EXCEPT !.payload.state = to, !.sigs = Unsigned, !.legacy = NoSig]

=============================================================================
