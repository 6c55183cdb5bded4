-------------------------- MODULE GovernanceProofs --------------------------
(***************************************************************************)
(* Proofs about the four programs of Governance.  Norms, for any files:    *)
(* what has been compiled so far is determined by the rules that came,     *)
(* whatever their order, and two files that do not differ are compiled     *)
(* alike.  Action decisions, for any policies and facts: receipts are      *)
(* true, and missing facts permit nothing.  Trust anchors, for any         *)
(* operators and keys: what is revoked stays revoked.  Evidence bundles,   *)
(* for any sources and builders: what was built alone verifies.            *)
(***************************************************************************)
EXTENDS Governance, WellFoundedInduction, TLAPS

-----------------------------------------------------------------------------
(* Norms *)


Statuses == {"unread", "invalid", "compiling", "refused", "compiled"}

\* The rules that have been compiled.
Seen(s) == UNION {{file[s][i].rules[j] : j \in {j \in DOMAIN file[s][i].rules :
                      i < at[s].norm \/ (i = at[s].norm /\ j < at[s].rule)}} : i \in DOMAIN file[s]}

TypeInv ==
    /\ file \in [Sides -> Seq(Norm)]
    /\ status \in [Sides -> Statuses]
    /\ at \in [Sides -> [norm : Nat \ {0}, rule : Nat \ {0}]]
    /\ DOMAIN byRule = Sides
    /\ policy \in [Sides -> [Templates -> Nat]]

\* Every rule that was compiled holds, and what holds is of such a rule or of the base.
Determined(s) ==
    /\ \A rule \in Seen(s) : /\ Convertible(rule.key, rule.value)
                             /\ rule.key \in DOMAIN byRule[s]
                             /\ Equal(byRule[s][rule.key], rule.value)
                             /\ policy[s][rule.key] = Field(rule.key, rule.value)
    /\ \A key \in DOMAIN byRule[s] : \E rule \in Seen(s) : rule.key = key /\
         rule.value = byRule[s][key]
    /\ \A key \in Templates \ DOMAIN byRule[s] : policy[s][key] = Base[key]

AtEnd(s) == at[s].norm > Len(file[s])

\* Why a file is refused.
Cause(s) ==
    \/ \E r, q \in Rules(file[s]) : r.key = q.key /\ ~ Equal(r.value, q.value)
    \/ \E r \in Rules(file[s]) : ~ Convertible(r.key, r.value)
    \/ AtEnd(s) /\ Determined(s) /\ ~ Consistent(policy[s])

SideInv(s) ==
    /\ status[s] = "unread" => at[s] = [norm |-> 1, rule |-> 1]
    /\ status[s] # "refused" => Determined(s)
    /\ status[s] = "invalid" => ~ Valid(file[s])
    /\ status[s] \in {"compiling", "refused", "compiled"} => Valid(file[s])
    /\ status[s] = "compiled" => AtEnd(s) /\ Consistent(policy[s])
    /\ status[s] = "refused" => Cause(s)

IInv == TypeInv /\ \A s \in Sides : SideInv(s)

-----------------------------------------------------------------------------
(* Values *)

\* Values that are equal to one are equal to each other.
LEMMA EqualEuclidean ==
    ASSUME NEW u, NEW v, NEW w, Equal(u, v), Equal(u, w)
    PROVE  Equal(v, w)
BY DEF Equal

LEMMA EqualSymmetric == ASSUME NEW v, NEW w, Equal(v, w) PROVE Equal(w, v)
BY DEF Equal

\* Equal values set a field alike, and are accepted alike.
LEMMA EqualField == ASSUME NEW key, NEW v, NEW w, Equal(v, w) PROVE Field(key, v) = Field(key, w)
BY DEF Equal, Field, Truthy

LEMMA EqualConvertible ==
    ASSUME NEW key, NEW v, NEW w, Equal(v, w), Convertible(key, v)
    PROVE  Convertible(key, w)
BY DEF Equal, Convertible

\* A field is a number.
LEMMA FieldNat == ASSUME NEW key, NEW v \in Value PROVE Field(key, v) \in Nat
BY DEF Field, Value

LEMMA BaseType == Base \in [Templates -> Nat]
BY DEF Base

-----------------------------------------------------------------------------
(* Files *)

\* What a file is made of.
LEMMA RuleTypes ==
    ASSUME NEW f \in Seq(Norm)
    PROVE  /\ \A i \in DOMAIN f : f[i] \in Norm /\ f[i].rules \in Seq(Rule)
           /\ \A r \in Rules(f) : r.value \in Value
<1>1. ASSUME NEW i \in DOMAIN f PROVE f[i] \in Norm /\ f[i].rules \in Seq(Rule)
  <2>1. f[i] \in Norm
    OBVIOUS
  <2> QED
    BY <2>1 DEF Norm
<1>2. ASSUME NEW r \in Rules(f) PROVE r.value \in Value
  <2>1. PICK i \in DOMAIN f : \E j \in DOMAIN f[i].rules : r = f[i].rules[j]
    BY DEF Rules
  <2>2. PICK j \in DOMAIN f[i].rules : r = f[i].rules[j]
    BY <2>1
  <2>3. r \in Rule
    BY <1>1, <2>2
  <2> QED
    BY <2>3 DEF Rule
<1> QED
  BY <1>1, <1>2

LEMMA ValidKeys ==
    ASSUME NEW f, Valid(f), NEW r \in Rules(f)
    PROVE  r.key \in Templates
BY DEF Valid, Rules

\* What has been seen is of the file, and at the end it is all of it.
LEMMA SeenRules == ASSUME NEW s PROVE Seen(s) \subseteq Rules(file[s])
BY DEF Seen, Rules

LEMMA SeenAll ==
    ASSUME TypeInv, NEW s \in Sides, AtEnd(s)
    PROVE  Seen(s) = Rules(file[s])
<1>1. file[s] \in Seq(Norm) /\ at[s].norm \in Nat
  BY DEF TypeInv
<1>2. \A i \in DOMAIN file[s] : i < at[s].norm
  BY <1>1 DEF AtEnd
<1>3. ASSUME NEW r \in Rules(file[s]) PROVE r \in Seen(s)
  BY <1>2, <1>3 DEF Seen, Rules
<1> QED
  BY <1>3, SeenRules

-----------------------------------------------------------------------------
(* The invariant *)

LEMMA InitInv == Init => IInv
<1> SUFFICES ASSUME Init PROVE IInv
  OBVIOUS
<1>1. TypeInv
  BY FilesAssumption, BaseType DEF Init, TypeInv, Statuses, Sides
<1>2. ASSUME NEW s \in Sides PROVE SideInv(s)
  <2>1. file[s] \in Seq(Norm) /\ status[s] = "unread" /\ at[s] = [norm |-> 1, rule |-> 1]
    BY <1>1 DEF Init, TypeInv
  <2>2. Seen(s) = {}
    BY <1>1, <2>1, RuleTypes DEF Seen
  <2>3. DOMAIN byRule[s] = {} /\ policy[s] = Base
    BY DEF Init
  <2>4. Determined(s)
    BY <2>2, <2>3 DEF Determined
  <2> QED
    BY <2>1, <2>4 DEF SideInv
<1> QED
  BY <1>1, <1>2 DEF IInv

\* A side that a step leaves alone keeps its invariant.
LEMMA SideKept ==
    ASSUME NEW s, SideInv(s), file'[s] = file[s], status'[s] = status[s], at'[s] = at[s],
           byRule'[s] = byRule[s], policy'[s] = policy[s]
    PROVE  SideInv(s)'
<1>1. Seen(s)' = Seen(s)
  BY DEF Seen
<1>2. Determined(s)' = Determined(s)
  BY <1>1 DEF Determined
<1>3. Cause(s)' = Cause(s) /\ AtEnd(s)' = AtEnd(s)
  BY <1>2 DEF Cause, AtEnd
<1> QED
  BY <1>2, <1>3 DEF SideInv

\* Validation.
LEMMA ValidateInv ==
    ASSUME IInv, NEW s \in Sides, Validate(s)
    PROVE  IInv'
<1>1. TypeInv'
  BY DEF IInv, TypeInv, Validate, Statuses
<1>2. SideInv(s)'
  <2>1. SideInv(s) /\ status \in [Sides -> Statuses]
    BY DEF IInv, TypeInv
  <2>2. status'[s] = IF Valid(file[s]) THEN "compiling" ELSE "invalid"
    BY <2>1 DEF Validate
  <2>3. Seen(s)' = Seen(s) /\ file' = file /\ byRule' = byRule /\ policy' = policy
    BY DEF Seen, Validate
  <2>4. Determined(s)' = Determined(s)
    BY <2>3 DEF Determined
  <2>5. Determined(s)
    BY <2>1 DEF SideInv, Validate
  <2> QED
    BY <2>2, <2>3, <2>4, <2>5 DEF SideInv
<1>3. ASSUME NEW t \in Sides, t # s PROVE SideInv(t)'
  BY <1>3, SideKept DEF IInv, TypeInv, Validate
<1> QED
  BY <1>1, <1>2, <1>3 DEF IInv

\* The next norm.
LEMMA NextNormInv ==
    ASSUME IInv, NEW s \in Sides, NextNorm(s)
    PROVE  IInv'
<1>1. TypeInv'
  BY DEF IInv, TypeInv, NextNorm
<1>2. SideInv(s)'
  <2>1. SideInv(s) /\ file[s] \in Seq(Norm) /\
          at \in [Sides -> [norm : Nat \ {0}, rule : Nat \ {0}]]
    BY DEF IInv, TypeInv
  <2>2. /\ at'[s].norm = at[s].norm + 1 /\ at'[s].rule = 1
        /\ file' = file /\ byRule' = byRule /\ policy' = policy /\ status' = status
        /\ at[s].rule > Len(file[s][at[s].norm].rules) /\ at[s].norm \in 1..Len(file[s])
    BY <2>1 DEF NextNorm
  <2>3. ASSUME NEW i \in DOMAIN file[s], NEW j \in DOMAIN file[s][i].rules
        PROVE  (i < at'[s].norm \/ (i = at'[s].norm /\ j < at'[s].rule))
               <=> (i < at[s].norm \/ (i = at[s].norm /\ j < at[s].rule))
    <3>1. file[s][i].rules \in Seq(Rule)
      BY <2>1, RuleTypes
    <3>2. i \in Nat /\ j \in Nat /\ j >= 1 /\ j <= Len(file[s][i].rules)
      BY <2>1, <3>1
    <3>3. at[s].norm \in Nat /\ at[s].rule \in Nat
      BY <2>1
    <3>4. CASE i = at[s].norm
      BY SMTT(30), <2>2, <3>1, <3>2, <3>3, <3>4
    <3>5. CASE i # at[s].norm
      BY <2>2, <3>2, <3>3, <3>5
    <3> QED
      BY <3>4, <3>5
  <2>4. Seen(s)' = Seen(s)
    BY <2>2, <2>3 DEF Seen
  <2>5. Determined(s)' = Determined(s)
    BY <2>2, <2>4 DEF Determined
  <2>6. status[s] = "compiling"
    BY DEF NextNorm
  <2> QED
    BY <2>1, <2>2, <2>5, <2>6 DEF SideInv
<1>3. ASSUME NEW t \in Sides, t # s PROVE SideInv(t)'
  BY <1>3, SideKept DEF IInv, TypeInv, NextNorm
<1> QED
  BY <1>1, <1>2, <1>3 DEF IInv

\* The end of a compilation.
LEMMA FinishInv ==
    ASSUME IInv, NEW s \in Sides, Finish(s)
    PROVE  IInv'
<1>1. TypeInv'
  BY DEF IInv, TypeInv, Finish, Statuses
<1>2. SideInv(s)'
  <2>1. SideInv(s) /\ status[s] = "compiling" /\ AtEnd(s)
    BY DEF IInv, Finish, AtEnd
  <2>2. /\ file' = file /\ byRule' = byRule /\ policy' = policy /\ at' = at
        /\ status'[s] = IF Consistent(policy[s]) THEN "compiled" ELSE "refused"
    BY DEF IInv, TypeInv, Finish
  <2>3. Seen(s)' = Seen(s) /\ AtEnd(s)' = AtEnd(s)
    BY <2>2 DEF Seen, AtEnd
  <2>4. Determined(s)' = Determined(s)
    BY <2>2, <2>3 DEF Determined
  <2>5. Determined(s) /\ Valid(file[s])
    BY <2>1 DEF SideInv
  <2>6. CASE Consistent(policy[s])
    BY <2>1, <2>2, <2>3, <2>4, <2>5, <2>6 DEF SideInv
  <2>7. CASE ~ Consistent(policy[s])
    <3>1. Cause(s)'
      BY <2>1, <2>2, <2>3, <2>4, <2>5, <2>7 DEF Cause
    <3> QED
      BY <2>2, <2>5, <2>7, <3>1 DEF SideInv
  <2> QED
    BY <2>6, <2>7
<1>3. ASSUME NEW t \in Sides, t # s PROVE SideInv(t)'
  BY <1>3, SideKept DEF IInv, TypeInv, Finish
<1> QED
  BY <1>1, <1>2, <1>3 DEF IInv

\* One more rule, that agrees with those before it.
LEMMA CompileInv ==
    ASSUME IInv, NEW s \in Sides, Compile(s)
    PROVE  IInv'
<1> DEFINE i == at[s].norm
           j == at[s].rule
           rule == file[s][i].rules[j]
<1>1. SideInv(s) /\ TypeInv /\ file[s] \in Seq(Norm) /\ i \in Nat \ {0} /\ j \in Nat \ {0}
  BY DEF IInv, TypeInv
<1>2. status[s] = "compiling" /\ i <= Len(file[s]) /\ j <= Len(file[s][i].rules) /\ file' = file
  BY DEF Compile
<1>3. Valid(file[s]) /\ Determined(s)
  BY <1>1, <1>2 DEF SideInv
<1>4. i \in DOMAIN file[s] /\ j \in DOMAIN file[s][i].rules
  <2>1. i \in DOMAIN file[s]
    BY <1>1, <1>2
  <2>2. file[s][i].rules \in Seq(Rule)
    BY <1>1, <2>1, RuleTypes
  <2> QED
    BY <1>1, <1>2, <2>1, <2>2
<1>5. rule \in Rules(file[s])
  BY <1>4 DEF Rules
<1>6. rule.key \in Templates /\ rule.value \in Value
  BY <1>1, <1>3, <1>5, RuleTypes, ValidKeys
<1>7. CASE Clashes(s, rule) \/ ~ Convertible(rule.key, rule.value)
  <2>1. /\ status' = [status EXCEPT ![s] = "refused"]
        /\ at' = at /\ byRule' = byRule /\ policy' = policy
    BY <1>7 DEF Compile
  <2>2. Cause(s)
    <3>1. CASE ~ Convertible(rule.key, rule.value)
      BY <1>5, <3>1 DEF Cause
    <3>2. CASE Clashes(s, rule)
      <4>1. PICK q \in Seen(s) : q.key = rule.key /\ q.value = byRule[s][rule.key]
        BY <1>3, <3>2 DEF Clashes, Determined
      <4>2. q \in Rules(file[s]) /\ ~ Equal(q.value, rule.value)
        BY <3>2, <4>1, SeenRules DEF Clashes
      <4> QED
        BY <1>5, <4>1, <4>2 DEF Cause
    <3> QED
      BY <1>7, <3>1, <3>2
  <2>3. Seen(s)' = Seen(s) /\ AtEnd(s)' = AtEnd(s)
    BY <1>2, <2>1 DEF Seen, AtEnd
  <2>4. Determined(s)' = Determined(s)
    BY <1>2, <2>1, <2>3 DEF Determined
  <2>5. Cause(s)'
    BY <1>2, <2>1, <2>2, <2>3, <2>4 DEF Cause
  <2>6. status'[s] = "refused" /\ TypeInv'
    BY <1>1, <1>2, <2>1 DEF TypeInv, Statuses
  <2>7. SideInv(s)'
    BY <1>2, <1>3, <2>5, <2>6 DEF SideInv
  <2>8. ASSUME NEW t \in Sides, t # s PROVE SideInv(t)'
    BY <1>1, <1>2, <2>1, <2>8, SideKept DEF IInv, TypeInv
  <2> QED
    BY <2>6, <2>7, <2>8 DEF IInv
<1>8. CASE ~ Clashes(s, rule) /\ Convertible(rule.key, rule.value)
  <2>1. /\ byRule' = [byRule EXCEPT ![s] =
               [k \in DOMAIN byRule[s] \cup {rule.key} |-> IF k = rule.key THEN rule.value ELSE byRule[s][k]]]
        /\ policy' = [policy EXCEPT ![s] = [policy[s] EXCEPT ![rule.key] = Field(rule.key, rule.value)]]
        /\ at' = [at EXCEPT ![s] = [norm |-> i, rule |-> j + 1]]
        /\ status' = status
    BY <1>8 DEF Compile
  <2>2. Field(rule.key, rule.value) \in Nat
    BY <1>6, FieldNat
  <2>3. policy[s] \in [Templates -> Nat]
    BY <1>1 DEF TypeInv
  <2>4. TypeInv'
    <3>1. [policy[s] EXCEPT ![rule.key] = Field(rule.key, rule.value)] \in [Templates -> Nat]
      BY <2>2, <2>3
    <3>2. [norm |-> i, rule |-> j + 1] \in [norm : Nat \ {0}, rule : Nat \ {0}]
      BY <1>1
    <3>3. policy' \in [Sides -> [Templates -> Nat]]
      BY <1>1, <2>1, <3>1 DEF TypeInv
    <3>4. at' \in [Sides -> [norm : Nat \ {0}, rule : Nat \ {0}]]
      BY <1>1, <2>1, <3>2 DEF TypeInv
    <3> QED
      BY <1>1, <1>2, <2>1, <3>3, <3>4 DEF TypeInv
  <2>5. /\ byRule'[s] = [k \in DOMAIN byRule[s] \cup {rule.key} |->
                            IF k = rule.key THEN rule.value ELSE byRule[s][k]]
        /\ policy'[s] = [policy[s] EXCEPT ![rule.key] = Field(rule.key, rule.value)]
        /\ at'[s].norm = i /\ at'[s].rule = j + 1
    BY <1>1, <2>1 DEF TypeInv
  <2>6. Seen(s)' = Seen(s) \cup {rule}
    <3> DEFINE Before(a, b) == UNION {{file[s][k].rules[l] : l \in {l \in DOMAIN file[s][k].rules :
                                         k < a \/ (k = a /\ l < b)}} : k \in DOMAIN file[s]}
    <3>0. Seen(s)' = Before(i, j + 1)
      <4>1. Seen(s)' = Before(at'[s].norm, at'[s].rule)
        BY <1>2 DEF Seen
      <4>2. at'[s].norm = i /\ at'[s].rule = j + 1
        BY <2>5
      <4> HIDE DEF Before, i, j
      <4> QED
        BY <4>1, <4>2
    <3>9. Seen(s) = Before(i, j)
      BY Zenon DEF Seen
    <3>1. ASSUME NEW k \in DOMAIN file[s], NEW l \in DOMAIN file[s][k].rules
          PROVE  (k < i \/ (k = i /\ l < j + 1)) <=> (k < i \/ (k = i /\ l < j)) \/ (k = i /\ l = j)
      <4>1. file[s][k].rules \in Seq(Rule)
        BY <1>1, RuleTypes
      <4>2. k \in Nat /\ l \in Nat
        BY <1>1, <4>1
      <4> QED
        BY <1>1, <4>2
    <3>2. ASSUME NEW r \in Seen(s)' PROVE r \in Seen(s) \cup {rule}
      <4>1. PICK k \in DOMAIN file[s] : \E l \in DOMAIN file[s][k].rules :
                r = file[s][k].rules[l] /\ (k < i \/ (k = i /\ l < j + 1))
        BY <3>0, <3>2
      <4>2. PICK l \in DOMAIN file[s][k].rules :
                r = file[s][k].rules[l] /\ (k < i \/ (k = i /\ l < j + 1))
        BY <4>1
      <4>3. (k < i \/ (k = i /\ l < j)) \/ (k = i /\ l = j)
        BY <3>1, <4>2
      <4>4. CASE k < i \/ (k = i /\ l < j)
        <5>1. r \in {file[s][k].rules[l2] : l2 \in {l2 \in DOMAIN file[s][k].rules :
                                                   k < i \/ (k = i /\ l2 < j)}}
          BY <4>2, <4>4
        <5>2. r \in Before(i, j)
          BY <5>1, Zenon
        <5> QED
          BY <3>9, <5>2
      <4>5. CASE k = i /\ l = j
        BY <4>2, <4>5
      <4> QED
        BY <4>3, <4>4, <4>5
    <3>3. ASSUME NEW r \in Seen(s) PROVE r \in Seen(s)'
      <4>1. PICK k \in DOMAIN file[s] : \E l \in DOMAIN file[s][k].rules :
                r = file[s][k].rules[l] /\ (k < i \/ (k = i /\ l < j))
        BY <3>3 DEF Seen
      <4>2. PICK l \in DOMAIN file[s][k].rules :
                r = file[s][k].rules[l] /\ (k < i \/ (k = i /\ l < j))
        BY <4>1
      <4>3. k < i \/ (k = i /\ l < j + 1)
        BY <3>1, <4>2
      <4> QED
        BY <3>0, <4>2, <4>3
    <3>4. rule \in Seen(s)'
      <4>1. j < j + 1
        BY <1>1
      <4> QED
        BY <1>4, <3>0, <4>1
    <3> QED
      BY <3>2, <3>3, <3>4
  <2>7. Determined(s)'
    <3>1. ASSUME NEW r \in Seen(s)'
          PROVE  /\ Convertible(r.key, r.value)
                 /\ r.key \in DOMAIN byRule'[s]
                 /\ Equal(byRule'[s][r.key], r.value)
                 /\ policy'[s][r.key] = Field(r.key, r.value)
      <4>1. CASE r = rule
        <5>1. Equal(rule.value, rule.value)
          BY DEF Equal
        <5> QED
          BY <1>6, <1>8, <2>3, <2>5, <4>1, <5>1
      <4>2. CASE r \in Seen(s)
        <5>1. /\ Convertible(r.key, r.value) /\ r.key \in DOMAIN byRule[s]
              /\ Equal(byRule[s][r.key], r.value) /\ policy[s][r.key] = Field(r.key, r.value)
          BY <1>3, <4>2 DEF Determined
        <5>2. CASE r.key # rule.key
          <6>1. r.key \in Templates
            BY <1>3, <4>2, SeenRules, ValidKeys
          <6> QED
            BY <2>3, <2>5, <5>1, <5>2, <6>1
        <5>3. CASE r.key = rule.key
          <6>1. Equal(byRule[s][r.key], rule.value)
            BY <1>8, <5>1, <5>3 DEF Clashes
          <6>2. Equal(rule.value, r.value)
            BY <5>1, <6>1, EqualEuclidean
          <6>3. Field(rule.key, rule.value) = Field(rule.key, r.value)
            BY <6>2, EqualField
          <6> QED
            BY <1>6, <2>3, <2>5, <5>1, <5>3, <6>2, <6>3
        <5> QED
          BY <5>2, <5>3
      <4> QED
        BY <2>6, <3>1, <4>1, <4>2
    <3>2. ASSUME NEW key \in DOMAIN byRule'[s]
          PROVE  \E r \in Seen(s)' : r.key = key /\ r.value = byRule'[s][key]
      <4>1. CASE key = rule.key
        BY <2>5, <2>6, <4>1
      <4>2. CASE key # rule.key
        <5>1. key \in DOMAIN byRule[s] /\ byRule'[s][key] = byRule[s][key]
          BY <2>5, <3>2, <4>2
        <5>2. \E r \in Seen(s) : r.key = key /\ r.value = byRule[s][key]
          BY <1>3, <5>1 DEF Determined
        <5> QED
          BY <2>6, <5>1, <5>2
      <4> QED
        BY <4>1, <4>2
    <3>3. ASSUME NEW key \in Templates \ DOMAIN byRule'[s]
          PROVE  policy'[s][key] = Base[key]
      <4>1. key # rule.key /\ key \notin DOMAIN byRule[s]
        BY <2>5, <3>3
      <4>2. policy[s][key] = Base[key]
        BY <1>3, <3>3, <4>1 DEF Determined
      <4> QED
        BY <2>3, <2>5, <3>3, <4>1, <4>2
    <3> QED
      BY <3>1, <3>2, <3>3 DEF Determined
  <2>8. SideInv(s)'
    BY <1>2, <1>3, <2>1, <2>7 DEF SideInv
  <2>9. ASSUME NEW t \in Sides, t # s PROVE SideInv(t)'
    <3>1. /\ file'[t] = file[t] /\ status'[t] = status[t] /\ at'[t] = at[t]
          /\ byRule'[t] = byRule[t] /\ policy'[t] = policy[t]
      BY <1>1, <1>2, <2>1, <2>9 DEF TypeInv
    <3> QED
      BY <3>1, SideKept DEF IInv
  <2> QED
    BY <2>4, <2>8, <2>9 DEF IInv
<1> QED
  BY <1>7, <1>8

LEMMA NextInv == ASSUME IInv, [Next]_vars PROVE IInv'
<1>1. CASE UNCHANGED vars
  <2>1. file' = file /\ status' = status /\ at' = at /\ byRule' = byRule /\ policy' = policy
    BY <1>1 DEF vars
  <2>2. ASSUME NEW s \in Sides PROVE SideInv(s)'
    BY <2>1, SideKept DEF IInv
  <2> QED
    BY <2>1, <2>2 DEF IInv, TypeInv
<1>2. CASE Next
  BY <1>2, ValidateInv, CompileInv, NextNormInv, FinishInv DEF Next
<1> QED
  BY <1>1, <1>2

LEMMA Invariance == Spec => []IInv
BY InitInv, NextInv, PTL DEF Spec

-----------------------------------------------------------------------------
(* The properties *)

\* At the end every rule of the file holds, and nothing else does.
LEMMA EndPolicy ==
    ASSUME IInv, NEW s \in Sides, AtEnd(s), Determined(s)
    PROVE  /\ \A rule \in Rules(file[s]) : policy[s][rule.key] = Field(rule.key, rule.value)
           /\ \A key \in Templates : \/ \E rule \in Rules(file[s]) : rule.key = key
                                     \/ policy[s][key] = Base[key]
<1>1. Seen(s) = Rules(file[s])
  BY SeenAll DEF IInv
<1>2. \A rule \in Rules(file[s]) : policy[s][rule.key] = Field(rule.key, rule.value)
  BY <1>1 DEF Determined
<1>3. ASSUME NEW key \in Templates
      PROVE  (\E rule \in Rules(file[s]) : rule.key = key) \/ policy[s][key] = Base[key]
  BY <1>1 DEF Determined
<1> QED
  BY <1>2, <1>3

\* In a compiled policy every rule of every norm holds, and the other fields are as they
\* are without norms: for any file, in any order.
THEOREM EveryNormIsInForce == Spec => []EveryNormHolds
<1>1. ASSUME IInv PROVE EveryNormHolds
  <2> SUFFICES ASSUME NEW s \in Sides, status[s] = "compiled"
               PROVE  /\ \A key \in Templates : \/ \E rule \in Rules(file[s]) : rule.key = key
                                                \/ policy[s][key] = Base[key]
                      /\ \A rule \in Rules(file[s]) : policy[s][rule.key] = Field(rule.key, rule.value)
    BY DEF EveryNormHolds
  <2>1. AtEnd(s) /\ Determined(s)
    BY <1>1 DEF IInv, SideInv
  <2> QED
    BY <1>1, <2>1, EndPolicy
<1> QED
  BY <1>1, Invariance, PTL

\* In a file that names each norm once, NormOf finds it.
LEMMA NormOfUnique ==
    ASSUME NEW f \in Seq(Norm), UniqueIds(f), NEW i \in DOMAIN f
    PROVE  NormOf(f, f[i].id) = f[i]
<1> DEFINE P(k) == k \in DOMAIN f /\ f[k].id = f[i].id /\
  \A j \in DOMAIN f : f[j].id = f[i].id => j <= k
<1>1. i \in Nat
  OBVIOUS
<1>2. P(i)
  BY <1>1 DEF UniqueIds
<1>3. \A k : P(k) => k = i
  BY DEF UniqueIds
<1>4. (CHOOSE k \in DOMAIN f : f[k].id = f[i].id /\
        \A j \in DOMAIN f : f[j].id = f[i].id => j <= k) = i
  BY <1>2, <1>3
<1> QED
  BY <1>4 DEF NormOf

\* The rules of two norms that are the same.
LEMMA SameRules ==
    ASSUME NEW f \in Seq(Norm), NEW g \in Seq(Norm), UniqueIds(f), UniqueIds(g),
           Diff(f, g) = NoDifference, NEW i \in DOMAIN f
    PROVE  \E k \in DOMAIN g : g[k].id = f[i].id /\ SameNorm(f[i], g[k])
<1>1. f[i].id \in Ids(f) /\ Ids(f) \ Ids(g) = {}
  BY DEF Ids, Diff, NoDifference
<1>2. PICK k \in DOMAIN g : g[k].id = f[i].id
  BY <1>1 DEF Ids
<1>3. {id \in Ids(f) \cap Ids(g) : ~ SameNorm(NormOf(f, id), NormOf(g, id))} = {}
  BY DEF Diff, NoDifference
<1>4. f[i].id \in Ids(g)
  BY <1>1
<1>5. SameNorm(NormOf(f, f[i].id), NormOf(g, f[i].id))
  BY <1>1, <1>3, <1>4
<1>6. NormOf(f, f[i].id) = f[i] /\ NormOf(g, g[k].id) = g[k]
  BY NormOfUnique
<1> QED
  BY <1>2, <1>5, <1>6

\* What does not differ one way does not differ the other way.
LEMMA SameNormSymmetric == ASSUME NEW a, NEW b, SameNorm(a, b) PROVE SameNorm(b, a)
BY EqualSymmetric DEF SameNorm

LEMMA DiffSymmetric ==
    ASSUME NEW f, NEW g, Diff(f, g) = NoDifference
    PROVE  Diff(g, f) = NoDifference
<1>1. /\ Ids(g) \ Ids(f) = {} /\ Ids(f) \ Ids(g) = {}
      /\ {id \in Ids(f) \cap Ids(g) : ~ SameNorm(NormOf(f, id), NormOf(g, id))} = {}
  BY DEF Diff, NoDifference
<1>2. ASSUME NEW id \in Ids(g) \cap Ids(f) PROVE SameNorm(NormOf(g, id), NormOf(f, id))
  BY <1>1, SameNormSymmetric
<1>3. {id \in Ids(g) \cap Ids(f) : ~ SameNorm(NormOf(g, id), NormOf(f, id))} = {}
  BY <1>2
<1> QED
  BY <1>1, <1>3 DEF Diff, NoDifference

\* Of two files without a difference, each rule of the one is, but for how its value is
\* written, a rule of the other, and the one is valid if the other is.
LEMMA RulesCorrespond ==
    ASSUME NEW f \in Seq(Norm), NEW g \in Seq(Norm), UniqueIds(f), UniqueIds(g),
           Diff(f, g) = NoDifference
    PROVE  \A r \in Rules(f) : \E q \in Rules(g) : q.key = r.key /\ Equal(r.value, q.value)
<1> SUFFICES ASSUME NEW r \in Rules(f)
             PROVE  \E q \in Rules(g) : q.key = r.key /\ Equal(r.value, q.value)
  OBVIOUS
<1>1. PICK i \in DOMAIN f : \E j \in DOMAIN f[i].rules : r = f[i].rules[j]
  BY DEF Rules
<1>2. PICK j \in DOMAIN f[i].rules : r = f[i].rules[j]
  BY <1>1
<1>3. PICK k \in DOMAIN g : SameNorm(f[i], g[k])
  BY SameRules
<1>4. j \in DOMAIN g[k].rules /\ g[k].rules[j].key = r.key /\ Equal(r.value, g[k].rules[j].value)
  BY <1>2, <1>3 DEF SameNorm
<1>5. g[k].rules[j] \in Rules(g)
  BY <1>4 DEF Rules
<1> QED
  BY <1>4, <1>5

LEMMA ValidAlike ==
    ASSUME NEW f \in Seq(Norm), NEW g \in Seq(Norm), UniqueIds(f), UniqueIds(g),
           Diff(f, g) = NoDifference, Valid(g)
    PROVE  Valid(f)
<1> SUFFICES ASSUME NEW i \in DOMAIN f
             PROVE  /\ f[i].category \in Categories
                    /\ \A j \in DOMAIN f[i].rules : f[i].rules[j].key \in Templates
  BY DEF Valid
<1>1. PICK k \in DOMAIN g : SameNorm(f[i], g[k])
  BY SameRules
<1> QED
  BY <1>1 DEF SameNorm, Valid

\* A file that corresponds to a compiled one is not refused.
LEMMA NotRefused ==
    ASSUME IInv, NEW s \in Sides, NEW t \in Sides,
           UniqueIds(file[s]), UniqueIds(file[t]),
           Diff(file[s], file[t]) = NoDifference, Diff(file[t], file[s]) = NoDifference,
           status[s] = "compiled", AtEnd(t) => (Determined(t) => policy[t] = policy[s])
    PROVE  ~ Cause(t)
<1>1. file[s] \in Seq(Norm) /\ file[t] \in Seq(Norm)
  BY DEF IInv, TypeInv
<1>2. AtEnd(s) /\ Determined(s) /\ Consistent(policy[s])
  BY DEF IInv, SideInv
<1>3. Seen(s) = Rules(file[s])
  BY <1>2, SeenAll DEF IInv
<1>4. \A r \in Rules(file[t]) : \E q \in Rules(file[s]) : q.key = r.key /\ Equal(r.value, q.value)
  BY <1>1, RulesCorrespond
<1>5. ASSUME NEW r \in Rules(file[t])
      PROVE  Convertible(r.key, r.value) /\ Equal(byRule[s][r.key], r.value)
  <2>1. PICK q \in Rules(file[s]) : q.key = r.key /\ Equal(r.value, q.value)
    BY <1>4
  <2>2. Convertible(q.key, q.value) /\ Equal(byRule[s][q.key], q.value)
    BY <1>2, <1>3 DEF Determined
  <2>3. Equal(q.value, r.value) /\ Equal(q.value, byRule[s][q.key])
    BY <2>1, <2>2, EqualSymmetric
  <2>4. Convertible(r.key, r.value)
    BY <2>1, <2>2, <2>3, EqualConvertible
  <2>5. Equal(byRule[s][q.key], r.value)
    BY <2>3, EqualEuclidean
  <2> QED
    BY <2>1, <2>4, <2>5
<1>6. ASSUME NEW r \in Rules(file[t]), NEW q \in Rules(file[t]), r.key = q.key
      PROVE  Equal(r.value, q.value)
  BY <1>5, <1>6, EqualEuclidean
<1>7. ~ (AtEnd(t) /\ Determined(t) /\ ~ Consistent(policy[t]))
  BY <1>2
<1> QED
  BY <1>5, <1>6, <1>7 DEF Cause

\* Two files that correspond, compiled to their ends, give the same policy.
LEMMA SamePolicy ==
    ASSUME IInv, NEW s \in Sides, NEW t \in Sides,
           UniqueIds(file[s]), UniqueIds(file[t]),
           Diff(file[s], file[t]) = NoDifference, Diff(file[t], file[s]) = NoDifference,
           AtEnd(s), AtEnd(t), Determined(s), Determined(t)
    PROVE  policy[s] = policy[t]
<1>1. file[s] \in Seq(Norm) /\ file[t] \in Seq(Norm)
  BY DEF IInv, TypeInv
<1>2. ASSUME NEW key \in Templates PROVE policy[s][key] = policy[t][key]
  <2>1. CASE \E r \in Rules(file[s]) : r.key = key
    <3>1. PICK r \in Rules(file[s]) : r.key = key
      BY <2>1
    <3>2. PICK q \in Rules(file[t]) : q.key = key /\ Equal(r.value, q.value)
      BY <1>1, <3>1, RulesCorrespond
    <3>3. policy[s][key] = Field(key, r.value)
      BY <3>1, EndPolicy
    <3>4. policy[t][key] = Field(key, q.value)
      BY <3>2, EndPolicy
    <3> QED
      BY <3>2, <3>3, <3>4, EqualField
  <2>2. CASE ~ \E r \in Rules(file[s]) : r.key = key
    <3>1. ~ \E q \in Rules(file[t]) : q.key = key
      BY <1>1, <2>2, RulesCorrespond
    <3>2. policy[s][key] = Base[key]
      BY <2>2, EndPolicy
    <3>3. policy[t][key] = Base[key]
      BY <3>1, EndPolicy
    <3> QED
      BY <3>2, <3>3
  <2> QED
    BY <2>1, <2>2
<1>3. policy[s] \in [Templates -> Nat] /\ policy[t] \in [Templates -> Nat]
  BY DEF IInv, TypeInv
<1> QED
  BY <1>2, <1>3

\* The outcome of the one is that of the other.
LEMMA AlikeOneWay ==
    ASSUME IInv, NEW s \in Sides, NEW t \in Sides, Ended(t),
           UniqueIds(file[s]), UniqueIds(file[t]),
           Diff(file[s], file[t]) = NoDifference, Diff(file[t], file[s]) = NoDifference,
           status[s] = "compiled"
    PROVE  status[t] = "compiled" /\ policy[s] = policy[t]
<1>1. file[s] \in Seq(Norm) /\ file[t] \in Seq(Norm)
  BY DEF IInv, TypeInv
<1>2. SideInv(s) /\ SideInv(t)
  BY DEF IInv
<1>3. AtEnd(s) /\ Determined(s) /\ Valid(file[s])
  BY <1>2 DEF SideInv
<1>4. Valid(file[t])
  BY <1>1, <1>3, ValidAlike
<1>5. status[t] # "invalid"
  BY <1>2, <1>4 DEF SideInv
<1>6. AtEnd(t) => (Determined(t) => policy[t] = policy[s])
  BY <1>3, SamePolicy
<1>7. ~ Cause(t)
  BY <1>6, NotRefused
<1>8. status[t] = "compiled"
  BY <1>2, <1>5, <1>7 DEF SideInv, Ended
<1>9. AtEnd(t) /\ Determined(t)
  BY <1>2, <1>8 DEF SideInv
<1> QED
  BY <1>3, <1>6, <1>8, <1>9

\* Two files between which diff_norm_sets finds no difference, and which name each norm
\* once, have the same outcome: for any files.
THEOREM NoDifferenceIsNoEffect == Spec => []NoDifferenceNoEffect
<1>1. ASSUME IInv PROVE NoDifferenceNoEffect
  <2> SUFFICES ASSUME Ended("old"), Ended("new"), UniqueIds(file["old"]), UniqueIds(file["new"]),
                      Diff(file["old"], file["new"]) = NoDifference
               PROVE  /\ status["old"] = status["new"]
                      /\ status["old"] = "compiled" => policy["old"] = policy["new"]
    BY DEF NoDifferenceNoEffect
  <2>1. Diff(file["new"], file["old"]) = NoDifference
    BY DiffSymmetric
  <2>2. "old" \in Sides /\ "new" \in Sides
    BY DEF Sides
  <2>3. status["old"] = "compiled" => status["new"] = "compiled" /\ policy["old"] = policy["new"]
    BY <1>1, <2>1, <2>2, AlikeOneWay
  <2>4. status["new"] = "compiled" => status["old"] = "compiled"
    BY <1>1, <2>1, <2>2, AlikeOneWay
  <2>5. file["old"] \in Seq(Norm) /\ file["new"] \in Seq(Norm) /\ SideInv("old") /\ SideInv("new")
    BY <1>1, <2>2 DEF IInv, TypeInv
  <2>6. Valid(file["old"]) <=> Valid(file["new"])
    BY <2>1, <2>5, ValidAlike
  <2>7. /\ status["old"] = "invalid" => ~ Valid(file["old"])
        /\ status["old"] \in {"refused", "compiled"} => Valid(file["old"])
        /\ status["new"] = "invalid" => ~ Valid(file["new"])
        /\ status["new"] \in {"refused", "compiled"} => Valid(file["new"])
    BY <2>5 DEF SideInv
  <2> QED
    BY <2>3, <2>4, <2>6, <2>7 DEF Ended
<1> QED
  BY <1>1, Invariance, PTL

-----------------------------------------------------------------------------
(* Action decisions *)

Effects == {"deny", "defer"}
Fields == {"decision", "reasons", "policy", "facts", "receipt_id"}

\* The reasons for an effect among the rules before the n-th, on some facts.
FailingBefore(p, f, d, n) ==
    {p[i].reason_code : i \in {i \in DOMAIN p : /\ i < n
                                                /\ p[i].on_fail = d
                                                /\ ~ A!Compare(A!Actual(f, p[i]), A!Expected(f, p[i]), p[i].operator)}}

RaisesOn(f, rule) == A!Raises(A!Actual(f, rule), A!Expected(f, rule), rule.operator)

\* What a decision says is so of the policy and the facts it is about.
TrueOf(s) ==
    LET deny == A!Failing(s.policy, s.facts, "deny")
        defer == A!Failing(s.policy, s.facts, "defer")
    IN  /\ s.decision = "deny" <=> deny # {}
        /\ s.decision = "permit" <=> deny \cup defer = {}
        /\ deny \cup defer # {} => s.reasons = deny \cup defer

\* An evaluation has the reasons of the rules it has come past, none of which raised; one
\* that has raised came to a rule that does; one that has decided came to the end.
RunInv(r) ==
    /\ next[r] \in Nat \ {0}
    /\ decided[r] \in {"evaluating", "raised", "deny", "defer", "permit"}
    /\ DOMAIN failed[r] = Effects
    /\ decided[r] = "raised" => \E i \in DOMAIN rules : RaisesOn(facts[r], rules[i])
    /\ decided[r] # "raised" =>
          /\ \A d \in Effects : failed[r][d] = FailingBefore(rules, facts[r], d, next[r])
          /\ \A i \in DOMAIN rules : i < next[r] => ~ RaisesOn(facts[r], rules[i])
    /\ decided[r] \in {"deny", "defer", "permit"} => next[r] > Len(rules) /\ decided[r] = A!Decision(r)
    /\ \A rc \in receipt[r] : DOMAIN rc = Fields /\ TrueOf(rc.receipt_id)

DecisionsInv ==
    /\ rules \in Policies
    /\ \A i \in DOMAIN rules : A!ValidRule(rules[i])
    /\ DOMAIN facts = A!Runs /\ DOMAIN next = A!Runs /\ DOMAIN failed = A!Runs
    /\ DOMAIN decided = A!Runs /\ DOMAIN receipt = A!Runs
    /\ DOMAIN facts["less"] \subseteq DOMAIN facts["full"]
    /\ \A path \in DOMAIN facts["less"] : facts["less"][path] = facts["full"][path]
    /\ \A r \in A!Runs : RunInv(r)

LEMMA DecisionsBegin == A!Init => DecisionsInv
  <1> SUFFICES ASSUME A!Init PROVE DecisionsInv
    OBVIOUS
  <1>1. /\ rules \in Policies
        /\ \A i \in DOMAIN rules : A!ValidRule(rules[i])
        /\ DOMAIN facts = A!Runs /\ DOMAIN next = A!Runs /\ DOMAIN failed = A!Runs
        /\ DOMAIN decided = A!Runs /\ DOMAIN receipt = A!Runs
    BY DEF A!Init
  <1>2. /\ DOMAIN facts["less"] \subseteq DOMAIN facts["full"]
        /\ \A path \in DOMAIN facts["less"] : facts["less"][path] = facts["full"][path]
    <2>1. PICK f \in Facts : \E kept \in SUBSET DOMAIN f :
            facts = [r \in A!Runs |-> IF r = "full" THEN f ELSE [path \in kept |-> f[path]]]
      BY DEF A!Init
    <2>2. PICK kept \in SUBSET DOMAIN f :
            facts = [r \in A!Runs |-> IF r = "full" THEN f ELSE [path \in kept |-> f[path]]]
      BY <2>1
    <2>3. facts["full"] = f /\ facts["less"] = [path \in kept |-> f[path]]
      BY <2>2 DEF A!Runs
    <2> QED
      BY <2>3
  <1>3. ASSUME NEW r \in A!Runs PROVE RunInv(r)
    <2>1. /\ next[r] = 1 /\ decided[r] = "evaluating" /\ receipt[r] = {}
          /\ failed[r] = [d \in {"deny", "defer"} |-> {}]
      BY <1>3 DEF A!Init
    <2>2. \A i \in DOMAIN rules : ~ (i < 1)
      BY <1>1, PoliciesAssumption
    <2>3. \A d : FailingBefore(rules, facts[r], d, 1) = {}
      BY <2>2 DEF FailingBefore
    <2> QED
      BY <2>1, <2>2, <2>3 DEF RunInv, Effects
  <1> QED
    BY <1>1, <1>2, <1>3 DEF DecisionsInv

\* One rule more.
LEMMA EvaluateKeeps ==
  ASSUME DecisionsInv, NEW r \in A!Runs, A!Evaluate(r)
  PROVE  DecisionsInv'
  <1>1. /\ UNCHANGED <<rules, facts, receipt>>
        /\ decided[r] = "evaluating" /\ next[r] <= Len(rules) /\ next' = [next EXCEPT ![r] = @ + 1]
    BY DEF A!Evaluate
  <1>2. RunInv(r) /\ next[r] \in DOMAIN rules /\ DOMAIN rules = 1..Len(rules) /\ Len(rules) \in Nat
    BY <1>1, PoliciesAssumption DEF DecisionsInv, RunInv
  <1> DEFINE rule == rules[next[r]]
             holds == A!Compare(A!Actual(facts[r], rule), A!Expected(facts[r], rule), rule.operator)
  <1>3. /\ RaisesOn(facts[r], rule) =>
              decided' = [decided EXCEPT ![r] = "raised"] /\ failed' = failed
        /\ ~ RaisesOn(facts[r], rule) =>
              /\ decided' = decided
              /\ failed' = IF holds THEN failed
                           ELSE [failed EXCEPT ![r][rule.on_fail] = @ \cup {rule.reason_code}]
    BY DEF A!Evaluate, RaisesOn
  <1>4. \A s \in A!Runs \ {r} : next'[s] = next[s] /\ decided'[s] = decided[s] /\ failed'[s] = failed[s]
    BY <1>1, <1>3 DEF DecisionsInv
  <1>5. \A s \in A!Runs \ {r} : RunInv(s)'
    BY <1>1, <1>4 DEF DecisionsInv, RunInv, A!Decision
  <1>6. next'[r] = next[r] + 1 /\ next'[r] \in Nat \ {0}
    BY <1>1, <1>2 DEF DecisionsInv, RunInv
  <1>7. RunInv(r)'
    <2>1. CASE RaisesOn(facts[r], rule)
      <3>1. decided'[r] = "raised" /\ failed'[r] = failed[r]
        BY <2>1, <1>3 DEF DecisionsInv
      <3> QED
        BY <3>1, <2>1, <1>1, <1>2, <1>6 DEF RunInv
    <2>2. CASE ~ RaisesOn(facts[r], rule)
      <3>1. decided'[r] = "evaluating" /\ DOMAIN failed'[r] = Effects
        BY <2>2, <1>1, <1>2, <1>3 DEF DecisionsInv, RunInv
      <3>2. \A i \in DOMAIN rules : i < next'[r] <=> i < next[r] \/ i = next[r]
        BY <1>2, <1>6 DEF RunInv
      <3>3. \A i \in DOMAIN rules : i < next'[r] => ~ RaisesOn(facts[r], rules[i])
        BY <2>2, <3>2, <1>1, <1>2 DEF RunInv
      <3>4. ASSUME NEW d \in Effects
            PROVE  failed'[r][d] = FailingBefore(rules, facts[r], d, next'[r])
        <4>1. failed[r][d] = FailingBefore(rules, facts[r], d, next[r])
          BY <1>1, <1>2 DEF RunInv
        <4>2. failed'[r][d] = IF ~ holds /\ d = rule.on_fail THEN failed[r][d] \cup {rule.reason_code}
                              ELSE failed[r][d]
          <5>1. CASE holds
            BY <5>1, <1>3, <2>2
          <5>2. CASE ~ holds
            BY <5>2, <1>2, <1>3, <2>2 DEF DecisionsInv, RunInv
          <5> QED
            BY <5>1, <5>2
        <4>3. \A x : x \in FailingBefore(rules, facts[r], d, next'[r]) <=>
                     \/ x \in FailingBefore(rules, facts[r], d, next[r])
                     \/ ~ holds /\ d = rule.on_fail /\ x = rule.reason_code
          BY <3>2, <1>2 DEF FailingBefore
        <4> QED
          BY <4>1, <4>2, <4>3
      <3> QED
        BY <3>1, <3>3, <3>4, <1>1, <1>2, <1>6 DEF RunInv
    <2> QED
      BY <2>1, <2>2
  <1>8. DOMAIN next' = A!Runs /\ DOMAIN failed' = A!Runs /\ DOMAIN decided' = A!Runs
    BY <1>1, <1>3 DEF DecisionsInv
  <1> QED
    BY <1>1, <1>5, <1>7, <1>8 DEF DecisionsInv

\* At the end all rules have been seen.
LEMMA AllSeen ==
  ASSUME NEW f, NEW d, NEW n, rules \in Policies, n \in Nat, n > Len(rules)
  PROVE  FailingBefore(rules, f, d, n) = A!Failing(rules, f, d)
  <1>1. \A i \in DOMAIN rules : i < n
    BY PoliciesAssumption
  <1> QED
    BY <1>1 DEF FailingBefore, A!Failing

LEMMA DecideKeeps ==
  ASSUME DecisionsInv, NEW r \in A!Runs, A!Decide(r)
  PROVE  DecisionsInv'
  <1> DEFINE deny == A!Failing(rules, facts[r], "deny")
             defer == A!Failing(rules, facts[r], "defer")
  <1>1. /\ UNCHANGED <<rules, facts, next, failed>>
        /\ decided[r] = "evaluating" /\ next[r] > Len(rules)
        /\ decided' = [decided EXCEPT ![r] = A!Decision(r)]
    BY DEF A!Decide
  <1>2. RunInv(r) /\ rules \in Policies /\ next[r] \in Nat
    BY DEF DecisionsInv, RunInv
  <1>3. failed[r]["deny"] = deny /\ failed[r]["defer"] = defer
    BY <1>1, <1>2, AllSeen DEF RunInv, Effects
  <1>4. \A rc \in receipt'[r] : DOMAIN rc = Fields /\ TrueOf(rc.receipt_id)
    <2> DEFINE seed == [decision |-> A!Decision(r), reasons |-> A!Reasons(r), policy |-> rules,
                        facts |-> facts[r]]
    <2>1. \A rc \in receipt'[r] : DOMAIN rc = Fields /\ rc.receipt_id = A!Seed(seed)
      BY DEF A!Decide, DecisionsInv, Fields
    <2>2. A!Seed(seed) = seed
      BY DEF A!Seed
    <2>3. TrueOf(seed)
      BY <1>3 DEF TrueOf, A!Decision, A!Reasons
    <2> QED
      BY <2>1, <2>2, <2>3
  <1>5. decided'[r] = A!Decision(r) /\ A!Decision(r) \in {"deny", "defer", "permit"}
    BY <1>1 DEF DecisionsInv, A!Decision
  <1>6. A!Decision(r)' = A!Decision(r)
    BY <1>1 DEF A!Decision
  <1>7. RunInv(r)'
    BY <1>1, <1>2, <1>4, <1>5, <1>6 DEF RunInv
  <1>8. \A s \in A!Runs \ {r} : decided'[s] = decided[s] /\ receipt'[s] = receipt[s]
    BY <1>1 DEF DecisionsInv, A!Decide
  <1>9. \A s \in A!Runs \ {r} : RunInv(s)'
    BY <1>1, <1>8 DEF DecisionsInv, RunInv, A!Decision
  <1>10. DOMAIN decided' = A!Runs /\ DOMAIN receipt' = A!Runs
    BY <1>1 DEF DecisionsInv, A!Decide
  <1> QED
    BY <1>1, <1>7, <1>9, <1>10 DEF DecisionsInv

\* Whoever changes a receipt leaves its identifier.
LEMMA EditKeeps ==
  ASSUME DecisionsInv, NEW r \in A!Runs, A!Edit(r)
  PROVE  DecisionsInv'
  <1>1. UNCHANGED <<rules, facts, next, failed, decided>>
    BY DEF A!Edit
  <1>2. PICK rc \in receipt[r] :
          /\ rc.receipt_id = A!Seed(rc)
          /\ \/ \E decision \in {"permit", "deny", "defer"} :
                   receipt' = [receipt EXCEPT ![r] = {[rc EXCEPT !.decision = decision]}]
             \/ receipt' = [receipt EXCEPT ![r] = {[rc EXCEPT !.reasons = {A!Passed}]}]
             \/ receipt' = [receipt EXCEPT ![r] = {[rc EXCEPT !.facts = facts["full"]]}]
    BY DEF A!Edit
  <1>3. \A new \in receipt'[r] : DOMAIN new = DOMAIN rc /\ new.receipt_id = rc.receipt_id
    <2>1. "receipt_id" \in DOMAIN rc
      BY <1>2 DEF DecisionsInv, RunInv, Fields
    <2> QED
      BY <1>2, <2>1 DEF DecisionsInv
  <1>4. DOMAIN rc = Fields /\ TrueOf(rc.receipt_id)
    BY <1>2 DEF DecisionsInv, RunInv
  <1>5. \A s \in A!Runs \ {r} : receipt'[s] = receipt[s]
    BY <1>2 DEF DecisionsInv
  <1>6. \A s \in A!Runs : RunInv(s)'
    BY <1>1, <1>3, <1>4, <1>5 DEF DecisionsInv, RunInv, A!Decision
  <1>7. DOMAIN receipt' = A!Runs
    BY <1>2 DEF DecisionsInv
  <1> QED
    BY <1>1, <1>6, <1>7 DEF DecisionsInv

LEMMA DecisionsInvariance == A!Spec => []DecisionsInv
  <1>1. DecisionsInv /\ [A!Next]_A!vars => DecisionsInv'
    <2> SUFFICES ASSUME DecisionsInv, [A!Next]_A!vars PROVE DecisionsInv'
      OBVIOUS
    <2>1. CASE UNCHANGED A!vars
      BY <2>1 DEF A!vars, DecisionsInv, RunInv, A!Decision
    <2>2. CASE A!Next
      BY <2>2, EvaluateKeeps, DecideKeeps, EditKeeps DEF A!Next
    <2> QED
      BY <2>1, <2>2
  <1> QED
    BY <1>1, DecisionsBegin, PTL DEF A!Spec

\* A receipt that verifies denies, defers and permits as the rules and the facts that it
\* names say, with all reasons: for any policies, facts and changes to receipts.
THEOREM ReceiptsTellTheTruth == A!Spec => []VerifiedReceiptIsTrue
  <1>1. DecisionsInv => VerifiedReceiptIsTrue
    <2> SUFFICES ASSUME DecisionsInv, NEW r \in A!Runs, NEW rc \in receipt[r], A!Verifies(rc)
                 PROVE  TrueOf(rc)
      BY DEF VerifiedReceiptIsTrue, A!VerifiedReceiptIsTrue, TrueOf
    <2>1. TrueOf(rc.receipt_id) /\ rc.receipt_id = A!Seed(rc)
      BY DEF DecisionsInv, RunInv, A!Verifies
    <2> QED
      BY <2>1 DEF A!Seed, TrueOf
  <1> QED
    BY <1>1, DecisionsInvariance, PTL

\* Of fewer facts a path says the same, or nothing.
LEMMA LessIsSame ==
  ASSUME DecisionsInv, NEW path
  PROVE  A!GetPath(facts["less"], path) \in {A!GetPath(facts["full"], path), A!Nothing}
  BY DEF DecisionsInv, A!GetPath

\* A rule that cannot hold because a fact is missing, where it holds of fewer facts, holds of all of them, and does not raise.
LEMMA RuleIsMonotone ==
  ASSUME DecisionsInv, NEW i \in DOMAIN rules, ~ A!AbsenceCanPass(rules[i]),
         ~ RaisesOn(facts["less"], rules[i]),
         A!Compare(A!Actual(facts["less"], rules[i]), A!Expected(facts["less"], rules[i]), rules[i].operator)
  PROVE  /\ ~ RaisesOn(facts["full"], rules[i])
         /\ A!Compare(A!Actual(facts["full"], rules[i]), A!Expected(facts["full"], rules[i]), rules[i].operator)
  <1> DEFINE rule == rules[i]
             op == rule.operator
             actual == A!Actual(facts["less"], rule)
             expected == A!Expected(facts["less"], rule)
             actualFull == A!Actual(facts["full"], rule)
             expectedFull == A!Expected(facts["full"], rule)
  <1>1. A!ValidRule(rule) /\ ~ A!AbsenceCanPass(rule)
    BY DEF DecisionsInv
  <1>2. actual \in {actualFull, A!Nothing}
    BY LessIsSame DEF A!Actual
  <1>3. expected \in {expectedFull, A!Nothing}
    BY LessIsSame DEF A!Expected
  <1>4. A!Nothing.kind = "none"
    BY DEF A!Nothing
  <1>5. A!Compare(actual, expected, op) /\ ~ A!Raises(actual, expected, op)
    BY DEF RaisesOn
  <1> HIDE DEF actual, expected, actualFull, expectedFull, op
  <1>6. A!Compare(actualFull, expectedFull, op) /\ ~ A!Raises(actualFull, expectedFull, op)
    <2>1. CASE op = "exists"
      BY <1>2, <1>5, <2>1 DEF A!Compare, A!Raises
    <2>2. CASE op = "eq"
      <3>1. expected # A!Nothing /\ expected = expectedFull
        <4>1. rule.operator = "eq" /\ ~ rule.path_given
          BY <1>1, <2>2 DEF A!AbsenceCanPass, op
        <4>2. rule.expected # A!Nothing
          BY <1>1, <4>1 DEF A!ValidRule
        <4> QED
          BY <4>1, <4>2 DEF expected, expectedFull, A!Expected
      <3>2. actual = expected
        BY <1>5, <2>2 DEF A!Compare
      <3> QED
        BY <1>2, <2>2, <3>1, <3>2 DEF A!Compare, A!Raises
    <2>3. CASE op = "in"
      <3>1. expected.kind \in {"list", "text"} /\ A!Member(actual, expected)
        BY <1>5, <2>3 DEF A!Compare
      <3>2. expectedFull = expected
        BY <1>3, <1>4, <3>1
      <3>3. actual # A!Nothing
        <4>1. CASE expected.kind = "list"
          <5>1. <<"none", 0>> \notin expected.of
            BY <1>1, <2>3, <3>2, <4>1 DEF A!AbsenceCanPass, op, expectedFull
          <5>2. <<actual.kind, actual.n>> \in expected.of
            BY <3>1, <4>1 DEF A!Member
          <5>3. actual # A!Nothing
            BY <5>1, <5>2 DEF A!Nothing
          <5> QED
            BY <5>3
        <4>2. CASE expected.kind = "text"
          BY <1>4, <1>5, <2>3, <4>2 DEF A!Raises
        <4> QED
          BY <3>1, <4>1, <4>2
      <3>4. actualFull = actual
        BY <1>2, <3>3
      <3> QED
        BY <1>5, <3>2, <3>4
    <2>4. CASE op \notin {"exists", "eq", "in"}
      <3>1. op \notin {"neq", "not_in"}
        BY <1>1 DEF A!AbsenceCanPass, op
      <3>2. A!Ordered(actual, expected, op)
        BY <1>5, <2>4, <3>1 DEF A!Compare
      <3>3. actual.kind \in {"num", "text"} /\ expected.kind \in {"num", "text"}
        BY <3>2 DEF A!Ordered
      <3>4. actualFull = actual /\ expectedFull = expected
        BY <1>2, <1>3, <1>4, <3>3
      <3> QED
        BY <1>5, <3>4
    <2> QED
      BY <2>1, <2>2, <2>3, <2>4
  <1> QED
    BY <1>6 DEF RaisesOn, actualFull, expectedFull, op

\* Leaving out facts never makes an action permitted, by rules none of which can hold
\* because a fact is missing: for any policies and facts.
THEOREM FactsAreNotMissed == A!Spec => []MissingNeverPermits
  <1>1. ASSUME DecisionsInv PROVE MissingNeverPermits
    <2> SUFFICES ASSUME \A i \in DOMAIN rules : ~ A!AbsenceCanPass(rules[i]), decided["less"] = "permit"
                 PROVE  decided["full"] \in {"permit", "evaluating"}
      BY DEF MissingNeverPermits, A!MissingNeverPermits
    <2>1. RunInv("less") /\ RunInv("full") /\ rules \in Policies
      BY <1>1 DEF DecisionsInv, A!Runs
    <2>2. A!Decision("less") = "permit" /\ next["less"] > Len(rules) /\ next["less"] \in Nat
      BY <2>1 DEF RunInv
    <2>3. failed["less"]["deny"] = {} /\ failed["less"]["defer"] = {}
      BY <2>2, Zenon DEF A!Decision
    <2>4. A!Failing(rules, facts["less"], "deny") = {} /\ A!Failing(rules, facts["less"], "defer") = {}
      BY <2>1, <2>2, <2>3, AllSeen DEF RunInv, Effects
    <2>5. ASSUME NEW i \in DOMAIN rules, rules[i].on_fail \in Effects
          PROVE  A!Compare(A!Actual(facts["less"], rules[i]), A!Expected(facts["less"], rules[i]), rules[i].operator)
      BY <2>4, <2>5 DEF A!Failing, Effects
    <2>6. ASSUME NEW i \in DOMAIN rules PROVE ~ RaisesOn(facts["less"], rules[i])
      <3>1. i < next["less"]
        BY <2>1, <2>2, PoliciesAssumption
      <3> QED
        BY <2>1, <3>1 DEF RunInv
    <2>7. A!Failing(rules, facts["full"], "deny") = {} /\ A!Failing(rules, facts["full"], "defer") = {}
      BY <1>1, <2>5, <2>6, RuleIsMonotone DEF A!Failing, Effects
    <2>8. \A i \in DOMAIN rules : ~ RaisesOn(facts["full"], rules[i])
      BY <1>1, <2>1, <2>5, <2>6, RuleIsMonotone, PoliciesAssumption DEF Effects
    <2>9. decided["full"] \notin {"raised", "deny", "defer"}
      <3>1. decided["full"] # "raised"
        BY <2>1, <2>8 DEF RunInv
      <3>2. SUFFICES ASSUME decided["full"] \in {"deny", "defer"} PROVE FALSE
        BY <3>1
      <3>3. failed["full"]["deny"] = {} /\ failed["full"]["defer"] = {}
        BY <2>1, <2>7, <3>2, AllSeen DEF RunInv, Effects
      <3>4. A!Decision("full") = "permit"
        BY <3>3 DEF A!Decision
      <3> QED
        BY <2>1, <3>2, <3>4 DEF RunInv
    <2> QED
      BY <2>1, <2>9 DEF RunInv
  <1> QED
    BY <1>1, DecisionsInvariance, PTL

-----------------------------------------------------------------------------
(* Trust anchors *)

\* What an operator is doing.
Doing(j) ==
    \/ j = [pc |-> "idle"]
    \/ j \in [pc : {"store", "fill"}, entry : T!Entry]
    \/ j \in [pc : {"read"}, left : SUBSET T!Entry, read : SUBSET T!Entry, known : SUBSET T!Entry]
    \/ j \in [pc : {"answered"}, answer : T!Entry \cup {NoAnchor}, known : SUBSET T!Entry]

\* What an inspection has still to read and what it has read: all that it knew of, but
\* for files that were written again.
ReadingOf(j, fs, ws, again) ==
    j.pc = "read" =>
        /\ j.left \subseteq fs /\ j.read \subseteq fs /\ j.known \subseteq fs
        /\ j.known \ again \subseteq ws
        /\ j.known \ again \subseteq j.left \cup j.read

\* The answer is right about the entries that are given.
RightAbout(answer, known, fs) ==
    /\ \A r \in known : r.action = "revoke" /\ answer # NoAnchor /\ answer.key = r.key
          => r.at < answer.at \/ (r.at = answer.at /\ answer.action = "rotate")
    /\ \A e \in known :
          \/ e.action = "revoke"
          \/ answer # NoAnchor /\ answer.at >= e.at
          \/ \E r \in fs : r.action = "revoke" /\ r.key = e.key
                             /\ (e.at < r.at \/ (e.at = r.at /\ e.action = "register"))

AnchorOf(j, fs, ws, again) ==
    /\ Doing(j)
    /\ j.pc = "fill" => j.entry \in fs
    /\ ReadingOf(j, fs, ws, again)
    /\ j.pc = "answered" => RightAbout(j.answer, j.known \ again, fs)

AnchorsInv ==
    /\ files \subseteq T!Entry /\ whole \subseteq files
    /\ time \in 0..MaxTime
    /\ DOMAIN operator = Operators
    /\ \A o \in Operators : AnchorOf(operator[o], files, whole, rewritten)

LEMMA DoingIs ==
  ASSUME NEW j, Doing(j)
  PROVE  /\ j.pc \in {"store", "fill"} => j \in [pc : {"store", "fill"}, entry : T!Entry]
         /\ j.pc = "read" => j \in [pc : {"read"}, left : SUBSET T!Entry, read : SUBSET T!Entry,
                                   known : SUBSET T!Entry]
  BY DEF Doing

LEMMA AnchorsBegin == T!Init => AnchorsInv
  BY AnchorsAssumption DEF T!Init, T!Idle, AnchorsInv, AnchorOf, Doing, ReadingOf

\* A job goes on being what it is while entries are added and files written again.
LEMMA OthersKeep ==
  ASSUME NEW j, NEW fs, NEW ws, NEW again, NEW more, NEW written, NEW twice, AnchorOf(j, fs, ws, again),
         fs \subseteq more, again \subseteq twice, ws \ twice \subseteq written
  PROVE  AnchorOf(j, more, written, twice)
  <1>1. Doing(j) /\ (j.pc = "fill" => j.entry \in more)
    BY DEF AnchorOf
  <1>2. ReadingOf(j, more, written, twice)
    BY DEF AnchorOf, ReadingOf
  <1>3. ASSUME j.pc = "answered" PROVE RightAbout(j.answer, j.known \ twice, more)
    <2>1. RightAbout(j.answer, j.known \ again, fs) /\ j.known \ twice \subseteq j.known \ again
      BY <1>3 DEF AnchorOf
    <2> QED
      BY <2>1 DEF RightAbout
  <1> QED
    BY <1>1, <1>2, <1>3 DEF AnchorOf

\* A step of one operator: his new job and the files are all there is to look at.
LEMMA OneOperator ==
  ASSUME AnchorsInv, NEW o \in Operators, NEW j, operator' = [operator EXCEPT ![o] = j],
         files \subseteq files', files' \subseteq T!Entry, whole' \subseteq files', UNCHANGED time,
         rewritten \subseteq rewritten', whole \ rewritten' \subseteq whole',
         AnchorOf(j, files', whole', rewritten')
  PROVE  AnchorsInv'
  <1>1. \A p \in Operators : operator'[p] = IF p = o THEN j ELSE operator[p]
    BY DEF AnchorsInv
  <1>2. \A p \in Operators : AnchorOf(operator'[p], files', whole', rewritten')
    BY <1>1, OthersKeep DEF AnchorsInv
  <1>3. DOMAIN operator' = Operators
    BY DEF AnchorsInv
  <1> QED
    BY <1>2, <1>3 DEF AnchorsInv

LEMMA IdleAnchor ==
  ASSUME NEW fs, NEW ws, NEW again
  PROVE  AnchorOf(T!Idle, fs, ws, again)
  BY DEF T!Idle, AnchorOf, Doing, ReadingOf

LEMMA CommandKeeps ==
  ASSUME AnchorsInv, NEW o \in Operators, NEW action \in T!Actions, NEW key \in Keys,
         T!Command(o, action, key)
  PROVE  AnchorsInv'
  <1> DEFINE j == [pc |-> "store", entry |-> [at |-> time, action |-> action, key |-> key]]
  <1>1. AnchorOf(j, files, whole, rewritten)
    BY DEF AnchorsInv, AnchorOf, Doing, ReadingOf, T!Entry
  <1> QED
    BY <1>1, OneOperator DEF T!Command, AnchorsInv

LEMMA OpenEntryKeeps ==
  ASSUME AnchorsInv, NEW o \in Operators, T!OpenEntry(o)
  PROVE  AnchorsInv'
  <1> DEFINE e == operator[o].entry
             j == [operator[o] EXCEPT !.pc = "fill"]
  <1>1. operator[o] \in [pc : {"store", "fill"}, entry : T!Entry]
    <2>1. Doing(operator[o]) /\ operator[o].pc = "store"
      BY DEF T!OpenEntry, AnchorsInv, AnchorOf
    <2> QED
      BY <2>1, DoingIs
  <1>2. /\ e \in T!Entry /\ files' = files \cup {e} /\ whole' = whole \ {e}
        /\ rewritten' = IF e \in files THEN rewritten \cup {e} ELSE rewritten
        /\ operator' = [operator EXCEPT ![o] = j]
    BY <1>1 DEF T!OpenEntry
  <1>3. whole \ rewritten' \subseteq whole'
    BY <1>2 DEF AnchorsInv
  <1>4. j \in [pc : {"fill"}, entry : T!Entry] /\ j.entry = e
    BY <1>1
  <1>5. AnchorOf(j, files', whole', rewritten')
    BY <1>2, <1>4 DEF AnchorOf, Doing, ReadingOf
  <1> QED
    BY <1>2, <1>3, <1>5, OneOperator DEF AnchorsInv, T!OpenEntry

LEMMA FillEntryKeeps ==
  ASSUME AnchorsInv, NEW o \in Operators, T!FillEntry(o)
  PROVE  AnchorsInv'
  <1>1. operator[o].entry \in files
    BY DEF T!FillEntry, AnchorsInv, AnchorOf
  <1> QED
    BY <1>1, IdleAnchor, OneOperator DEF T!FillEntry, AnchorsInv

LEMMA InspectKeeps ==
  ASSUME AnchorsInv, NEW o \in Operators, T!Inspect(o)
  PROVE  AnchorsInv'
  <1> DEFINE j == [pc |-> "read", left |-> files, read |-> {}, known |-> whole]
  <1>1. AnchorOf(j, files, whole, rewritten)
    BY DEF AnchorsInv, AnchorOf, Doing, ReadingOf
  <1> QED
    BY <1>1, OneOperator DEF T!Inspect, AnchorsInv

LEMMA ReadEntryKeeps ==
  ASSUME AnchorsInv, NEW o \in Operators, T!ReadEntry(o)
  PROVE  AnchorsInv'
  <1>1. PICK e \in operator[o].left :
          operator' = [operator EXCEPT ![o].left = @ \ {e},
                                       ![o].read = IF e \in whole THEN @ \cup {e} ELSE @]
    BY DEF T!ReadEntry
  <1>2. operator[o] \in [pc : {"read"}, left : SUBSET T!Entry, read : SUBSET T!Entry, known : SUBSET T!Entry]
    <2>1. Doing(operator[o]) /\ operator[o].pc = "read"
      BY DEF T!ReadEntry, AnchorsInv, AnchorOf
    <2> QED
      BY <2>1, DoingIs
  <1>3. ReadingOf(operator[o], files, whole, rewritten) /\ operator[o].pc = "read"
    BY DEF T!ReadEntry, AnchorsInv, AnchorOf
  <1> DEFINE j == [operator[o] EXCEPT !.left = @ \ {e}, !.read = IF e \in whole THEN @ \cup {e} ELSE @]
  <1>4. operator' = [operator EXCEPT ![o] = j]
    BY <1>1, <1>2 DEF AnchorsInv
  <1>5. /\ j \in [pc : {"read"}, left : SUBSET T!Entry, read : SUBSET T!Entry, known : SUBSET T!Entry]
        /\ j.left = operator[o].left \ {e} /\ j.known = operator[o].known
        /\ j.read = IF e \in whole THEN operator[o].read \cup {e} ELSE operator[o].read
    BY <1>2
  <1> HIDE DEF j
  <1>6. ReadingOf(j, files, whole, rewritten)
    BY <1>3, <1>5 DEF ReadingOf
  <1>7. AnchorOf(j, files, whole, rewritten)
    BY <1>5, <1>6 DEF AnchorOf, Doing
  <1> QED
    BY <1>4, <1>7, OneOperator DEF T!ReadEntry, AnchorsInv

\* Two entries of one key are in an order, which is that of numbers.
Place(e) == 3 * e.at + T!Rank[e.action]

LEMMA PlaceIs ==
  ASSUME NEW d \in T!Entry, NEW e \in T!Entry, d.key = e.key, d # e
  PROVE  /\ Place(d) \in Nat /\ Place(d) <= 3 * MaxTime + 3
         /\ T!Before(d, e) <=> Place(d) < Place(e)
         /\ Place(d) # Place(e)
  <1>1. /\ d.at \in 0..MaxTime /\ e.at \in 0..MaxTime /\ d.action \in T!Actions /\ e.action \in T!Actions
        /\ d = [at |-> d.at, action |-> d.action, key |-> d.key]
        /\ e = [at |-> e.at, action |-> e.action, key |-> e.key]
    BY DEF T!Entry
  <1>2. d.at # e.at \/ d.action # e.action
    BY <1>1
  <1>3. \A a \in T!Actions : T!Rank[a] \in 1..3
    BY DEF T!Actions, T!Rank
  <1>4. \A a, b \in T!Actions : a # b => T!Rank[a] # T!Rank[b]
    BY DEF T!Actions, T!Rank
  <1>5. PICK x, y, m, n : x = T!Rank[d.action] /\ y = T!Rank[e.action] /\ m = d.at /\ n = e.at
    OBVIOUS
  <1>6. x \in 1..3 /\ y \in 1..3 /\ m \in 0..MaxTime /\ n \in 0..MaxTime /\ (m # n \/ x # y)
    BY <1>1, <1>2, <1>3, <1>4, <1>5
  <1>7. Place(d) = 3 * m + x /\ Place(e) = 3 * n + y
    BY <1>5 DEF Place
  <1>8. T!Before(d, e) <=> m < n \/ (m = n /\ x < y)
    BY <1>5 DEF T!Before
  <1> QED
    BY <1>6, <1>7, <1>8, AnchorsAssumption

\* The natural numbers up to a bound: a set of them has a largest.
LEMMA LargestNat ==
  ASSUME NEW b \in Nat, NEW S \in SUBSET (0..b), S # {}
  PROVE  \E x \in S : \A y \in S : y <= x
  <1> DEFINE R == OpToRel(<, Nat)
             U == {b - x : x \in S}
  <1>1. IsWellFoundedOn(R, Nat)
    BY NatLessThanWellFounded, Zenon
  <1>2. \A x, y \in Nat : y < x => <<y, x>> \in R
    BY DEF OpToRel
  <1> HIDE DEF R
  <1>3. U \subseteq Nat /\ U # {}
    <2>1. \A x \in S : x \in 0..b /\ b - x \in Nat
      OBVIOUS
    <2> QED
      BY <2>1
  <1>4. PICK u \in U : \A v \in U : ~ (<<v, u>> \in R)
    BY <1>1, <1>3, WFMin
  <1>5. \A v \in U : u <= v
    <2> HIDE DEF U
    <2>1. \A v \in U : ~ (v < u) /\ v \in Nat /\ u \in Nat
      BY <1>2, <1>3, <1>4
    <2> QED
      BY <2>1
  <1>6. PICK x \in S : u = b - x
    BY <1>4
  <1>7. \A y \in S : b - x <= b - y
    BY <1>5, <1>6
  <1> QED
    BY <1>7

\* Of the entries that were read of one key there is a last one.
LEMMA LastOfKey ==
  ASSUME NEW read \in SUBSET T!Entry, NEW e \in read
  PROVE  \E m \in read : /\ m.key = e.key
                         /\ \A d \in read : d.key = e.key /\ d # m => T!Before(d, m)
  <1> DEFINE D == {d \in read : d.key = e.key}
             S == {Place(d) : d \in D}
             b == 3 * MaxTime + 3
  <1>1. b \in Nat
    BY AnchorsAssumption
  <1>2. \A d \in D : Place(d) \in 0..b
    <2>1. SUFFICES ASSUME NEW d \in D PROVE Place(d) \in 0..b
      OBVIOUS
    <2>2. d.at \in 0..MaxTime /\ d.action \in T!Actions
      BY DEF T!Entry
    <2>3. T!Rank[d.action] \in 1..3
      BY <2>2 DEF T!Actions, T!Rank
    <2>4. PICK x, y : x = d.at /\ y = T!Rank[d.action]
      OBVIOUS
    <2> QED
      BY <2>2, <2>3, <2>4, AnchorsAssumption DEF Place
  <1>3. S \subseteq 0..b /\ S # {}
    BY <1>2
  <1>4. PICK x \in S : \A y \in S : y <= x
    <2> HIDE DEF S, b
    <2> QED
      BY <1>1, <1>3, LargestNat
  <1>5. PICK m \in D : x = Place(m)
    BY <1>4
  <1>6. ASSUME NEW d \in D, d # m PROVE T!Before(d, m)
    <2>1. Place(d) <= Place(m)
      BY <1>4, <1>5
    <2>2. Place(d) # Place(m) /\ (T!Before(d, m) <=> Place(d) < Place(m))
      BY <1>6, PlaceIs
    <2>3. Place(d) \in Nat /\ Place(m) \in Nat
      BY <1>2
    <2> QED
      BY <2>1, <2>2, <2>3
  <1> QED
    BY <1>5, <1>6

\* What latest_active_anchor makes of the entries that were read is right about them.
LEMMA AnswerIsRight ==
  ASSUME NEW read \in SUBSET T!Entry, NEW answer \in T!Latest(T!Active(read))
  PROVE  answer \in T!Entry \cup {NoAnchor} /\ RightAbout(answer, read, read)
  <1>1. T!Active(read) \subseteq read
    BY DEF T!Active
  <1>2. answer # NoAnchor => answer \in T!Active(read)
    BY DEF T!Latest
  <1>3. T!Active(read) # {} => answer # NoAnchor /\ \A d \in T!Active(read) : d.at <= answer.at
    BY <1>1, AnchorsAssumption DEF T!Latest
  <1>4. T!Rank["register"] = 1 /\ T!Rank["revoke"] = 2 /\ T!Rank["rotate"] = 3
    BY DEF T!Rank
  <1>5. \A d \in T!Entry : d.at \in 0..MaxTime /\ d.action \in T!Actions
    BY DEF T!Entry
  <1>6. ASSUME NEW r \in read, r.action = "revoke", answer # NoAnchor, answer.key = r.key
        PROVE  r.at < answer.at \/ (r.at = answer.at /\ answer.action = "rotate")
    <2>1. answer \in T!Active(read) /\ answer \in T!Entry
      BY <1>1, <1>2, <1>6
    <2>2. answer.action # "revoke" /\ T!Before(r, answer)
      BY <1>6, <2>1 DEF T!Active
    <2>3. answer.action \in {"register", "rotate"}
      BY <1>5, <2>1, <2>2 DEF T!Actions
    <2> QED
      BY <1>4, <1>6, <2>2, <2>3 DEF T!Before
  <1>7. ASSUME NEW e \in read, e.action # "revoke"
        PROVE  \/ answer # NoAnchor /\ answer.at >= e.at
               \/ \E r \in read : r.action = "revoke" /\ r.key = e.key
                                    /\ (e.at < r.at \/ (e.at = r.at /\ e.action = "register"))
    <2>1. PICK m \in read : /\ m.key = e.key
                            /\ \A d \in read : d.key = e.key /\ d # m => T!Before(d, m)
      BY LastOfKey
    <2>2. m = e \/ T!Before(e, m)
      BY <2>1
    <2>3. CASE m.action = "revoke"
      <3>1. e.action \in {"register", "rotate"} /\ T!Before(e, m)
        BY <1>5, <1>7, <2>2, <2>3 DEF T!Actions
      <3>2. e.at < m.at \/ (e.at = m.at /\ e.action = "register")
        BY <1>4, <2>3, <3>1 DEF T!Before
      <3> QED
        BY <2>1, <2>3, <3>2
    <2>4. CASE m.action # "revoke"
      <3>1. m \in T!Active(read)
        BY <2>1, <2>4 DEF T!Active
      <3>2. answer # NoAnchor /\ m.at <= answer.at /\ answer \in T!Entry
        BY <1>1, <1>2, <1>3, <3>1
      <3>3. e.at <= m.at
        BY <1>5, <2>2 DEF T!Before
      <3>4. e.at \in Nat /\ m.at \in Nat /\ answer.at \in Nat
        BY <1>5, <3>2
      <3> QED
        BY <3>2, <3>3, <3>4
    <2> QED
      BY <2>3, <2>4
  <1>8. answer \in T!Entry \cup {NoAnchor}
    BY <1>1, <1>2
  <1> QED
    BY <1>6, <1>7, <1>8 DEF RightAbout

LEMMA AnswerKeeps ==
  ASSUME AnchorsInv, NEW o \in Operators, T!Answer(o)
  PROVE  AnchorsInv'
  <1> DEFINE read == operator[o].read
             known == operator[o].known
  <1>1. PICK answer \in T!Latest(T!Active(read)) :
          operator' = [operator EXCEPT ![o] = [pc |-> "answered", answer |-> answer, known |-> known]]
    BY DEF T!Answer
  <1>2. operator[o].pc = "read" /\ operator[o].left = {} /\ ReadingOf(operator[o], files, whole, rewritten)
    BY DEF T!Answer, AnchorsInv, AnchorOf
  <1>3. operator[o] \in [pc : {"read"}, left : SUBSET T!Entry, read : SUBSET T!Entry, known : SUBSET T!Entry]
    BY <1>2, DoingIs DEF AnchorsInv, AnchorOf
  <1>4. read \subseteq files /\ known \ rewritten \subseteq read
    BY <1>2 DEF ReadingOf
  <1>5. answer \in T!Entry \cup {NoAnchor} /\ RightAbout(answer, read, read)
    BY <1>3, AnswerIsRight
  <1>6. RightAbout(answer, known \ rewritten, files)
    BY <1>4, <1>5 DEF RightAbout
  <1> DEFINE j == [pc |-> "answered", answer |-> answer, known |-> known]
  <1>7. AnchorOf(j, files, whole, rewritten)
    BY <1>3, <1>5, <1>6 DEF AnchorOf, Doing, ReadingOf
  <1> QED
    BY <1>1, <1>7, OneOperator DEF T!Answer, AnchorsInv

LEMMA AnchorsInvariance == T!Spec => []AnchorsInv
  <1>1. AnchorsInv /\ [T!Next]_T!vars => AnchorsInv'
    <2> SUFFICES ASSUME AnchorsInv, [T!Next]_T!vars PROVE AnchorsInv'
      OBVIOUS
    <2>1. CASE UNCHANGED T!vars
      BY <2>1 DEF T!vars, AnchorsInv
    <2>2. CASE T!Tick
      BY <2>2, AnchorsAssumption DEF T!Tick, AnchorsInv
    <2>3. ASSUME NEW o \in Operators, T!Die(o) \/ T!Leave(o) PROVE AnchorsInv'
      BY <2>3, IdleAnchor, OneOperator DEF T!Die, T!Leave, AnchorsInv
    <2> QED
      BY <2>1, <2>2, <2>3, CommandKeeps, OpenEntryKeeps, FillEntryKeeps, InspectKeeps, ReadEntryKeeps,
         AnswerKeeps DEF T!Next
  <1> QED
    BY <1>1, AnchorsBegin, PTL DEF T!Spec

\* An inspection does not answer a key that was revoked before it began, and finds an
\* anchor at least as late as every one that was there and is not revoked: for any
\* operators, keys and times.
THEOREM RevokedStaysRevoked == T!Spec => []InspectionIsRight
  <1>1. AnchorsInv => InspectionIsRight
    BY DEF AnchorsInv, AnchorOf, RightAbout, InspectionIsRight, T!InspectionIsRight, T!Known
  <1> QED
    BY <1>1, AnchorsInvariance, PTL

-----------------------------------------------------------------------------
(* Evidence bundles *)

\* What a job of a builder has.
BuilderOK(j) ==
    /\ j.pc \in {"idle", "next", "copy", "hash", "manifest", "digest", "built"}
    /\ j.pc # "idle" => {"pc", "alone"} \subseteq DOMAIN j /\ j.alone \in BOOLEAN
    /\ j.pc \notin {"idle", "built"} => {"left", "inside", "hashes"} \subseteq DOMAIN j
    /\ j.pc \in {"copy", "hash"} => "of" \in DOMAIN j

\* Hashes that are those of the files, except of the files that others have written.
HashesOf(hashes, files_, except) ==
    \A f \in DOMAIN hashes \ except : f \in DOMAIN files_ /\ files_[f] = hashes[f]

\* What a builder who is alone can rely on: the files that it has hashed are as they were,
\* or others have written them, and no source is copied twice.
LoneBuilder(j, files_, m, d, except) ==
    /\ j.pc \notin {"idle", "built"} => HashesOf(j.hashes, files_, except)
    /\ j.pc \in {"next", "copy", "hash"} => j.left \cap DOMAIN j.hashes = {}
    /\ j.pc \in {"copy", "hash"} => j.of \in DOMAIN files_ \ (DOMAIN j.hashes \cup j.left)
    /\ j.pc = "digest" => m = E!Written(j.hashes)
    /\ j.pc = "built" => m.state = "written" /\ HashesOf(m.is, files_, except) /\ d = m

Alone(b) == builder[b].pc # "idle" /\ builder[b].alone

EvidenceInv ==
    /\ DOMAIN builder = Builders
    /\ \A b \in Builders : BuilderOK(builder[b])
    /\ \A b \in Builders : Alone(b) => LoneBuilder(builder[b], copy, manifest, digest, touched)
    /\ \A b, c \in Builders : Alone(b) /\ b # c => ~ E!Building(c)

LEMMA EvidenceBegins == E!Init => EvidenceInv
  BY DEF E!Init, E!Idle, EvidenceInv, BuilderOK, Alone

LEMMA StartKeeps ==
  ASSUME EvidenceInv, NEW b \in Builders, NEW chosen, NEW inside, E!Start(b, chosen, inside)
  PROVE  EvidenceInv'
  <1> DEFINE new == [pc |-> "next", left |-> chosen, inside |-> inside, hashes |-> [s \in {} |-> 0],
                     alone |-> \A d \in Builders \ {b} : ~ E!Building(d)]
  <1>1. /\ builder' = [c \in Builders |->
              IF c = b THEN new
              ELSE IF E!Building(c) THEN [builder[c] EXCEPT !.alone = FALSE] ELSE E!Idle]
        /\ UNCHANGED <<copy, manifest, digest>>
    BY DEF E!Start
  <1>2. builder'[b] = new
    BY <1>1
  <1>3. ASSUME NEW c \in Builders, c # b
        PROVE  BuilderOK(builder'[c]) /\ ~ Alone(c)' /\ (E!Building(c)' => E!Building(c))
    <2>1. CASE E!Building(c)
      <3>1. BuilderOK(builder[c]) /\ builder[c].pc \notin {"idle", "built"}
        BY <2>1 DEF EvidenceInv, E!Building
      <3>2. builder'[c] = [builder[c] EXCEPT !.alone = FALSE]
        BY <1>1, <1>3, <2>1
      <3>3. /\ builder'[c].pc = builder[c].pc /\ builder'[c].alone = FALSE
            /\ DOMAIN builder'[c] = DOMAIN builder[c]
        BY <3>1, <3>2 DEF BuilderOK
      <3> QED
        BY <2>1, <3>1, <3>3 DEF BuilderOK, Alone
    <2>2. CASE ~ E!Building(c)
      BY <1>1, <1>3, <2>2 DEF E!Idle, BuilderOK, Alone, E!Building
    <2> QED
      BY <2>1, <2>2
  <1>4. BuilderOK(new) /\ LoneBuilder(new, copy, manifest, digest, touched')
    BY DEF BuilderOK, LoneBuilder, HashesOf
  <1>5. ASSUME Alone(b)', NEW c \in Builders, c # b PROVE ~ E!Building(c)'
    BY <1>2, <1>3, <1>5 DEF Alone
  <1>6. \A c \in Builders : BuilderOK(builder'[c])
    BY <1>2, <1>3, <1>4
  <1>7. \A c \in Builders : Alone(c)' => LoneBuilder(builder'[c], copy', manifest', digest', touched')
    BY <1>1, <1>2, <1>3, <1>4
  <1>8. \A c, d \in Builders : Alone(c)' /\ c # d => ~ E!Building(d)'
    BY <1>3, <1>5
  <1> QED
    BY <1>1, <1>6, <1>7, <1>8 DEF EvidenceInv

\* Where a builder takes a step nobody else is alone, and what there is to show is about
\* the builder.
LEMMA OneBuilder ==
  ASSUME EvidenceInv, NEW b \in Builders, E!Building(b), NEW j, builder' = [builder EXCEPT ![b] = j],
         BuilderOK(j),
         j.pc # "idle" => j.alone = builder[b].alone,
         j.pc # "idle" /\ j.alone => LoneBuilder(j, copy', manifest', digest', touched')
  PROVE  EvidenceInv'
  <1>1. builder'[b] = j /\ \A c \in Builders \ {b} : builder'[c] = builder[c]
    BY DEF EvidenceInv
  <1>2. \A c \in Builders \ {b} : ~ Alone(c) /\ ~ Alone(c)'
    BY <1>1 DEF EvidenceInv, Alone
  <1>3. builder[b].pc # "idle"
    BY DEF E!Building
  <1>4. Alone(b)' => Alone(b)
    BY <1>1, <1>3 DEF Alone
  <1>5. \A c \in Builders \ {b} : E!Building(c)' <=> E!Building(c)
    BY <1>1 DEF E!Building
  <1>6. \A c, d \in Builders : Alone(c)' /\ c # d => ~ E!Building(d)'
    BY <1>2, <1>4, <1>5 DEF EvidenceInv
  <1>7. \A c \in Builders : BuilderOK(builder'[c])
    BY <1>1 DEF EvidenceInv
  <1>8. \A c \in Builders : Alone(c)' => LoneBuilder(builder'[c], copy', manifest', digest', touched')
    BY <1>1, <1>2 DEF Alone
  <1>9. DOMAIN builder' = Builders
    BY DEF EvidenceInv
  <1> QED
    BY <1>6, <1>7, <1>8, <1>9 DEF EvidenceInv

LEMMA BuilderIs ==
  ASSUME EvidenceInv, NEW b \in Builders, builder[b].pc \notin {"idle", "built"}
  PROVE  /\ E!Building(b) /\ BuilderOK(builder[b])
         /\ builder[b].alone => LoneBuilder(builder[b], copy, manifest, digest, touched)
  BY DEF EvidenceInv, E!Building, Alone

LEMMA OpenCopyKeeps ==
  ASSUME EvidenceInv, NEW b \in Builders, NEW s, E!OpenCopy(b, s)
  PROVE  EvidenceInv'
  <1> DEFINE j == builder[b]
             new == [pc |-> "copy", of |-> s, was |-> source[s], left |-> j.left \ {s},
                     inside |-> j.inside, hashes |-> j.hashes, alone |-> j.alone]
  <1>1. j.pc = "next" /\ s \in j.left /\ UNCHANGED <<manifest, digest, touched>>
    BY DEF E!OpenCopy
  <1>2. E!Building(b) /\ BuilderOK(j) /\ (j.alone => LoneBuilder(j, copy, manifest, digest, touched))
    BY <1>1, BuilderIs
  <1>3. CASE source[s] = 0
    <2>1. builder' = [builder EXCEPT ![b] = E!Idle] /\ BuilderOK(E!Idle) /\ E!Idle.pc = "idle"
      BY <1>3 DEF E!OpenCopy, E!Idle, BuilderOK
    <2> QED
      BY <1>2, <2>1, OneBuilder
  <1>4. CASE source[s] # 0
    <2>1. /\ copy' = [f \in DOMAIN copy \cup {s} |-> IF f = s THEN 0 ELSE copy[f]]
          /\ builder' = [builder EXCEPT ![b] = new]
      BY <1>4 DEF E!OpenCopy, EvidenceInv
    <2>2. BuilderOK(new) /\ new.alone = j.alone
      BY <1>1, <1>2 DEF BuilderOK
    <2>3. ASSUME j.alone PROVE LoneBuilder(new, copy', manifest', digest', touched')
      <3>1. /\ HashesOf(j.hashes, copy, touched) /\ j.left \cap DOMAIN j.hashes = {}
        BY <1>1, <1>2, <2>3 DEF LoneBuilder
      <3>2. s \notin DOMAIN j.hashes
        BY <1>1, <3>1
      <3>3. HashesOf(j.hashes, copy', touched)
        BY <2>1, <3>1, <3>2 DEF HashesOf
      <3>4. s \in DOMAIN copy' /\ s \notin j.left \ {s} /\ (j.left \ {s}) \cap DOMAIN j.hashes = {}
        BY <2>1, <3>1
      <3> QED
        BY <1>1, <3>2, <3>3, <3>4 DEF LoneBuilder
    <2> QED
      BY <1>2, <2>1, <2>2, <2>3, OneBuilder
  <1> QED
    BY <1>3, <1>4

LEMMA FindInsideKeeps ==
  ASSUME EvidenceInv, NEW b \in Builders, NEW s, E!FindInside(b, s)
  PROVE  EvidenceInv'
  <1> DEFINE j == builder[b]
             new == [pc |-> "hash", of |-> s, left |-> j.left \ {s}, inside |-> j.inside,
                     hashes |-> j.hashes, alone |-> j.alone]
  <1>1. j.pc = "next" /\ s \in j.left /\ UNCHANGED <<copy, manifest, digest, touched>>
    BY DEF E!FindInside
  <1>2. E!Building(b) /\ BuilderOK(j) /\ (j.alone => LoneBuilder(j, copy, manifest, digest, touched))
    BY <1>1, BuilderIs
  <1>3. CASE s \notin DOMAIN copy
    <2>1. builder' = [builder EXCEPT ![b] = E!Idle] /\ BuilderOK(E!Idle) /\ E!Idle.pc = "idle"
      BY <1>3 DEF E!FindInside, E!Idle, BuilderOK
    <2> QED
      BY <1>2, <2>1, OneBuilder
  <1>4. CASE s \in DOMAIN copy
    <2>1. builder' = [builder EXCEPT ![b] = new]
      BY <1>4 DEF E!FindInside, EvidenceInv
    <2>2. BuilderOK(new) /\ new.alone = j.alone
      BY <1>1, <1>2 DEF BuilderOK
    <2>3. j.alone => LoneBuilder(new, copy', manifest', digest', touched')
      BY <1>1, <1>2, <1>4 DEF LoneBuilder
    <2> QED
      BY <1>2, <2>1, <2>2, <2>3, OneBuilder
  <1> QED
    BY <1>3, <1>4

LEMMA FillCopyKeeps ==
  ASSUME EvidenceInv, NEW b \in Builders, E!FillCopy(b)
  PROVE  EvidenceInv'
  <1> DEFINE j == builder[b]
             new == [j EXCEPT !.pc = "hash"]
  <1>1. PICK v : copy' = [copy EXCEPT ![j.of] = v]
    BY DEF E!FillCopy
  <1>2. j.pc = "copy" /\ builder' = [builder EXCEPT ![b] = new] /\ UNCHANGED <<manifest, digest, touched>>
    BY DEF E!FillCopy, EvidenceInv
  <1>3. E!Building(b) /\ BuilderOK(j) /\ (j.alone => LoneBuilder(j, copy, manifest, digest, touched))
    BY <1>2, BuilderIs
  <1>4. /\ new.pc = "hash" /\ new.alone = j.alone /\ new.left = j.left /\ new.hashes = j.hashes
        /\ new.of = j.of /\ DOMAIN new = DOMAIN j
    BY <1>2, <1>3 DEF BuilderOK
  <1> HIDE DEF new
  <1>5. BuilderOK(new)
    BY <1>2, <1>3, <1>4 DEF BuilderOK
  <1>6. ASSUME j.alone PROVE LoneBuilder(new, copy', manifest', digest', touched')
    <2>1. /\ HashesOf(j.hashes, copy, touched) /\ j.left \cap DOMAIN j.hashes = {}
          /\ j.of \in DOMAIN copy \ (DOMAIN j.hashes \cup j.left)
      BY <1>2, <1>3, <1>6 DEF LoneBuilder
    <2>2. HashesOf(j.hashes, copy', touched) /\ DOMAIN copy' = DOMAIN copy
      BY <1>1, <2>1 DEF HashesOf
    <2> QED
      BY <1>2, <1>4, <2>1, <2>2 DEF LoneBuilder
  <1> QED
    BY <1>2, <1>3, <1>4, <1>5, <1>6, OneBuilder

LEMMA HashCopyKeeps ==
  ASSUME EvidenceInv, NEW b \in Builders, E!HashCopy(b)
  PROVE  EvidenceInv'
  <1> DEFINE j == builder[b]
             hashes == [f \in DOMAIN j.hashes \cup {j.of} |-> IF f = j.of THEN copy[f] ELSE j.hashes[f]]
             new == [pc |-> "next", left |-> j.left, inside |-> j.inside, alone |-> j.alone, hashes |-> hashes]
             except == touched \ {j.of}
  <1>1. /\ j.pc = "hash" /\ builder' = [builder EXCEPT ![b] = new] /\ UNCHANGED <<copy, manifest, digest>>
        /\ touched' = except
    BY DEF E!HashCopy, EvidenceInv
  <1>2. E!Building(b) /\ BuilderOK(j) /\ (j.alone => LoneBuilder(j, copy, manifest, digest, touched))
    BY <1>1, BuilderIs
  <1>3. BuilderOK(new)
    BY <1>1, <1>2 DEF BuilderOK
  <1>4. ASSUME j.alone PROVE LoneBuilder(new, copy, manifest, digest, except)
    <2>1. /\ HashesOf(j.hashes, copy, touched) /\ j.left \cap DOMAIN j.hashes = {}
          /\ j.of \in DOMAIN copy \ (DOMAIN j.hashes \cup j.left)
      BY <1>1, <1>2, <1>4 DEF LoneBuilder
    <2>2. HashesOf(hashes, copy, except) /\ j.left \cap DOMAIN hashes = {}
      BY <2>1 DEF HashesOf
    <2> HIDE DEF hashes, except
    <2> QED
      BY <2>2 DEF LoneBuilder
  <1> QED
    BY <1>1, <1>2, <1>3, <1>4, OneBuilder

LEMMA OpenManifestKeeps ==
  ASSUME EvidenceInv, NEW b \in Builders, E!OpenManifest(b)
  PROVE  EvidenceInv'
  <1> DEFINE j == builder[b]
             new == [j EXCEPT !.pc = "manifest"]
  <1>1. j.pc = "next" /\ builder' = [builder EXCEPT ![b] = new] /\ UNCHANGED <<copy, digest, touched>>
    BY DEF E!OpenManifest, EvidenceInv
  <1>2. E!Building(b) /\ BuilderOK(j) /\ (j.alone => LoneBuilder(j, copy, manifest, digest, touched))
    BY <1>1, BuilderIs
  <1>3. new.pc = "manifest" /\ new.alone = j.alone /\ new.hashes = j.hashes /\ DOMAIN new = DOMAIN j
    BY <1>1, <1>2 DEF BuilderOK
  <1> HIDE DEF new
  <1>4. BuilderOK(new)
    BY <1>1, <1>2, <1>3 DEF BuilderOK
  <1>5. j.alone => LoneBuilder(new, copy', manifest', digest', touched')
    BY <1>1, <1>2, <1>3 DEF LoneBuilder
  <1> QED
    BY <1>1, <1>2, <1>3, <1>4, <1>5, OneBuilder

LEMMA FillManifestKeeps ==
  ASSUME EvidenceInv, NEW b \in Builders, E!FillManifest(b)
  PROVE  EvidenceInv'
  <1> DEFINE j == builder[b]
             new == [j EXCEPT !.pc = "digest"]
  <1>1. /\ j.pc = "manifest" /\ builder' = [builder EXCEPT ![b] = new] /\ UNCHANGED <<copy, digest, touched>>
        /\ manifest' = E!Written(j.hashes)
    BY DEF E!FillManifest, EvidenceInv
  <1>2. E!Building(b) /\ BuilderOK(j) /\ (j.alone => LoneBuilder(j, copy, manifest, digest, touched))
    BY <1>1, BuilderIs
  <1>3. new.pc = "digest" /\ new.alone = j.alone /\ new.hashes = j.hashes /\ DOMAIN new = DOMAIN j
    BY <1>1, <1>2 DEF BuilderOK
  <1> HIDE DEF new
  <1>4. BuilderOK(new)
    BY <1>1, <1>2, <1>3 DEF BuilderOK
  <1>5. j.alone => LoneBuilder(new, copy', manifest', digest', touched')
    BY <1>1, <1>2, <1>3 DEF LoneBuilder
  <1> QED
    BY <1>1, <1>2, <1>3, <1>4, <1>5, OneBuilder

LEMMA WriteDigestKeeps ==
  ASSUME EvidenceInv, NEW b \in Builders, E!WriteDigest(b)
  PROVE  EvidenceInv'
  <1> DEFINE j == builder[b]
             new == [pc |-> "built", alone |-> j.alone]
  <1>1. /\ j.pc = "digest" /\ builder' = [builder EXCEPT ![b] = new] /\ UNCHANGED <<copy, manifest, touched>>
        /\ digest' = manifest
    BY DEF E!WriteDigest, EvidenceInv
  <1>2. E!Building(b) /\ BuilderOK(j) /\ (j.alone => LoneBuilder(j, copy, manifest, digest, touched))
    BY <1>1, BuilderIs
  <1>3. BuilderOK(new)
    BY <1>1, <1>2 DEF BuilderOK
  <1>4. j.alone => LoneBuilder(new, copy', manifest', digest', touched')
    BY <1>1, <1>2 DEF LoneBuilder, E!Written
  <1> QED
    BY <1>1, <1>2, <1>3, <1>4, OneBuilder

\* A file that others write is one they have written.
LEMMA TouchKeeps ==
  ASSUME EvidenceInv, NEW s, E!Touch(s)
  PROVE  EvidenceInv'
  <1>1. PICK v : copy' = [f \in DOMAIN copy \cup {s} |-> IF f = s THEN v ELSE copy[f]]
    BY DEF E!Touch
  <1>2. touched' = touched \cup {s} /\ UNCHANGED <<manifest, digest, builder>>
    BY DEF E!Touch
  <1>3. ASSUME NEW hashes, HashesOf(hashes, copy, touched) PROVE HashesOf(hashes, copy', touched')
    BY <1>1, <1>2, <1>3 DEF HashesOf
  <1>4. ASSUME NEW b \in Builders, Alone(b) PROVE LoneBuilder(builder[b], copy', manifest, digest, touched')
    <2>1. LoneBuilder(builder[b], copy, manifest, digest, touched)
      BY <1>4 DEF EvidenceInv
    <2> QED
      BY <1>1, <1>3, <2>1 DEF LoneBuilder
  <1> QED
    BY <1>2, <1>4 DEF EvidenceInv, Alone, E!Building

LEMMA EvidenceInvariance == E!Spec => []EvidenceInv
  <1>1. EvidenceInv /\ [E!Next]_E!vars => EvidenceInv'
    <2> SUFFICES ASSUME EvidenceInv, [E!Next]_E!vars PROVE EvidenceInv'
      OBVIOUS
    <2>1. CASE UNCHANGED E!vars
      BY <2>1 DEF E!vars, EvidenceInv, Alone, E!Building
    <2>2. ASSUME NEW s \in Sources, E!Change(s) PROVE EvidenceInv'
      BY <2>2 DEF E!Change, EvidenceInv, Alone, E!Building
    <2>4. ASSUME NEW s \in Sources, E!Touch(s) PROVE EvidenceInv'
      BY <2>4, TouchKeeps
    <2>3. ASSUME NEW b \in Builders, E!Die(b) PROVE EvidenceInv'
      <3>1. E!Building(b) /\ builder' = [builder EXCEPT ![b] = E!Idle]
        BY <2>3 DEF E!Die
      <3>2. BuilderOK(E!Idle) /\ E!Idle.pc = "idle"
        BY DEF E!Idle, BuilderOK
      <3> QED
        BY <3>1, <3>2, OneBuilder
    <2> QED
      BY <2>1, <2>2, <2>3, <2>4, StartKeeps, OpenCopyKeeps, FindInsideKeeps, FillCopyKeeps, HashCopyKeeps, OpenManifestKeeps,
         FillManifestKeeps, WriteDigestKeeps DEF E!Next
  <1> QED
    BY <1>1, EvidenceBegins, PTL DEF E!Spec

\* A bundle built by one builder alone has a manifest and its digest, and no errors but in
\* files of the bundle that others wrote after they were hashed: for any sources, versions
\* and builders.
THEOREM LoneBundlesVerify == E!Spec => []BuiltAloneVerifies
  <1>1. EvidenceInv => BuiltAloneVerifies
    BY DEF EvidenceInv, Alone, LoneBuilder, HashesOf, BuiltAloneVerifies, E!BuiltAloneVerifies, E!Errors
  <1> QED
    BY <1>1, EvidenceInvariance, PTL
=============================================================================
