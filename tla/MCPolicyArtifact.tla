--------------------------- MODULE MCPolicyArtifact ---------------------------
(***************************************************************************)
(* TLC instances of PolicyArtifact.  Every node has the rules its name     *)
(* says; k1 and k2 are the usual signers, k3 is on nobody's list.          *)
(***************************************************************************)
EXTENDS PolicyArtifact, TLC

CONSTANTS k1, k2, k3, a, b, f1, f2, p1, p2

MCKey2 == {k1, k2}
MCKey3 == {k1, k2, k3}
MCRole == {"core", "external"}
MCContent1 == {a}
MCContent2 == {a, b}
MCFile1 == {f1}
MCFile2 == {f1, f2}
MCOperator1 == {p1}
MCOperator2 == {p1, p2}
MCTime0 == {0}
MCTime1 == {0, 1}
MCNode1 == {"two"}
MCNode4 == {"two", "weighted", "roles", "optional"}

\* k1 lists a role twice and fills both of its seats; k3 takes weight away.
MCTwo ==
  [required |-> TRUE, model |-> "m_of_n", allow |-> {k1, k2}, metadata |-> FALSE,
   quorumM |-> 0, policyM |-> 2,
   weight |-> [k \in Key |-> CASE k = k1 -> 2 [] k = k2 -> 1 [] OTHER -> -1], needWeight |-> 3,
   roles |-> [k \in Key |-> IF k = k1 THEN <<"core", "core">> ELSE <<"external">>],
   needs |-> {[role |-> "core", min |-> 2], [role |-> "external", min |-> 1]}]

MCRules ==
  [n \in Node |->
     CASE n = "two" -> MCTwo
       [] n = "weighted" -> [MCTwo EXCEPT !.model = "weighted", !.allow = {},
                                                !.metadata = TRUE]
       [] n = "roles" -> [MCTwo EXCEPT !.model = "role_based"]
       [] n = "optional" -> [MCTwo EXCEPT !.required = FALSE, !.allow = {k1}]]

\* What artifact_admission looks at: artifacts of either policy in any lifecycle state,
\* signed by any key, while time stands still and everything carries quorum metadata,
\* for at most five commands and edits; and artifacts of one policy with any times,
\* with and without metadata, signed by the usual signers, for at most four.
Documents == {file[f] : f \in {f \in File : Parses(f)}} \cup {job[p].doc : p \in {p \in Operator : Busy(p)}}
Timeless == /\ now = 0 /\ commands + edits <= 5
            /\ \A u \in Documents : u.payload.from = 0 /\ u.payload.until = 0 /\ u.payload.quorum
Usual == /\ commands + edits <= 4
         /\ \A u \in Documents : u.payload.policy = a /\ u.payload.hash = a
                                 /\ u.payload.state \in LifecycleState
         /\ \A s \in signed : s.key # k3
Explored == Timeless \/ Usual
\* Nothing depends on what was admitted: it is enough to look at one admission at a time.
OneAdmission == admitted = Absent
Plain == \A u \in Documents : ~u.payload.quorum

Symmetry == Permutations(MCFile2) \cup Permutations(MCOperator2)

=============================================================================
