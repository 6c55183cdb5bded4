----------------------------- MODULE MCPolicyPull -----------------------------
(***************************************************************************)
(* TLC instances of PolicyPull.  Three updates follow one another; the     *)
(* third has two successors, of which one brings back the first policy.    *)
(* The hashes are not in the order of the times.                           *)
(***************************************************************************)
EXTENDS PolicyPull

MCHash == 1..4
MCNode == {"n1", "n2"}

First == [at |-> 1, hash |-> 2, prev |-> NoHash]
Second == [at |-> 2, hash |-> 3, prev |-> 2]
Third == [at |-> 2, hash |-> 4, prev |-> 3]
Again == [at |-> 3, hash |-> 2, prev |-> 4]
Fifth == [at |-> 4, hash |-> 1, prev |-> 4]

MCFeedable == {First, Second, Third, Again, Fifth}

MCAll == [n \in MCNode |-> MCFeedable]
\* Updates are published at n1; n2 takes only the second one.
MCSome == [n \in MCNode |-> IF n = "n1" THEN MCFeedable ELSE {Second}]
MCVouched == [n \in MCNode |-> MCNode]

=============================================================================
