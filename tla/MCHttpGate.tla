----------------------------- MODULE MCHttpGate -----------------------------
(* A small instance of HttpGate: two processes, two clients, three tokens.   *)
EXTENDS HttpGate, TLC

CONSTANT Member

Doc(l, r, rm) == [readable |-> r, limit |-> l, named |-> DOMAIN rm, manages |-> rm]
\* A village that lets one request through and where nothing is said of members, one
\* that lets two through and where members do not manage, an unreadable document.
MCPolicies == {Doc(0, TRUE, Observer :> TRUE),
               Doc(2, TRUE, Observer :> TRUE @@ Member :> FALSE),
               Doc(0, FALSE, Observer :> FALSE)}
Symmetry == Permutations(Procs) \cup Permutations(Tokens) \cup Permutations(Clients)
=============================================================================
