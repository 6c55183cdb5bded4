----------------------------- MODULE PolicyLedger -----------------------------
(***************************************************************************)
(* What a village owes its members, without files, steps or trails: there  *)
(* is one active policy, and a ledger that names every policy put in force *)
(* by an apply, in that order.  An entry is lost only to a fault of the    *)
(* request that owes it, one for each fault; what needs no entry is an     *)
(* operator's edit of one issuer, or an import.                            *)
(*                                                                         *)
(* The promise is that of one process serving the village at a time; the   *)
(* module VillageStore is the implementation it is compared with.          *)
(***************************************************************************)
EXTENDS Integers, Sequences

CONSTANTS
  Policy, Issuer, Update, PolicyOf, Accepts, Genesis,  \* as in VillageStore
  Op                                                   \* requests, by number

VARIABLES
  active,  \* the policy in force
  ledger,  \* the acts recorded, oldest first
  owed,    \* the act in force that has not been recorded yet, if any
  faults   \* the requests that met a fault

vars == <<active, ledger, owed, faults>>

Recorded == {ledger[i].policy : i \in 1..Len(ledger)}
Valid == {u \in Update : PolicyOf[u] \in Policy}

Init == active = Genesis /\ ledger = <<>> /\ owed = <<>> /\ faults = {}

\* An act replaces the policy in force; it is due to be recorded.
Act(kind, pol) ==
  /\ owed = <<>>
  /\ active' = pol
  /\ owed' = <<[kind |-> kind, policy |-> pol]>>
  /\ UNCHANGED <<ledger, faults>>

\* A submitted update must be acceptable to the policy it replaces.
Submit == \E u \in Valid : u \in Accepts[active.body] /\ Act("submitted", PolicyOf[u])

\* A policy compiled from norms is applied on the operator's word.
Decree == \E u \in Valid : Act("compiled", PolicyOf[u])

\* A rollback restores a policy the ledger names.
Restore == \E pol \in Recorded : Act("rollback", pol)

\* An operator allows or blocks one issuer, and leaves the rest as it is.
Edits(i) ==
  /\ active'.body = active.body
  /\ active'.allow \ {i} = active.allow \ {i}
  /\ active'.block \ {i} = active.block \ {i}

\* What leaves no entry: an edit, or an import of a valid policy.
Amend ==
  /\ owed = <<>>
  /\ active' \in Policy
  /\ (\E i \in Issuer : Edits(i)) \/ (\E u \in Valid : active' = PolicyOf[u])
  /\ UNCHANGED <<ledger, owed, faults>>

Enter == owed # <<>> /\ ledger' = ledger \o owed /\ owed' = <<>> /\ UNCHANGED <<active, faults>>

\* A fault may strike at any time ...
Strike == \E op \in Op \ faults : faults' = faults \cup {op}

\* ... and lose the entry that is due, never one that was made ...
Lose == owed # <<>> /\ Strike /\ owed' = <<>> /\ UNCHANGED <<active, ledger>>

\* ... or none.
Spare == Strike /\ UNCHANGED <<active, ledger, owed>>

Next == Submit \/ Decree \/ Restore \/ Amend \/ Enter \/ Lose \/ Spare

\* What is due does not stay due for ever.
Spec == Init /\ [][Next]_vars /\ WF_vars(Enter \/ Lose)

===============================================================================
