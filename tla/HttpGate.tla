------------------------------ MODULE HttpGate ------------------------------
(***************************************************************************)
(* What stands before POST /villages/{id}/policy (links/server.py): the    *)
(* rate_limit middleware, the bearer token, authorize, role_can.  The      *)
(* middleware is an async function without an await between its read and   *)
(* its write of a bucket, so it is one step; the handler runs in a thread  *)
(* of its own and is several steps, among the commands of Membership.      *)
(* A bucket counts the requests of one client in one minute.               *)
(***************************************************************************)
EXTENDS Membership, FiniteSets, Functions

CONSTANTS
    Clients,
    Observer,     \* the role whose capabilities stand in for an unknown role's
    Policies,     \* what the gate reads of a village document
    DefaultLimit, \* 60: the limit when the document cannot be read
    BucketCap,    \* 5000: more buckets than this are cleaned up
    KeepMinutes,  \* 5: the age up to which a bucket survives the clean-up
    MaxMinute,    \* BOUND on the clock
    MaxEvents     \* BOUND on requests, policy changes, turns of the minute and
                  \*   member rows together

\* A document gives a limit and, for the roles it names, whether they manage.
ASSUME GateAssumption ==
    /\ \A d \in Policies : /\ d.readable \in BOOLEAN
                           /\ d.limit \in Int
                           /\ d.manages \in [d.named -> BOOLEAN]
                           /\ Observer \in d.named
    /\ {DefaultLimit, BucketCap, KeepMinutes, MaxMinute, MaxEvents} \subseteq Nat

VARIABLES
    minute,       \* time.time() // 60
    policy,       \* the village document
    buckets,      \* _buckets: a function on the clients that have one
    events,       \* BOUND: how many requests, changes and turns there were
    passed,       \* history: the requests of the minute that were let through
    most          \* history: the highest limit of the minute

gateVars == <<minute, policy, buckets, events, passed, most>>

\* The greater of two integers.
AtLeast(a, b) == IF a > b THEN a ELSE b
Limit(d) == IF d.readable THEN d.limit ELSE DefaultLimit

\* The bucket a client's next request goes to.
Bucket(c) ==
    IF c \in DOMAIN buckets /\ buckets[c].minute = minute
    THEN [minute |-> minute, count |-> buckets[c].count + 1]
    ELSE [minute |-> minute, count |-> 1]

\* Mutant of CleanUp: when there are too many, they all go.
CleanUp_All(bs) == IF Cardinality(DOMAIN bs) > BucketCap THEN <<>> ELSE bs

CleanUp(bs) ==
    IF Cardinality(DOMAIN bs) > BucketCap
    THEN Restrict(bs, {c \in DOMAIN bs : bs[c].minute + KeepMinutes >= minute})
    ELSE bs

Counted(c) == CleanUp([x \in DOMAIN buckets \cup {c} |-> IF x = c THEN Bucket(c) ELSE buckets[x]])

\* 429: the request has been counted, but goes no further.
TooMany(c) ==
    /\ Bucket(c).count > AtLeast(1, Limit(policy))
    /\ buckets' = Counted(c)
    /\ events' = events + 1
    /\ UNCHANGED <<members, revocations, job, interrupted, withdrawn>>
    /\ UNCHANGED <<minute, policy, passed, most>>

\* A request with a bearer token begins its check.
Admit(p, c, t) ==
    /\ Bucket(c).count <= AtLeast(1, Limit(policy))
    /\ buckets' = Counted(c)
    /\ events' = events + 1
    /\ passed' = [passed EXCEPT ![c] = @ + 1]
    /\ BeginAuthorize(p, t)
    /\ UNCHANGED <<minute, policy, most>>

\* A request without one is refused by the handler at once.
Anonymous(c) ==
    /\ Bucket(c).count <= AtLeast(1, Limit(policy))
    /\ buckets' = Counted(c)
    /\ events' = events + 1
    /\ passed' = [passed EXCEPT ![c] = @ + 1]
    /\ UNCHANGED <<members, revocations, job, interrupted, withdrawn>>
    /\ UNCHANGED <<minute, policy, most>>

\* role_can(policy, role, "manage"), under the document read after authorize.  A
\* document that cannot be read ends the request with an error.
CanManage(d, r) == d.manages[IF r \in d.named THEN r ELSE Observer]

Decide(p) ==
    /\ job[p].pc = "authorized"
    /\ job' = [job EXCEPT ![p] =
                 IF policy.readable /\ CanManage(policy, job[p].role)
                 THEN [@ EXCEPT !.pc = "accepted"] ELSE Idle]
    /\ UNCHANGED <<members, revocations, interrupted, withdrawn>>
    /\ UNCHANGED gateVars

\* The minute turns; the histories of the minute start again.
Tick ==
    /\ minute < MaxMinute
    /\ minute' = minute + 1
    /\ events' = events + 1
    /\ passed' = [c \in Clients |-> 0]
    /\ most' = Limit(policy)
    /\ UNCHANGED <<policy, buckets>>
    /\ UNCHANGED <<members, revocations, job, interrupted, withdrawn>>

\* Somebody installs another policy, or leaves the document unreadable.
ChangePolicy(d) ==
    /\ policy' = d
    /\ events' = events + 1
    /\ most' = AtLeast(most, Limit(d))
    /\ UNCHANGED <<minute, buckets, passed>>
    /\ UNCHANGED <<members, revocations, job, interrupted, withdrawn>>

GateInit ==
    /\ Init
    /\ minute = 0
    /\ policy \in {d \in Policies : d.readable}
    /\ buckets = <<>>
    /\ events = 0
    /\ passed = [c \in Clients |-> 0]
    /\ most = Limit(policy)

GateNext ==
    /\ \/ \E p \in Procs :
             \/ /\ Manage(p) \/ Check(p)
                /\ UNCHANGED gateVars
             \/ Decide(p)
             \/ \E c \in Clients, t \in Tokens : Admit(p, c, t)
       \/ \E c \in Clients : TooMany(c) \/ Anonymous(c)
       \/ \E d \in Policies : ChangePolicy(d)
       \/ Tick
    /\ Watch
    /\ events' + Len(members') <= MaxEvents

GateSpec == GateInit /\ [][GateNext]_<<memberVars, gateVars>>

-----------------------------------------------------------------------------
(* Properties *)

\* Whatever the other clients do, whenever the minute turns, buckets are cleaned up
\* or the policy changes, no client gets more requests through in one minute than
\* the highest limit in force during it (one at least).
WithinLimit == \A c \in Clients : passed[c] <= AtLeast(1, most)
=============================================================================
