-------------------------- MODULE CheckpointDrift --------------------------
(***************************************************************************)
(* Transparency checkpoints of two nodes and their comparison:             *)
(* transparency.py, checkpoint_exchange.py, drift_classes.py and           *)
(* GET /villages/{id}/transparency/checkpoint.                             *)
(*                                                                         *)
(* A node replaces its policy and then appends an entry to its log (see    *)
(* VillageStore); requests that do so overlap, so that the order of the    *)
(* log need not be that of the policies.  A checkpoint is made of a log as *)
(* it is at that moment.  Operators of the one node publish checkpoints to *)
(* files, take one (a fresh one or a published file), fetch one of the     *)
(* other node, may verify it, and classify the two.                        *)
(*                                                                         *)
(* An entry is appended in one write; a write that fails leaves half a     *)
(* line, which spoils the next one too.                                    *)
(***************************************************************************)
EXTENDS Naturals, Sequences, SequencesExt

CONSTANTS
    Local, Remote,   \* the two nodes
    Operators,       \* of the first
    Policies,        \* by their hashes
    Keyed,           \* the nodes that have a signing key
    MaxPolicies,     \* bound: replacements of the policies of both nodes
    MaxJobs,         \* bound: checkpoints that are published or compared
    MaxFaults,       \* bound: edits, deaths, failing writes and damaged files
    MaxSeconds,      \* bound: the clock
    None             \* no policy, no signature

Nodes == {Local, Remote}

ASSUME DriftAssumption ==
    /\ Local # Remote
    /\ Keyed \subseteq Nodes
    /\ {MaxPolicies, MaxJobs, MaxFaults, MaxSeconds} \subseteq Nat
    /\ None \notin Policies

VARIABLES
    active,       \* the policy of each node
    pending,      \* policies that are in force and whose entries are still to be appended
    log,          \* policy_log.jsonl: the entries that its reader finds, and whether it ends in half a line
    replaced,     \* how often the policy of a node was replaced
    tidy,         \* history: nodes whose last entry is of the policy in force, or will be
    published,    \* the checkpoint files of the first node, by the second
    job,          \* what each operator is doing
    jobs,         \* how many jobs there were
    seconds,      \* the clock
    faults        \* how many faults there were

node == <<active, pending, log, replaced, tidy>>
vars == <<node, published, job, jobs, seconds, faults>>

\* An entry is [n, policy]: its hash is of its time too, so that no two are the same.

\* checkpoint_hash stands for the entries it is made of, latest for the policy of the
\* last of them.
Body(n, s) == [node |-> n, entries |-> s, latest |-> IF s = <<>> THEN None ELSE Last(s).policy]

\* What the log of a node says: lines that are not JSON are skipped.
Entries(n) == log[n].entries

\* sign_checkpoint, with the key of node n; without one the checkpoint goes out as it is.
Signature(n, body) == IF n \in Keyed THEN [by |-> n, of |-> body] ELSE None

\* History: the policy in force when a checkpoint was made, if the log is up to date.
Truth(n) == IF pending[n] = <<>> /\ n \in tidy THEN active[n] ELSE None
Checkpoint(n) == LET body == Body(n, Entries(n))
                 IN  [body |-> body, signature |-> Signature(n, body), truth |-> Truth(n)]

\* Mutant of Verifies: the body that is verified leaves out the latest policy too.
Verifies_Partly(c, n) == /\ c.signature # None
                         /\ c.signature.by = n
                         /\ c.signature.of.entries = c.body.entries

\* verify_checkpoint_signature with the key of node n.
Verifies(c, n) == /\ c.signature # None
                  /\ c.signature.by = n
                  /\ c.signature.of = c.body

-----------------------------------------------------------------------------
(* The nodes *)

\* A policy comes into force.
Replace(n, policy) ==
    /\ replaced[Local] + replaced[Remote] < MaxPolicies
    /\ replaced' = [replaced EXCEPT ![n] = @ + 1]
    /\ active' = [active EXCEPT ![n] = policy]
    /\ pending' = [pending EXCEPT ![n] = Append(@, [n |-> replaced[n] + 1, policy |-> policy])]
    /\ tidy' = IF pending[n] = <<>> THEN tidy \cup {n} ELSE tidy \ {n}
    /\ UNCHANGED <<log, published, job, jobs, seconds, faults>>

\* A line is added to a log; behind half a line it is lost with that.
Appended(s, e) == IF s.half THEN [s EXCEPT !.half = FALSE]
                  ELSE [s EXCEPT !.entries = Append(@, e)]

\* append_transparency_entry, by whichever of the pending requests comes first.
LogEntry(n) ==
    \E i \in 1..Len(pending[n]) :
        /\ log' = [log EXCEPT ![n] = Appended(@, pending[n][i])]
        /\ pending' = [pending EXCEPT ![n] = RemoveAt(@, i)]
        /\ tidy' = IF log[n].half THEN tidy \ {n} ELSE tidy
        /\ UNCHANGED <<active, replaced, published, job, jobs, seconds, faults>>

Fault == faults < MaxFaults /\ faults' = faults + 1

\* The disk is full: half a line is written, or nothing more of it, and the request fails.
LogFails(n) ==
    /\ Fault
    /\ \E i \in 1..Len(pending[n]) : pending' = [pending EXCEPT ![n] = RemoveAt(@, i)]
    /\ log' = [log EXCEPT ![n].half = TRUE]
    /\ tidy' = tidy \ {n}
    /\ UNCHANGED <<active, replaced, published, job, jobs, seconds>>

\* The server dies, with all its requests.
Crash(n) ==
    /\ Fault
    /\ pending[n] # <<>>
    /\ pending' = [pending EXCEPT ![n] = <<>>]
    /\ tidy' = tidy \ {n}
    /\ UNCHANGED <<active, log, replaced, published, job, jobs, seconds>>

\* A command changes the policy without an entry: an issuer is allowed or blocked.
Edit(n, policy) ==
    /\ Fault
    /\ policy # active[n]
    /\ active' = [active EXCEPT ![n] = policy]
    /\ tidy' = tidy \ {n}
    /\ UNCHANGED <<pending, log, replaced, published, job, jobs, seconds>>

-----------------------------------------------------------------------------
(* The operators *)

Idle == [pc |-> "idle"]

\* A file that is not there, one that has nothing or some of what is to be written, one
\* that two have written, and one that holds a checkpoint.
NoFile == [state |-> "none"]
Part == [state |-> "part"]
Mixed == [state |-> "mixed"]
Whole(c) == [state |-> "whole", is |-> c]

\* load_checkpoint_file: what is not whole is not JSON.
Readable == {published[t].is : t \in {t \in 0..MaxSeconds : published[t].state = "whole"}}

Count == jobs < MaxJobs /\ jobs' = jobs + 1

\* `checkpoint publish` makes a checkpoint of the log, and names the file by the second
\* in which it comes to write it.
Publish(o) ==
    /\ job[o] = Idle
    /\ Count
    /\ job' = [job EXCEPT ![o] = [pc |-> "publish", local |-> Checkpoint(Local)]]
    /\ UNCHANGED <<node, published, seconds, faults>>

\* publish_checkpoint_file opens the file, or the file of another in the same second,
\* and has emptied it.
OpenPublished(o) ==
    /\ job[o].pc = "publish"
    /\ job' = [job EXCEPT ![o] = [pc |-> "fill", at |-> seconds, local |-> job[o].local]]
    /\ published' = [published EXCEPT ![seconds] = Part]
    /\ UNCHANGED <<node, jobs, seconds, faults>>

\* What a write makes of a file: two that write one at a time leave one of the two, or
\* neither.
Onto(t, file) == {file} \cup IF published[t] = Part THEN {} ELSE {Mixed}

FillPublished(o) ==
    /\ job[o].pc = "fill"
    /\ \E file \in Onto(job[o].at, Whole(job[o].local)) : published' = [published EXCEPT ![job[o].at] = file]
    /\ job' = [job EXCEPT ![o] = Idle]
    /\ UNCHANGED <<node, jobs, seconds, faults>>

\* The write fails, or the operator dies, with nothing or some of it written.
FillFails(o) ==
    /\ job[o].pc = "fill"
    /\ Fault
    /\ \E file \in Onto(job[o].at, published[job[o].at]) : published' = [published EXCEPT ![job[o].at] = file]
    /\ job' = [job EXCEPT ![o] = Idle]
    /\ UNCHANGED <<node, jobs, seconds>>

\* A published file is changed afterwards, by a hand or by the disk.
Damage(t, policy) ==
    /\ Fault
    /\ published[t].state = "whole"
    /\ policy # published[t].is.body.latest
    /\ published' = [published EXCEPT ![t].is.body.latest = policy, ![t].is.truth = None]
    /\ UNCHANGED <<node, job, jobs, seconds>>

\* The checkpoint of the first node: a fresh one, or a file that was published and
\* that can be read.
TakeLocal(o) ==
    /\ job[o] = Idle
    /\ Count
    /\ \E c \in {Checkpoint(Local)} \cup Readable :
          job' = [job EXCEPT ![o] = [pc |-> "fetch", local |-> c, verified |-> FALSE]]
    /\ UNCHANGED <<node, published, seconds, faults>>

\* verify_checkpoint_signature, where an operator asks for it: of a file it was given.
VerifyLocal(o) ==
    /\ job[o].pc = "fetch" /\ ~ job[o].verified
    /\ job' = [job EXCEPT ![o] = IF Verifies(job[o].local, Local) THEN [@ EXCEPT !.verified = TRUE]
                                 ELSE Idle]
    /\ UNCHANGED <<node, published, jobs, seconds, faults>>

\* fetch_peer_checkpoint: the endpoint makes one of the log as it is.
Fetch(o) ==
    /\ job[o].pc = "fetch"
    /\ job' = [job EXCEPT ![o] = [pc |-> "compare", local |-> job[o].local, verified |-> job[o].verified,
                                  peer |-> Checkpoint(Remote)]]
    /\ UNCHANGED <<node, published, jobs, seconds, faults>>

\* Mutant of Class: the counts are looked at first.
Class_Counts(a, b) ==
    IF a.latest = None \/ b.latest = None THEN "unknown"
    ELSE IF Len(a.entries) # Len(b.entries) THEN "publication_lag"
    ELSE IF a.latest = b.latest THEN "aligned"
    ELSE "policy_divergence"

\* classify_checkpoint_drift, as compare_checkpoints calls it: without the checkpoint
\* hashes, so that history_only_divergence is never the answer.
Class(a, b) ==
    IF a.latest = None \/ b.latest = None THEN "unknown"
    ELSE IF a.latest # b.latest THEN "policy_divergence"
    ELSE IF Len(a.entries) # Len(b.entries) THEN "publication_lag"
    ELSE "aligned"

\* compare_checkpoints, and the report.
Compare(o) ==
    /\ job[o].pc = "compare"
    /\ job' = [job EXCEPT ![o] = [pc |-> "reported", local |-> job[o].local, peer |-> job[o].peer,
                                  verified |-> job[o].verified,
                                  class |-> Class(job[o].local.body, job[o].peer.body)]]
    /\ UNCHANGED <<node, published, jobs, seconds, faults>>

Done(o) ==
    /\ job[o].pc = "reported"
    /\ job' = [job EXCEPT ![o] = Idle]
    /\ UNCHANGED <<node, published, jobs, seconds, faults>>

Tick ==
    /\ seconds < MaxSeconds
    /\ seconds' = seconds + 1
    /\ UNCHANGED <<node, published, job, jobs, faults>>

Init ==
    /\ active \in [Nodes -> Policies]
    /\ pending = [n \in Nodes |-> <<>>]
    /\ log = [n \in Nodes |-> [entries |-> <<>>, half |-> FALSE]]
    /\ replaced = [n \in Nodes |-> 0]
    /\ tidy = {}
    /\ published = [t \in 0..MaxSeconds |-> NoFile]
    /\ job = [o \in Operators |-> Idle]
    /\ jobs = 0
    /\ seconds = 0
    /\ faults = 0

Next ==
    \/ \E n \in Nodes : \/ \E policy \in Policies : Replace(n, policy) \/ Edit(n, policy)
                        \/ LogEntry(n) \/ LogFails(n) \/ Crash(n)
    \/ \E o \in Operators : \/ Publish(o) \/ OpenPublished(o) \/ FillPublished(o) \/ FillFails(o)
                            \/ TakeLocal(o) \/ VerifyLocal(o) \/ Fetch(o) \/ Compare(o) \/ Done(o)
    \/ \E t \in 0..MaxSeconds, policy \in Policies : Damage(t, policy)
    \/ Tick

Spec == Init /\ [][Next]_vars

-----------------------------------------------------------------------------
(* Properties *)

\* The checkpoints that there are of the first node, or that are being fetched.
Locals == Readable \cup {job[o].local : o \in {o \in Operators : job[o].pc # "idle"}}
Peers == {job[o].peer : o \in {o \in Operators : job[o].pc \in {"compare", "reported"}}}

\* The log only grows, whatever fails: of two checkpoints of a node the entries of the
\* one begin with those of the other, and both begin what the log says now.  Equal
\* counts therefore mean equal histories.
CheckpointsExtend ==
    \A n \in Nodes : \A c \in Locals \cup Peers :
        c.body.node = n => IsPrefix(c.body.entries, Entries(n))

\* A report says "policy_divergence" of nodes whose policies differed, and "aligned" or
\* "publication_lag" of nodes that had the same, each when its checkpoint was made:
\* unless a node was between the policy and its entry, replaced its policy twice at a
\* time, failed, died, or edited its policy.
ClassIsTrue ==
    \A o \in Operators :
        (/\ job[o].pc = "reported"
         /\ job[o].local.truth # None /\ job[o].peer.truth # None)
        => job[o].class \in IF job[o].local.truth = job[o].peer.truth
                            THEN {"aligned", "publication_lag"} ELSE {"policy_divergence"}

\* A checkpoint that verified under the key of a node says what the log of that node
\* said: its policy is that of its last entry, and its entries are the node's.
VerifiedIsTrue ==
    \A o \in Operators :
        job[o].pc \in {"fetch", "compare", "reported"} /\ job[o].verified
        => /\ job[o].local.body = Body(Local, job[o].local.body.entries)
           /\ IsPrefix(job[o].local.body.entries, Entries(Local))

\* A checkpoint that is compared, or that verified, is one of the node's history: of
\* two from one node the entries of one begin with the other's.
CheckpointsTrue == CheckpointsExtend /\ VerifiedIsTrue
=============================================================================
