--------------------------- MODULE HttpGateProofs ---------------------------
(***************************************************************************)
(* Proofs about HttpGate and the Membership behind it, for every value of  *)
(* the constants: the types, that revoke and rotate leave no listed token  *)
(* behind, that authorize answers as of one moment of its check, that      *)
(* rotations lock nobody out, and that the limiter keeps its limit.        *)
(***************************************************************************)
EXTENDS HttpGate, TLAPS

\* The steps that are a process's own: everything but the gate's other events.
Own(p) == \/ Manage(p) \/ Check(p) \/ Decide(p)
          \/ \E t \in Tokens : BeginAuthorize(p, t)
Still == UNCHANGED <<members, revocations, job, interrupted, withdrawn>>

\* What the fields of a job say about each other, and about the file it read.
JobOK(j) ==
    /\ j.pc \in {"list", "loop", "append", "role"} => j.op \in {"revoke", "rotate"}
    /\ j.pc = "add" => j.op \in {"add", "rotate"}
    /\ j.op \in {"revoke", "rotate"} => j.member \in Members
    /\ j.pc = "add" => j.member \in Members /\ j.token \in Tokens /\ j.role \in Roles
    /\ j.op = "rotate" => j.token \in Tokens
    /\ j.pc \in Checking => j.op = "authorize" /\ j.token \in Tokens
    /\ j.pc = "role" => j.op = "rotate"
    /\ j.pc = "list" => j.at = 1
    /\ j.at <= j.listed + 1
    /\ j.listed <= Len(members)
    /\ j.pc = "append" => j.at <= j.listed
JobsOK == \A p \in Procs : JobOK(job[p])

\* The files only grow, and never both in one step.
Grows ==
    \/ /\ members' = members
       /\ \/ revocations' = revocations
          \/ \E i \in DOMAIN members : revocations' = revocations \cup {members[i].token}
    \/ /\ revocations' = revocations
       /\ \E row \in Row : members' = Append(members, row)

\* Types, the job facts, and how the files grow: one process's step.
Steps(p) ==
    /\ members' \in Seq(Row) /\ Len(members') <= MaxRows /\ Len(members') >= Len(members)
    /\ revocations' \subseteq Tokens
    /\ interrupted' \subseteq Members /\ withdrawn' \subseteq Members
    /\ Grows
    /\ job' \in [Procs -> Job]
    /\ \A q \in Procs \ {p} : job'[q] = job[q]
    /\ JobOK(job[p])'

LEMMA OwnStep ==
    ASSUME MembershipAssumption, MemberTypeOK, JobsOK, NEW p \in Procs, Own(p)
    PROVE  Steps(p)
<1>0. /\ job \in [Procs -> Job] /\ job[p] \in Job /\ Idle \in Job /\ JobOK(job[p])
      /\ members \in Seq(Row) /\ Len(members) \in Nat /\ Len(members) <= MaxRows
      /\ revocations \subseteq Tokens /\ interrupted \subseteq Members /\
           withdrawn \subseteq Members
      /\ MaxRows \in Nat /\ DefaultRole \in Roles
      /\ job[p].at \in 1 .. MaxRows + 1 /\ job[p].listed \in 0 .. MaxRows
      /\ \A i \in DOMAIN members : members[i] \in Row
  BY MembershipAssumption DEF Job, Idle, MembershipAssumption, MemberTypeOK, JobsOK
<1>1. ASSUME NEW m \in Members, NEW r \in Roles, NEW t \in Tokens, BeginAdd(p, m, r, t) PROVE Steps(p)
  <2>0. job' = [job EXCEPT ![p] = job'[p]]
    BY <1>0, <1>1 DEF BeginAdd
  <2>1. job'[p] = [Idle EXCEPT !.op = "add", !.pc = "add", !.member = m, !.role = r, !.token = t]
    BY <1>0, <1>1 DEF BeginAdd
  <2>2a. [Idle EXCEPT !.op = "add", !.pc = "add", !.member = m, !.role = r, !.token = t] \in Job
    BY <1>0 DEF Job
  <2>3. job'[p] \in Job
    BY <1>0, <2>1, <2>2a
  <2>4. job' \in [Procs -> Job] /\ \A q \in Procs \ {p} : job'[q] = job[q]
    BY <1>0, <2>0, <2>3
  <2>5. job'[p].op = "add" /\ job'[p].pc = "add" /\ job'[p].token = t /\ job'[p].listed = 0 /\
          job'[p].at = 1
    BY <1>0, <2>1 DEF Job, Idle
  <2>6. /\ members' \in Seq(Row) /\ Len(members') <= MaxRows /\ Len(members') >= Len(members)
        /\ revocations' \subseteq Tokens /\ interrupted' \subseteq Members /\
             withdrawn' \subseteq Members
        /\ Grows /\ Len(members') \in Nat
    <3>1. UNCHANGED <<members, revocations, interrupted>> /\ withdrawn' \subseteq Members
      BY <1>0, <1>1 DEF BeginAdd
    <3>2. QED BY <1>0, <3>1 DEF Grows
  <2>7. JobOK(job[p])'
    BY <1>0, <1>1, <2>3, <2>5, <2>6 DEF BeginAdd, JobOK, Checking, Job
  <2>8. QED BY <2>4, <2>6, <2>7 DEF Steps
<1>2. ASSUME NEW m \in Members, NEW t \in Tokens, BeginRotate(p, m, t) PROVE Steps(p)
  <2>0. job' = [job EXCEPT ![p] = job'[p]]
    BY <1>0, <1>2 DEF BeginRotate
  <2>1. job'[p] = [Idle EXCEPT !.op = "rotate", !.pc = "list", !.member = m, !.token = t]
    BY <1>0, <1>2 DEF BeginRotate
  <2>2a. [Idle EXCEPT !.op = "rotate", !.pc = "list", !.member = m, !.token = t] \in Job
    BY <1>0 DEF Job
  <2>3. job'[p] \in Job
    BY <1>0, <2>1, <2>2a
  <2>4. job' \in [Procs -> Job] /\ \A q \in Procs \ {p} : job'[q] = job[q]
    BY <1>0, <2>0, <2>3
  <2>5. job'[p].op = "rotate" /\ job'[p].pc = "list" /\ job'[p].role = NoOne /\
          job'[p].token = t /\ job'[p].listed = 0 /\ job'[p].at = 1
    BY <1>0, <2>1 DEF Job, Idle
  <2>6. /\ members' \in Seq(Row) /\ Len(members') <= MaxRows /\ Len(members') >= Len(members)
        /\ revocations' \subseteq Tokens /\ interrupted' \subseteq Members /\
             withdrawn' \subseteq Members
        /\ Grows /\ Len(members') \in Nat
    <3>1. UNCHANGED <<members, revocations, interrupted>> /\ withdrawn' \subseteq Members
      BY <1>0, <1>2 DEF BeginRotate
    <3>2. QED BY <1>0, <3>1 DEF Grows
  <2>7. JobOK(job[p])'
    BY <1>0, <1>2, <2>3, <2>5, <2>6 DEF BeginRotate, JobOK, Checking, Job
  <2>8. QED BY <2>4, <2>6, <2>7 DEF Steps
<1>3. ASSUME NEW m \in Members, BeginRevoke(p, m) PROVE Steps(p)
  <2>0. job' = [job EXCEPT ![p] = job'[p]]
    BY <1>0, <1>3 DEF BeginRevoke
  <2>1. job'[p] = [Idle EXCEPT !.op = "revoke", !.pc = "list", !.member = m]
    BY <1>0, <1>3 DEF BeginRevoke
  <2>2a. [Idle EXCEPT !.op = "revoke", !.pc = "list", !.member = m] \in Job
    BY <1>0 DEF Job
  <2>3. job'[p] \in Job
    BY <1>0, <2>1, <2>2a
  <2>4. job' \in [Procs -> Job] /\ \A q \in Procs \ {p} : job'[q] = job[q]
    BY <1>0, <2>0, <2>3
  <2>5. job'[p].op = "revoke" /\ job'[p].pc = "list" /\ job'[p].role = NoOne /\
          job'[p].token = NoOne /\ job'[p].listed = 0 /\ job'[p].at = 1
    BY <1>0, <2>1 DEF Job, Idle
  <2>6. /\ members' \in Seq(Row) /\ Len(members') <= MaxRows /\ Len(members') >= Len(members)
        /\ revocations' \subseteq Tokens /\ interrupted' \subseteq Members /\
             withdrawn' \subseteq Members
        /\ Grows /\ Len(members') \in Nat
    <3>1. UNCHANGED <<members, revocations, interrupted>> /\ withdrawn' \subseteq Members
      BY <1>0, <1>3 DEF BeginRevoke
    <3>2. QED BY <1>0, <3>1 DEF Grows
  <2>7. JobOK(job[p])'
    BY <1>0, <1>3, <2>3, <2>5, <2>6 DEF BeginRevoke, JobOK, Checking, Job
  <2>8. QED BY <2>4, <2>6, <2>7 DEF Steps
<1>4. ASSUME AppendMember(p) PROVE Steps(p)
  <2>0. job' = [job EXCEPT ![p] = job'[p]]
    BY <1>0, <1>4 DEF AppendMember
  <2>1. job'[p] = Idle
    BY <1>0, <1>4 DEF AppendMember
  <2>3. job'[p] \in Job
    BY <1>0, <2>1
  <2>4. job' \in [Procs -> Job] /\ \A q \in Procs \ {p} : job'[q] = job[q]
    BY <1>0, <2>0, <2>3
  <2>5. job'[p].op = "none" /\ job'[p].pc = "idle" /\ job'[p].member = NoOne /\
          job'[p].role = NoOne /\ job'[p].token = NoOne /\ job'[p].listed = 0 /\ job'[p].at = 1
    BY <1>0, <2>1 DEF Job, Idle
  <2>6. /\ members' \in Seq(Row) /\ Len(members') <= MaxRows /\ Len(members') >= Len(members)
        /\ revocations' \subseteq Tokens /\ interrupted' \subseteq Members /\
             withdrawn' \subseteq Members
        /\ Grows /\ Len(members') \in Nat
    BY <1>0, <1>4 DEF AppendMember, JobOK, Grows, Row
  <2>7. JobOK(job[p])'
    BY <1>0, <1>4, <2>3, <2>5, <2>6 DEF AppendMember, JobOK, Checking, Job
  <2>8. QED BY <2>4, <2>6, <2>7 DEF Steps
<1>5. ASSUME ListTokens(p) PROVE Steps(p)
  <2>0. job' = [job EXCEPT ![p] = job'[p]]
    BY <1>0, <1>5 DEF ListTokens
  <2>1. job'[p] = [job[p] EXCEPT !.pc = "loop", !.listed = Len(members)]
    BY <1>0, <1>5 DEF ListTokens
  <2>s. Len(members) \in 0 .. MaxRows
    BY <1>0
  <2>2a. [job[p] EXCEPT !.pc = "loop", !.listed = Len(members)] \in Job
    BY <1>0, <2>s DEF Job
  <2>3. job'[p] \in Job
    BY <1>0, <2>1, <2>2a
  <2>4. job' \in [Procs -> Job] /\ \A q \in Procs \ {p} : job'[q] = job[q]
    BY <1>0, <2>0, <2>3
  <2>5. job'[p].op = job[p].op /\ job'[p].pc = "loop" /\ job'[p].member = job[p].member /\
          job'[p].role = job[p].role /\ job'[p].token = job[p].token /\
            job'[p].listed = Len(members) /\ job'[p].at = job[p].at
    BY <1>0, <2>1 DEF Job, Idle
  <2>6. /\ members' \in Seq(Row) /\ Len(members') <= MaxRows /\ Len(members') >= Len(members)
        /\ revocations' \subseteq Tokens /\ interrupted' \subseteq Members /\
             withdrawn' \subseteq Members
        /\ Grows /\ Len(members') \in Nat
    <3>1. UNCHANGED <<members, revocations, interrupted>> /\ withdrawn' \subseteq Members
      BY <1>0, <1>5 DEF ListTokens
    <3>2. QED BY <1>0, <3>1 DEF Grows
  <2>7. JobOK(job[p])'
    BY <1>0, <1>5, <2>3, <2>5, <2>6 DEF ListTokens, JobOK, Checking, Job
  <2>8. QED BY <2>4, <2>6, <2>7 DEF Steps
<1>6. ASSUME CheckToken(p) PROVE Steps(p)
  <2>0. job' = [job EXCEPT ![p] = job'[p]]
    BY <1>0, <1>6 DEF CheckToken
  <2>1. \/ job'[p] = [job[p] EXCEPT !.at = job[p].at + 1]
        \/ job'[p] = [job[p] EXCEPT !.pc = "append"]
    BY <1>0, <1>6 DEF CheckToken
  <2>s. job[p].at + 1 \in 1 .. MaxRows + 1
    BY <1>0, <1>6 DEF CheckToken, JobOK
  <2>2a. [job[p] EXCEPT !.at = job[p].at + 1] \in Job
    BY <1>0, <2>s DEF Job
  <2>2b. [job[p] EXCEPT !.pc = "append"] \in Job
    BY <1>0, <2>s DEF Job
  <2>3. job'[p] \in Job
    BY <1>0, <2>1, <2>2a, <2>2b
  <2>4. job' \in [Procs -> Job] /\ \A q \in Procs \ {p} : job'[q] = job[q]
    BY <1>0, <2>0, <2>3
  <2>5. \/ job'[p].op = job[p].op /\ job'[p].pc = job[p].pc /\ job'[p].member = job[p].member /\
             job'[p].role = job[p].role /\ job'[p].token = job[p].token /\
               job'[p].listed = job[p].listed /\ job'[p].at = job[p].at + 1
        \/ job'[p].op = job[p].op /\ job'[p].pc = "append" /\ job'[p].member = job[p].member /\
             job'[p].role = job[p].role /\ job'[p].token = job[p].token /\
               job'[p].listed = job[p].listed /\ job'[p].at = job[p].at
    BY <1>0, <2>1 DEF Job, Idle
  <2>6. /\ members' \in Seq(Row) /\ Len(members') <= MaxRows /\ Len(members') >= Len(members)
        /\ revocations' \subseteq Tokens /\ interrupted' \subseteq Members /\
             withdrawn' \subseteq Members
        /\ Grows /\ Len(members') \in Nat
    <3>1. UNCHANGED <<members, revocations, interrupted>> /\ withdrawn' \subseteq Members
      BY <1>0, <1>6 DEF CheckToken
    <3>2. QED BY <1>0, <3>1 DEF Grows
  <2>7. JobOK(job[p])'
    BY <1>0, <1>6, <2>3, <2>5, <2>6 DEF CheckToken, JobOK, Checking, Job
  <2>8. QED BY <2>4, <2>6, <2>7 DEF Steps
<1>7. ASSUME AppendRevocation(p) PROVE Steps(p)
  <2>0. job' = [job EXCEPT ![p] = job'[p]]
    BY <1>0, <1>7 DEF AppendRevocation
  <2>1. job'[p] = [job[p] EXCEPT !.pc = "loop", !.at = job[p].at + 1]
    BY <1>0, <1>7 DEF AppendRevocation
  <2>s. job[p].at + 1 \in 1 .. MaxRows + 1
    BY <1>0, <1>7 DEF AppendRevocation, JobOK
  <2>2a. [job[p] EXCEPT !.pc = "loop", !.at = job[p].at + 1] \in Job
    BY <1>0, <2>s DEF Job
  <2>3. job'[p] \in Job
    BY <1>0, <2>1, <2>2a
  <2>4. job' \in [Procs -> Job] /\ \A q \in Procs \ {p} : job'[q] = job[q]
    BY <1>0, <2>0, <2>3
  <2>5. job'[p].op = job[p].op /\ job'[p].pc = "loop" /\ job'[p].member = job[p].member /\
          job'[p].role = job[p].role /\ job'[p].token = job[p].token /\
            job'[p].listed = job[p].listed /\ job'[p].at = job[p].at + 1
    BY <1>0, <2>1 DEF Job, Idle
  <2>6. /\ members' \in Seq(Row) /\ Len(members') <= MaxRows /\ Len(members') >= Len(members)
        /\ revocations' \subseteq Tokens /\ interrupted' \subseteq Members /\
             withdrawn' \subseteq Members
        /\ Grows /\ Len(members') \in Nat
    BY <1>0, <1>7, SMTT(30) DEF AppendRevocation, JobOK, Grows, Row
  <2>7. JobOK(job[p])'
    BY <1>0, <1>7, <2>3, <2>5, <2>6 DEF AppendRevocation, JobOK, Checking, Job
  <2>8. QED BY <2>4, <2>6, <2>7 DEF Steps
<1>8. ASSUME AuditFails(p) PROVE Steps(p)
  <2>0. job' = [job EXCEPT ![p] = job'[p]]
    BY <1>0, <1>8 DEF AuditFails
  <2>1. job'[p] = Idle
    BY <1>0, <1>8 DEF AuditFails
  <2>3. job'[p] \in Job
    BY <1>0, <2>1
  <2>4. job' \in [Procs -> Job] /\ \A q \in Procs \ {p} : job'[q] = job[q]
    BY <1>0, <2>0, <2>3
  <2>5. job'[p].op = "none" /\ job'[p].pc = "idle" /\ job'[p].member = NoOne /\
          job'[p].role = NoOne /\ job'[p].token = NoOne /\ job'[p].listed = 0 /\ job'[p].at = 1
    BY <1>0, <2>1 DEF Job, Idle
  <2>6. /\ members' \in Seq(Row) /\ Len(members') <= MaxRows /\ Len(members') >= Len(members)
        /\ revocations' \subseteq Tokens /\ interrupted' \subseteq Members /\
             withdrawn' \subseteq Members
        /\ Grows /\ Len(members') \in Nat
    BY <1>0, <1>8 DEF AuditFails, JobOK, Grows, Row
  <2>7. JobOK(job[p])'
    BY <1>0, <1>8, <2>3, <2>5, <2>6 DEF AuditFails, JobOK, Checking, Job
  <2>8. QED BY <2>4, <2>6, <2>7 DEF Steps
<1>9. ASSUME EndLoop(p) PROVE Steps(p)
  <2>0. job' = [job EXCEPT ![p] = job'[p]]
    BY <1>0, <1>9 DEF EndLoop
  <2>1. \/ job[p].op = "rotate" /\ job'[p] = [job[p] EXCEPT !.pc = "role"]
        \/ job'[p] = Idle
    BY <1>0, <1>9 DEF EndLoop
  <2>2a. [job[p] EXCEPT !.pc = "role"] \in Job
    BY <1>0 DEF Job
  <2>3. job'[p] \in Job
    BY <1>0, <2>1, <2>2a
  <2>4. job' \in [Procs -> Job] /\ \A q \in Procs \ {p} : job'[q] = job[q]
    BY <1>0, <2>0, <2>3
  <2>5. \/ job[p].op = "rotate" /\ job'[p].op = job[p].op /\ job'[p].pc = "role" /\
             job'[p].member = job[p].member /\ job'[p].role = job[p].role /\
               job'[p].token = job[p].token /\ job'[p].listed = job[p].listed /\
                 job'[p].at = job[p].at
        \/ job'[p].op = "none" /\ job'[p].pc = "idle" /\ job'[p].member = NoOne /\
             job'[p].role = NoOne /\ job'[p].token = NoOne /\ job'[p].listed = 0 /\ job'[p].at = 1
    BY <1>0, <2>1 DEF Job, Idle
  <2>6. /\ members' \in Seq(Row) /\ Len(members') <= MaxRows /\ Len(members') >= Len(members)
        /\ revocations' \subseteq Tokens /\ interrupted' \subseteq Members /\
             withdrawn' \subseteq Members
        /\ Grows /\ Len(members') \in Nat
    <3>1. UNCHANGED <<members, revocations, interrupted>> /\ withdrawn' \subseteq Members
      BY <1>0, <1>9 DEF EndLoop
    <3>2. QED BY <1>0, <3>1 DEF Grows
  <2>7. JobOK(job[p])'
    BY <1>0, <1>9, <2>3, <2>5, <2>6 DEF EndLoop, JobOK, Checking, Job
  <2>8. QED BY <2>4, <2>6, <2>7 DEF Steps
<1>10. ASSUME ReadRole(p) PROVE Steps(p)
  <2>0. job' = [job EXCEPT ![p] = job'[p]]
    BY <1>0, <1>10 DEF ReadRole
  <2>1. PICK r \in Roles : job'[p] = [job[p] EXCEPT !.pc = "add", !.role = r]
    BY <1>0, <1>10 DEF ReadRole, Row, NewestOf
  <2>2a. [job[p] EXCEPT !.pc = "add", !.role = r] \in Job
    BY <1>0 DEF Job
  <2>3. job'[p] \in Job
    BY <1>0, <2>1, <2>2a
  <2>4. job' \in [Procs -> Job] /\ \A q \in Procs \ {p} : job'[q] = job[q]
    BY <1>0, <2>0, <2>3
  <2>5. job'[p].role = r /\ job'[p].op = job[p].op /\ job'[p].pc = "add" /\
          job'[p].member = job[p].member /\ job'[p].token = job[p].token /\
            job'[p].listed = job[p].listed /\ job'[p].at = job[p].at
    BY <1>0, <2>1 DEF Job, Idle
  <2>6. /\ members' \in Seq(Row) /\ Len(members') <= MaxRows /\ Len(members') >= Len(members)
        /\ revocations' \subseteq Tokens /\ interrupted' \subseteq Members /\
             withdrawn' \subseteq Members
        /\ Grows /\ Len(members') \in Nat
    <3>1. UNCHANGED <<members, revocations, interrupted>> /\ withdrawn' \subseteq Members
      BY <1>0, <1>10 DEF ReadRole
    <3>2. QED BY <1>0, <3>1 DEF Grows
  <2>7. JobOK(job[p])'
    BY <1>0, <1>10, <2>3, <2>5, <2>6 DEF ReadRole, JobOK, Checking, Job
  <2>8. QED BY <2>4, <2>6, <2>7 DEF Steps
<1>11. ASSUME Die(p) PROVE Steps(p)
  <2>0. job' = [job EXCEPT ![p] = job'[p]]
    BY <1>0, <1>11 DEF Die
  <2>1. job'[p] = Idle
    BY <1>0, <1>11 DEF Die
  <2>3. job'[p] \in Job
    BY <1>0, <2>1
  <2>4. job' \in [Procs -> Job] /\ \A q \in Procs \ {p} : job'[q] = job[q]
    BY <1>0, <2>0, <2>3
  <2>5. job'[p].op = "none" /\ job'[p].pc = "idle" /\ job'[p].member = NoOne /\
          job'[p].role = NoOne /\ job'[p].token = NoOne /\ job'[p].listed = 0 /\ job'[p].at = 1
    BY <1>0, <2>1 DEF Job, Idle
  <2>6. /\ members' \in Seq(Row) /\ Len(members') <= MaxRows /\ Len(members') >= Len(members)
        /\ revocations' \subseteq Tokens /\ interrupted' \subseteq Members /\
             withdrawn' \subseteq Members
        /\ Grows /\ Len(members') \in Nat
    BY <1>0, <1>11 DEF Die, JobOK, Grows, Row
  <2>7. JobOK(job[p])'
    BY <1>0, <1>11, <2>3, <2>5, <2>6 DEF Die, JobOK, Checking, Job
  <2>8. QED BY <2>4, <2>6, <2>7 DEF Steps
<1>12. ASSUME ReadRevocations(p) PROVE Steps(p)
  <2>0. job' = [job EXCEPT ![p] = job'[p]]
    BY <1>0, <1>12 DEF ReadRevocations
  <2>1. \/ job'[p] = [job[p] EXCEPT !.pc = "refused"]
        \/ job'[p] = [job[p] EXCEPT !.pc = "find"]
    BY <1>0, <1>12 DEF ReadRevocations
  <2>2a. [job[p] EXCEPT !.pc = "refused"] \in Job
    BY <1>0 DEF Job
  <2>2b. [job[p] EXCEPT !.pc = "find"] \in Job
    BY <1>0 DEF Job
  <2>3. job'[p] \in Job
    BY <1>0, <2>1, <2>2a, <2>2b
  <2>4. job' \in [Procs -> Job] /\ \A q \in Procs \ {p} : job'[q] = job[q]
    BY <1>0, <2>0, <2>3
  <2>5. \/ job'[p].op = job[p].op /\ job'[p].pc = "refused" /\ job'[p].member = job[p].member /\
             job'[p].role = job[p].role /\ job'[p].token = job[p].token /\
               job'[p].listed = job[p].listed /\ job'[p].at = job[p].at
        \/ job'[p].op = job[p].op /\ job'[p].pc = "find" /\ job'[p].member = job[p].member /\
             job'[p].role = job[p].role /\ job'[p].token = job[p].token /\
               job'[p].listed = job[p].listed /\ job'[p].at = job[p].at
    BY <1>0, <2>1 DEF Job, Idle
  <2>6. /\ members' \in Seq(Row) /\ Len(members') <= MaxRows /\ Len(members') >= Len(members)
        /\ revocations' \subseteq Tokens /\ interrupted' \subseteq Members /\
             withdrawn' \subseteq Members
        /\ Grows /\ Len(members') \in Nat
    <3>1. UNCHANGED <<members, revocations, interrupted>> /\ withdrawn' \subseteq Members
      BY <1>0, <1>12 DEF ReadRevocations
    <3>2. QED BY <1>0, <3>1 DEF Grows
  <2>7. JobOK(job[p])'
    BY <1>0, <1>12, <2>3, <2>5, <2>6 DEF ReadRevocations, JobOK, Checking, Job
  <2>8. QED BY <2>4, <2>6, <2>7 DEF Steps
<1>13. ASSUME FindMember(p) PROVE Steps(p)
  <2>0. job' = [job EXCEPT ![p] = job'[p]]
    BY <1>0, <1>13 DEF FindMember
  <2>1. PICK m \in Members \cup {NoOne}, r \in Roles \cup {NoOne} :
          \/ job'[p] = [job[p] EXCEPT !.pc = "refused"]
          \/ job'[p] = [job[p] EXCEPT !.pc = "authorized", !.member = m, !.role = r]
    <3>1. CASE job' = [job EXCEPT ![p].pc = "refused"]
      BY <1>0, <3>1
    <3>2. ASSUME NEW i \in DOMAIN members,
                 job' = [job EXCEPT ![p].pc = "authorized", ![p].member = members[i].member,
                                    ![p].role = members[i].role]
          PROVE  \E m \in Members, r \in Roles :
                    job'[p] = [job[p] EXCEPT !.pc = "authorized", !.member = m, !.role = r]
      BY <1>0, <3>2 DEF Row
    <3>3. QED
      BY <1>13, <3>1, <3>2 DEF FindMember
  <2>2a. [job[p] EXCEPT !.pc = "refused"] \in Job
    BY <1>0 DEF Job
  <2>2b. [job[p] EXCEPT !.pc = "authorized", !.member = m, !.role = r] \in Job
    BY <1>0 DEF Job
  <2>3. job'[p] \in Job
    BY <1>0, <2>1, <2>2a, <2>2b
  <2>4. job' \in [Procs -> Job] /\ \A q \in Procs \ {p} : job'[q] = job[q]
    BY <1>0, <2>0, <2>3
  <2>5. \/ job'[p].op = job[p].op /\ job'[p].pc = "refused" /\ job'[p].member = job[p].member /\
             job'[p].role = job[p].role /\ job'[p].token = job[p].token /\
               job'[p].listed = job[p].listed /\ job'[p].at = job[p].at
        \/ job'[p].op = job[p].op /\ job'[p].pc = "authorized" /\
             job'[p].token = job[p].token /\ job'[p].listed = job[p].listed /\
               job'[p].at = job[p].at
    <3>0. job[p] \in Job
      BY <1>0
    <3>1. CASE job'[p] = [job[p] EXCEPT !.pc = "refused"]
      BY <3>0, <3>1 DEF Job
    <3>2. CASE job'[p] = [job[p] EXCEPT !.pc = "authorized", !.member = m, !.role = r]
      BY <3>0, <3>2 DEF Job
    <3>3. QED
      BY <2>1, <3>1, <3>2
  <2>6. /\ members' \in Seq(Row) /\ Len(members') <= MaxRows /\ Len(members') >= Len(members)
        /\ revocations' \subseteq Tokens /\ interrupted' \subseteq Members /\
             withdrawn' \subseteq Members
        /\ Grows /\ Len(members') \in Nat
    <3>1. UNCHANGED <<members, revocations, interrupted>> /\ withdrawn' \subseteq Members
      BY <1>0, <1>13 DEF FindMember
    <3>2. QED BY <1>0, <3>1 DEF Grows
  <2>7. JobOK(job[p])'
    BY <1>0, <1>13, <2>3, <2>5, <2>6 DEF FindMember, JobOK, Checking, Job
  <2>8. QED BY <2>4, <2>6, <2>7 DEF Steps
<1>14. ASSUME Answered(p) PROVE Steps(p)
  <2>0. job' = [job EXCEPT ![p] = job'[p]]
    BY <1>0, <1>14 DEF Answered
  <2>1. job'[p] = Idle
    BY <1>0, <1>14 DEF Answered
  <2>3. job'[p] \in Job
    BY <1>0, <2>1
  <2>4. job' \in [Procs -> Job] /\ \A q \in Procs \ {p} : job'[q] = job[q]
    BY <1>0, <2>0, <2>3
  <2>5. job'[p].op = "none" /\ job'[p].pc = "idle" /\ job'[p].member = NoOne /\
          job'[p].role = NoOne /\ job'[p].token = NoOne /\ job'[p].listed = 0 /\ job'[p].at = 1
    BY <1>0, <2>1 DEF Job, Idle
  <2>6. /\ members' \in Seq(Row) /\ Len(members') <= MaxRows /\ Len(members') >= Len(members)
        /\ revocations' \subseteq Tokens /\ interrupted' \subseteq Members /\
             withdrawn' \subseteq Members
        /\ Grows /\ Len(members') \in Nat
    <3>1. UNCHANGED <<members, revocations, interrupted>> /\ withdrawn' \subseteq Members
      BY <1>0, <1>14 DEF Answered
    <3>2. QED BY <1>0, <3>1 DEF Grows
  <2>7. JobOK(job[p])'
    BY <1>0, <1>14, <2>3, <2>5, <2>6 DEF Answered, JobOK, Checking, Job
  <2>8. QED BY <2>4, <2>6, <2>7 DEF Steps
<1>15. ASSUME Decide(p) PROVE Steps(p)
  <2>0. job' = [job EXCEPT ![p] = job'[p]]
    BY <1>0, <1>15 DEF Decide
  <2>1. \/ job'[p] = [job[p] EXCEPT !.pc = "accepted"]
        \/ job'[p] = Idle
    BY <1>0, <1>15 DEF Decide
  <2>2a. [job[p] EXCEPT !.pc = "accepted"] \in Job
    BY <1>0 DEF Job
  <2>3. job'[p] \in Job
    BY <1>0, <2>1, <2>2a
  <2>4. job' \in [Procs -> Job] /\ \A q \in Procs \ {p} : job'[q] = job[q]
    BY <1>0, <2>0, <2>3
  <2>5. \/ job'[p].op = job[p].op /\ job'[p].pc = "accepted" /\
             job'[p].member = job[p].member /\ job'[p].role = job[p].role /\
               job'[p].token = job[p].token /\ job'[p].listed = job[p].listed /\
                 job'[p].at = job[p].at
        \/ job'[p].op = "none" /\ job'[p].pc = "idle" /\ job'[p].member = NoOne /\
             job'[p].role = NoOne /\ job'[p].token = NoOne /\ job'[p].listed = 0 /\ job'[p].at = 1
    BY <1>0, <2>1 DEF Job, Idle
  <2>6. /\ members' \in Seq(Row) /\ Len(members') <= MaxRows /\ Len(members') >= Len(members)
        /\ revocations' \subseteq Tokens /\ interrupted' \subseteq Members /\
             withdrawn' \subseteq Members
        /\ Grows /\ Len(members') \in Nat
    <3>1. UNCHANGED <<members, revocations, interrupted>> /\ withdrawn' \subseteq Members
      BY <1>0, <1>15 DEF Decide
    <3>2. QED BY <1>0, <3>1 DEF Grows
  <2>7. JobOK(job[p])'
    BY <1>0, <1>15, <2>3, <2>5, <2>6 DEF Decide, JobOK, Checking, Job
  <2>8. QED BY <2>4, <2>6, <2>7 DEF Steps
<1>16. ASSUME NEW t \in Tokens, BeginAuthorize(p, t) PROVE Steps(p)
  <2>0. job' = [job EXCEPT ![p] = job'[p]]
    BY <1>0, <1>16 DEF BeginAuthorize
  <2>1. job'[p] = [Idle EXCEPT !.op = "authorize", !.pc = "revoked?", !.token = t]
    BY <1>0, <1>16 DEF BeginAuthorize
  <2>2a. [Idle EXCEPT !.op = "authorize", !.pc = "revoked?", !.token = t] \in Job
    BY <1>0 DEF Job
  <2>3. job'[p] \in Job
    BY <1>0, <2>1, <2>2a
  <2>4. job' \in [Procs -> Job] /\ \A q \in Procs \ {p} : job'[q] = job[q]
    BY <1>0, <2>0, <2>3
  <2>5. job'[p].op = "authorize" /\ job'[p].pc = "revoked?" /\ job'[p].member = NoOne /\
          job'[p].role = NoOne /\ job'[p].token = t /\ job'[p].listed = 0 /\ job'[p].at = 1
    BY <1>0, <2>1 DEF Job, Idle
  <2>6. /\ members' \in Seq(Row) /\ Len(members') <= MaxRows /\ Len(members') >= Len(members)
        /\ revocations' \subseteq Tokens /\ interrupted' \subseteq Members /\
             withdrawn' \subseteq Members
        /\ Grows /\ Len(members') \in Nat
    <3>1. UNCHANGED <<members, revocations, interrupted>> /\ withdrawn' \subseteq Members
      BY <1>0, <1>16 DEF BeginAuthorize
    <3>2. QED BY <1>0, <3>1 DEF Grows
  <2>7. JobOK(job[p])'
    BY <1>0, <1>16, <2>3, <2>5, <2>6 DEF BeginAuthorize, JobOK, Checking, Job
  <2>8. QED BY <2>4, <2>6, <2>7 DEF Steps
<1> QED BY <1>1, <1>2, <1>3, <1>4, <1>5, <1>6, <1>7, <1>8, <1>9, <1>10, <1>11, <1>12, <1>13, <1>14, <1>15, <1>16 DEF Own, Manage, Check

-----------------------------------------------------------------------------
\* Every revoked token was handed out once: revocations come from rows.
RevokedHadRow == \A t \in revocations : HasRow(t)

\* What a check has seen by the time it knows something.
CheckOK ==
    \A p \in Procs :
        /\ job[p].pc = "find" /\ HasRow(job[p].token) => TRUE \in seen[p]
        /\ job[p].pc \in {"authorized", "accepted"} => TRUE \in seen[p]
        /\ job[p].pc = "refused" => FALSE \in seen[p]

MemberInv == MemberTypeOK /\ JobsOK /\ ListedAreRevoked /\ RevokedHadRow /\ CheckOK

MemberNext == Still \/ \E p \in Procs : Own(p)

\* Rows stay where they are, and tokens that have one keep it.
LEMMA RowsStay ==
    ASSUME MemberTypeOK, Grows
    PROVE  /\ Len(members) \in Nat /\ Len(members') \in Nat /\ Len(members) <= Len(members')
           /\ \A i \in 1 .. Len(members) : members'[i] = members[i]
           /\ \A t : HasRow(t) => HasRow(t)'
           /\ revocations \subseteq revocations'
  BY DEF MemberTypeOK, Grows, HasRow

\* Every revoked token was handed out, still.
LEMMA RevokedStep ==
    ASSUME MemberTypeOK, RevokedHadRow, Grows
    PROVE  RevokedHadRow'
<1>1. CASE revocations' = revocations
  BY <1>1, RowsStay DEF RevokedHadRow
<1>2. ASSUME NEW i \in DOMAIN members, revocations' = revocations \cup {members[i].token}
      PROVE  RevokedHadRow'
  BY <1>2, RowsStay DEF RevokedHadRow, HasRow
<1> QED BY <1>1, <1>2 DEF Grows

\* How the loop index of the process that steps moves.
AtMoves(p) ==
    \/ job'[p].at = 1
    \/ job'[p].at = job[p].at /\ job'[p].op = job[p].op /\ job'[p].member = job[p].member
    \/ /\ job'[p].at = job[p].at + 1 /\ job[p].at \in 1 .. Len(members)
       /\ job'[p].op = job[p].op /\ job'[p].member = job[p].member
       /\ \/ members[job[p].at].member # job[p].member
          \/ members[job[p].at].token \in revocations'
    \/ job'[p].op \notin {"revoke", "rotate"}

LEMMA AtStep ==
    ASSUME MembershipAssumption, MemberTypeOK, JobsOK, NEW p \in Procs, Own(p)
    PROVE  AtMoves(p)
<1>0. /\ job \in [Procs -> Job] /\ JobOK(job[p]) /\ members \in Seq(Row)
      /\ job[p].at \in 1 .. MaxRows + 1 /\ job[p].listed \in 0 .. MaxRows /\ MaxRows \in Nat
      /\ Len(members) \in Nat
  BY MembershipAssumption DEF Job, MembershipAssumption, MemberTypeOK, JobsOK
<1>1. CASE \/ \E m \in Members, r \in Roles, t \in Tokens : BeginAdd(p, m, r, t)
           \/ \E m \in Members, t \in Tokens : BeginRotate(p, m, t)
           \/ \E m \in Members : BeginRevoke(p, m)
           \/ \E t \in Tokens : BeginAuthorize(p, t)
  BY <1>0, <1>1 DEF AtMoves, BeginAdd, BeginRotate, BeginRevoke, BeginAuthorize, Idle
<1>2. CASE AppendMember(p) \/ AuditFails(p) \/ Die(p) \/ Answered(p)
  BY <1>0, <1>2 DEF AtMoves, AppendMember, AuditFails, Die, Answered, Idle
<1>3. CASE ListTokens(p)
  BY <1>0, <1>3 DEF AtMoves, ListTokens
<1>4. CASE CheckToken(p)
  <2>1. job[p].at \in 1 .. Len(members)
    BY <1>0, <1>4 DEF CheckToken, JobOK
  <2>2. CASE /\ \/ members[job[p].at].member # job[p].member
                \/ members[job[p].at].token \in revocations
             /\ job' = [job EXCEPT ![p].at = @ + 1]
    BY <1>0, <1>4, <2>1, <2>2 DEF AtMoves, CheckToken
  <2>3. CASE job' = [job EXCEPT ![p].pc = "append"]
    BY <1>0, <2>3 DEF AtMoves
  <2>4. QED
    BY <1>4, <2>2, <2>3 DEF CheckToken
<1>5. CASE AppendRevocation(p)
  BY <1>0, <1>5 DEF AtMoves, AppendRevocation, JobOK
<1>6. CASE EndLoop(p)
  BY <1>0, <1>6 DEF AtMoves, EndLoop, Idle
<1>7. CASE ReadRole(p)
  <2>1. PICK r : job' = [job EXCEPT ![p].pc = "add", ![p].role = r]
    BY <1>7 DEF ReadRole
  <2>2. QED
    BY <1>0, <2>1 DEF AtMoves
<1>8. CASE ReadRevocations(p) \/ Decide(p)
  <2>1. CASE ReadRevocations(p)
    BY <1>0, <2>1 DEF AtMoves, ReadRevocations
  <2>2. CASE Decide(p)
    <3>1. job'[p] = Idle \/ job'[p] = [job[p] EXCEPT !.pc = "accepted"]
      BY <1>0, <2>2 DEF Decide
    <3>2. CASE job'[p] = Idle
      BY <3>2 DEF AtMoves, Idle
    <3>3. CASE job'[p] = [job[p] EXCEPT !.pc = "accepted"]
      <4>1. job[p] \in Job
        BY DEF MemberTypeOK
      <4>2. job'[p].at = job[p].at /\ job'[p].op = job[p].op /\ job'[p].member = job[p].member
        BY <3>3, <4>1 DEF Job
      <4>3. QED BY <4>2 DEF AtMoves
    <3>4. QED
      BY <3>1, <3>2, <3>3
  <2>3. QED
    BY <1>8, <2>1, <2>2
<1>9. CASE FindMember(p)
  <2>1. job'[p].op = job[p].op /\ job[p].op = "authorize"
    <3>1. job[p].op = "authorize"
      BY <1>0, <1>9 DEF FindMember, JobOK, Checking
    <3>2. CASE job' = [job EXCEPT ![p].pc = "refused"]
      BY <1>0, <3>1, <3>2
    <3>3. ASSUME NEW m, NEW r, job' = [job EXCEPT ![p].pc = "authorized", ![p].member = m, ![p].role = r]
          PROVE  job'[p].op = job[p].op
      BY <1>0, <3>3
    <3>4. QED BY <1>9, <3>1, <3>2, <3>3 DEF FindMember
  <2>2. QED BY <2>1 DEF AtMoves
<1> QED
  BY <1>1, <1>2, <1>3, <1>4, <1>5, <1>6, <1>7, <1>8, <1>9 DEF Own, Manage, Check

\* The rows a loop is past are revoked, still.
LEMMA ListedStep ==
    ASSUME MembershipAssumption, MemberTypeOK, JobsOK, ListedAreRevoked, NEW p \in Procs, Own(p)
    PROVE  ListedAreRevoked'
<1>0. Steps(p) /\ AtMoves(p)
  BY OwnStep, AtStep
<1>1. Grows /\ job' \in [Procs -> Job] /\ \A q \in Procs \ {p} : job'[q] = job[q]
  BY <1>0 DEF Steps
<1>2. SUFFICES ASSUME NEW q \in Procs, job'[q].op \in {"revoke", "rotate"},
                      NEW i \in 1 .. job'[q].at - 1, members'[i].member = job'[q].member
               PROVE  members'[i].token \in revocations'
  BY DEF ListedAreRevoked
<1>3. \A x \in Procs : /\ job[x].at \in Nat /\ job[x].listed \in Nat
                       /\ job[x].at <= job[x].listed + 1 /\ job[x].listed <= Len(members)
  BY MembershipAssumption DEF MemberTypeOK, JobsOK, JobOK, Job, MembershipAssumption
<1>4. ASSUME job'[q].op = job[q].op, job'[q].member = job[q].member, i \in 1 .. job[q].at - 1
      PROVE  members'[i].token \in revocations'
  <2>1. i \in 1 .. Len(members) /\ members'[i] = members[i]
    BY <1>1, <1>3, <1>4, RowsStay
  <2>2. members[i].token \in revocations
    BY <1>2, <1>4, <2>1 DEF ListedAreRevoked
  <2>3. QED BY <1>1, <2>1, <2>2, RowsStay
<1>5. CASE q # p
  BY <1>1, <1>2, <1>4, <1>5
<1>6. CASE q = p /\ job'[p].at = job[p].at + 1 /\ i = job[p].at
  <2>1. i \in 1 .. Len(members) /\ job'[p].member = job[p].member
        /\ (members[i].member # job[p].member \/ members[i].token \in revocations')
    BY <1>0, <1>2, <1>3, <1>6 DEF AtMoves
  <2>2. members'[i] = members[i]
    BY <1>1, <2>1, RowsStay
  <2>3. QED BY <1>2, <1>6, <2>1, <2>2
<1>7. CASE q = p /\ ~ (job'[p].at = job[p].at + 1 /\ i = job[p].at)
  <2>1. job'[p].at # 1
    BY <1>2, <1>7
  <2>2. job'[p].op = job[p].op /\ job'[p].member = job[p].member /\ i \in 1 .. job[p].at - 1
    BY <1>0, <1>2, <1>3, <1>7, <2>1 DEF AtMoves
  <2>3. QED BY <1>4, <1>7, <2>2
<1> QED BY <1>5, <1>6, <1>7

-----------------------------------------------------------------------------
\* What the process that steps knows afterwards, from the action it took.
CheckMoves(p) ==
    \/ job'[p].pc \notin Checking
    \/ job'[p].pc = "revoked?"
    \/ /\ UNCHANGED <<members, revocations>>
       /\ job[p].pc \in Checking
       /\ job'[p].token = job[p].token /\ job[p].token \in Tokens
       /\ \/ job'[p].pc = "refused" /\ (job[p].token \in revocations \/ ~ HasRow(job[p].token))
          \/ job'[p].pc = "find" /\ job[p].token \notin revocations
          \/ job'[p].pc = "authorized" /\ job[p].pc = "find" /\ HasRow(job[p].token)
          \/ job'[p].pc = "accepted" /\ job[p].pc = "authorized"

LEMMA CheckMove ==
    ASSUME MembershipAssumption, MemberTypeOK, JobsOK, NEW p \in Procs, Own(p)
    PROVE  CheckMoves(p)
<1>0. /\ job \in [Procs -> Job] /\ JobOK(job[p]) /\ job[p] \in Job
      /\ job[p].pc \in Checking => job[p].token \in Tokens
  BY DEF MemberTypeOK, JobsOK, JobOK
<1>1. CASE \/ \E m \in Members, r \in Roles, t \in Tokens : BeginAdd(p, m, r, t)
           \/ \E m \in Members, t \in Tokens : BeginRotate(p, m, t)
           \/ \E m \in Members : BeginRevoke(p, m)
           \/ \E t \in Tokens : BeginAuthorize(p, t)
  <2>1. job'[p].pc \in {"add", "list", "revoked?"}
    <3>1. ASSUME NEW m, NEW r, NEW t, BeginAdd(p, m, r, t) PROVE job'[p].pc = "add"
      BY <1>0, <3>1 DEF BeginAdd, Idle
    <3>2. ASSUME NEW m, NEW t, BeginRotate(p, m, t) PROVE job'[p].pc = "list"
      BY <1>0, <3>2 DEF BeginRotate, Idle
    <3>3. ASSUME NEW m, BeginRevoke(p, m) PROVE job'[p].pc = "list"
      BY <1>0, <3>3 DEF BeginRevoke, Idle
    <3>4. ASSUME NEW t, BeginAuthorize(p, t) PROVE job'[p].pc = "revoked?"
      BY <1>0, <3>4 DEF BeginAuthorize, Idle
    <3>5. QED BY <1>1, <3>1, <3>2, <3>3, <3>4
  <2>2. QED BY <2>1 DEF CheckMoves, Checking
<1>2. CASE AppendMember(p) \/ AuditFails(p) \/ Die(p) \/ Answered(p)
  BY <1>0, <1>2 DEF CheckMoves, Checking, AppendMember, AuditFails, Die, Answered, Idle
<1>3. CASE ListTokens(p) \/ AppendRevocation(p)
  <2>1. CASE ListTokens(p)
    BY <1>0, <2>1 DEF CheckMoves, Checking, ListTokens
  <2>2. CASE AppendRevocation(p)
    BY <1>0, <2>2 DEF CheckMoves, Checking, AppendRevocation
  <2>3. QED BY <1>3, <2>1, <2>2
<1>4. CASE CheckToken(p)
  <2>1. job'[p].pc \in {"loop", "append"}
    <3>1. CASE job' = [job EXCEPT ![p].at = @ + 1]
      BY <1>0, <1>4, <3>1 DEF CheckToken
    <3>2. CASE job' = [job EXCEPT ![p].pc = "append"]
      BY <1>0, <3>2
    <3>3. QED BY <1>4, <3>1, <3>2 DEF CheckToken
  <2>2. QED BY <2>1 DEF CheckMoves, Checking
<1>5. CASE EndLoop(p)
  BY <1>0, <1>5 DEF CheckMoves, Checking, EndLoop, Idle
<1>6. CASE ReadRole(p)
  <2>1. PICK r : job' = [job EXCEPT ![p].pc = "add", ![p].role = r]
    BY <1>6 DEF ReadRole
  <2>2. job'[p].pc = "add"
    BY <1>0, <2>1
  <2>3. QED BY <2>2 DEF CheckMoves, Checking
<1>7. CASE ReadRevocations(p)
  <2>1. /\ UNCHANGED <<members, revocations>> /\ job[p].pc = "revoked?" /\
             job'[p].token = job[p].token
        /\ job'[p].pc = IF job[p].token \in revocations THEN "refused" ELSE "find"
    BY <1>0, <1>7 DEF ReadRevocations
  <2>2. QED BY <1>0, <2>1 DEF CheckMoves, Checking
<1>8. CASE FindMember(p)
  <2>1. UNCHANGED <<members, revocations>> /\ job[p].pc = "find"
    BY <1>8 DEF FindMember
  <2>2. CASE ~ HasRow(job[p].token) /\ job' = [job EXCEPT ![p].pc = "refused"]
    <3>1. job'[p].pc = "refused" /\ job'[p].token = job[p].token
      BY <1>0, <2>2
    <3>2. QED BY <1>0, <2>1, <2>2, <3>1 DEF CheckMoves, Checking
  <2>3. ASSUME NEW m, NEW r, HasRow(job[p].token),
               job' = [job EXCEPT ![p].pc = "authorized", ![p].member = m, ![p].role = r]
        PROVE  CheckMoves(p)
    <3>1. job'[p].pc = "authorized" /\ job'[p].token = job[p].token
      BY <1>0, <2>3
    <3>2. QED BY <1>0, <2>1, <2>3, <3>1 DEF CheckMoves, Checking
  <2>4. CASE \E i \in DOMAIN members :
               /\ members[i].token = job[p].token
               /\ job' = [job EXCEPT ![p].pc = "authorized", ![p].member = members[i].member,
                                     ![p].role = members[i].role]
    <3>1. PICK i \in DOMAIN members :
               /\ members[i].token = job[p].token
               /\ job' = [job EXCEPT ![p].pc = "authorized", ![p].member = members[i].member,
                                     ![p].role = members[i].role]
      BY <2>4
    <3>2. HasRow(job[p].token)
      BY <3>1 DEF HasRow
    <3>3. QED BY <2>3, <3>1, <3>2
  <2>5. QED BY <1>8, <2>2, <2>4 DEF FindMember
<1>9. CASE Decide(p)
  <2>1. /\ UNCHANGED <<members, revocations>> /\ job[p].pc = "authorized"
        /\ job'[p] = Idle \/ job'[p] = [job[p] EXCEPT !.pc = "accepted"]
    BY <1>0, <1>9 DEF Decide
  <2>2. job'[p].pc = "idle" \/ (job'[p].pc = "accepted" /\ job'[p].token = job[p].token)
    BY <1>0, <2>1 DEF Idle, Job
  <2>3. QED BY <1>0, <2>1, <2>2 DEF CheckMoves, Checking
<1> QED
  BY <1>1, <1>2, <1>3, <1>4, <1>5, <1>6, <1>7, <1>8, <1>9 DEF Own, Manage, Check

\* The history of a check contains its past, and whether the token is valid now.
LEMMA SeenStep ==
    ASSUME NEW p \in Procs, Watch, job'[p].pc \in Checking, job'[p].token \in Tokens
    PROVE  /\ job[p].pc \in Checking => seen[p] \subseteq seen'[p]
           /\ Valid(job[p].token)' => TRUE \in seen'[p]
           /\ ~ Valid(job[p].token)' => FALSE \in seen'[p]
<1>1. seen'[p] = (IF job[p].pc \in Checking THEN seen[p] ELSE {}) \cup {job'[p].token \in ValidTokens'}
  BY DEF Watch
<1>2. Valid(job[p].token)' <=> job'[p].token \in ValidTokens'
  BY DEF ValidTokens
<1>3. CASE Valid(job[p].token)'
  <2>1. (job'[p].token \in ValidTokens') = TRUE
    BY <1>2, <1>3
  <2>2. QED BY <1>1, <1>3, <2>1
<1>4. CASE ~ Valid(job[p].token)'
  <2>1. (job'[p].token \in ValidTokens') = FALSE
    BY <1>2, <1>4
  <2>2. QED BY <1>1, <1>4, <2>1
<1> QED BY <1>3, <1>4

\* What a check knows stays justified, whoever steps.
LEMMA CheckStep ==
    ASSUME MemberTypeOK, JobsOK, JobsOK', CheckOK, RevokedHadRow, Grows, Watch,
           NEW p \in Procs, CheckMoves(p), \A q \in Procs \ {p} : job'[q] = job[q]
    PROVE  CheckOK'
<1>1. SUFFICES ASSUME NEW q \in Procs, job'[q].pc \in Checking
               PROVE  /\ job'[q].pc = "find" /\ HasRow(job[q].token)' => TRUE \in seen'[q]
                      /\ job'[q].pc \in {"authorized", "accepted"} => TRUE \in seen'[q]
                      /\ job'[q].pc = "refused" => FALSE \in seen'[q]
  BY DEF CheckOK, Checking
<1>2. job'[q].token \in Tokens
  BY <1>1 DEF JobsOK, JobOK
<1>3. /\ job[q].pc \in Checking => seen[q] \subseteq seen'[q]
      /\ Valid(job[q].token)' => TRUE \in seen'[q]
      /\ ~ Valid(job[q].token)' => FALSE \in seen'[q]
  BY <1>1, <1>2, SeenStep
<1>4. CASE q # p
  <2>1. job'[q] = job[q] /\ seen[q] \subseteq seen'[q]
    BY <1>1, <1>3, <1>4
  <2>2. ASSUME job[q].pc = "find", HasRow(job[q].token)', ~ HasRow(job[q].token)
        PROVE  TRUE \in seen'[q]
    <3>1. job[q].token \notin revocations
      BY <2>2 DEF RevokedHadRow
    <3>2. revocations' = revocations
      BY <2>1, <2>2 DEF Grows, HasRow
    <3>3. Valid(job[q].token)'
      BY <2>1, <2>2, <3>1, <3>2 DEF Valid
    <3>4. QED BY <1>3, <3>3
  <2>3. QED BY <2>1, <2>2 DEF CheckOK
<1>5. CASE q = p
  <2>1. \/ job'[p].pc = "revoked?"
        \/ /\ UNCHANGED <<members, revocations>>
           /\ job[p].pc \in Checking
           /\ job'[p].token = job[p].token
           /\ \/ job'[p].pc = "refused" /\ (job[p].token \in revocations \/ ~ HasRow(job[p].token))
              \/ job'[p].pc = "find" /\ job[p].token \notin revocations
              \/ job'[p].pc = "authorized" /\ job[p].pc = "find" /\ HasRow(job[p].token)
              \/ job'[p].pc = "accepted" /\ job[p].pc = "authorized"
    BY <1>1, <1>5 DEF CheckMoves
  <2>2. CASE job'[p].pc = "refused" /\ (job[p].token \in revocations \/ ~ HasRow(job[p].token))
             /\ UNCHANGED <<members, revocations>> /\ job'[p].token = job[p].token
    <3>1. ~ Valid(job[p].token)'
      BY <2>2 DEF Valid, HasRow
    <3>2. QED BY <1>3, <1>5, <2>2, <3>1
  <2>3. CASE job'[p].pc = "find" /\ job[p].token \notin revocations
             /\ UNCHANGED <<members, revocations>> /\ job'[p].token = job[p].token
    <3>1. HasRow(job[p].token)' => Valid(job[p].token)'
      BY <2>3 DEF Valid, HasRow
    <3>2. QED BY <1>3, <1>5, <2>3, <3>1
  <2>4. CASE job'[p].pc = "authorized" /\ job[p].pc = "find" /\ HasRow(job[p].token)
             /\ job[p].pc \in Checking
    BY <1>3, <1>5, <2>4 DEF CheckOK
  <2>5. CASE job'[p].pc = "accepted" /\ job[p].pc = "authorized" /\ job[p].pc \in Checking
    BY <1>3, <1>5, <2>5 DEF CheckOK
  <2>6. CASE job'[p].pc = "revoked?"
    BY <1>5, <2>6
  <2>7. QED BY <2>1, <2>2, <2>3, <2>4, <2>5, <2>6
<1>6. QED BY <1>4, <1>5

\* The member files as a whole: one step of a process, or of the rest of the gate.
LEMMA MemberInvStep ==
    ASSUME MembershipAssumption, MemberInv, MemberNext, Watch
    PROVE  MemberInv'
<1> USE DEF MemberInv
<1>1. seen' \in [Procs -> SUBSET BOOLEAN]
  <2>1. \A q \in Procs : seen[q] \subseteq BOOLEAN
    BY DEF MemberTypeOK
  <2>2. \A q \in Procs : (job'[q].token \in ValidTokens') \in BOOLEAN
    OBVIOUS
  <2>3. \A q \in Procs :
          (IF job'[q].pc \in Checking
           THEN (IF job[q].pc \in Checking THEN seen[q] ELSE {}) \cup {job'[q].token \in ValidTokens'}
           ELSE {}) \subseteq BOOLEAN
    BY <2>1, <2>2
  <2>4. QED BY <2>3 DEF Watch
<1>2. ASSUME NEW p \in Procs, Own(p) PROVE MemberInv'
  <2>1. Steps(p) /\ CheckMoves(p) /\ ListedAreRevoked'
    BY <1>2, OwnStep, CheckMove, ListedStep
  <2>2. MemberTypeOK'
    BY <1>1, <2>1 DEF Steps, MemberTypeOK
  <2>3. JobsOK'
    <3>1. SUFFICES ASSUME NEW q \in Procs PROVE JobOK(job[q])'
      BY DEF JobsOK
    <3>2. CASE q = p
      BY <2>1, <3>2 DEF Steps
    <3>3. CASE q # p
      <4>1. job'[q] = job[q] /\ JobOK(job[q]) /\ job[q] \in Job
        BY <2>1, <3>3 DEF Steps, JobsOK, MemberTypeOK
      <4>2. Len(members) <= Len(members') /\ Len(members) \in Nat /\ Len(members') \in Nat
        BY <2>1, RowsStay DEF Steps
      <4>3. job[q].listed \in Nat
        BY <4>1, MembershipAssumption DEF Job, MembershipAssumption
      <4>4. QED BY <4>1, <4>2, <4>3 DEF JobOK
    <3>4. QED BY <3>2, <3>3
  <2>4. RevokedHadRow' /\ CheckOK'
    BY <2>1, <2>3, RevokedStep, CheckStep DEF Steps
  <2>5. QED BY <2>1, <2>2, <2>3, <2>4
<1>3. CASE Still
  <2>1. MemberTypeOK' /\ JobsOK' /\ ListedAreRevoked' /\ RevokedHadRow'
    BY <1>1, <1>3 DEF Still, MemberTypeOK, JobsOK, JobOK, ListedAreRevoked, RevokedHadRow, HasRow
  <2>2. CheckOK'
    <3>1. SUFFICES ASSUME NEW q \in Procs, job'[q].pc \in Checking
                   PROVE  /\ job'[q].pc = "find" /\ HasRow(job[q].token)' => TRUE \in seen'[q]
                          /\ job'[q].pc \in {"authorized", "accepted"} => TRUE \in seen'[q]
                          /\ job'[q].pc = "refused" => FALSE \in seen'[q]
      BY DEF CheckOK, Checking
    <3>2. job'[q] = job[q] /\ (HasRow(job[q].token)' <=> HasRow(job[q].token))
      BY <1>3 DEF Still, HasRow
    <3>3. job'[q].token \in Tokens
      BY <2>1, <3>1 DEF JobsOK, JobOK
    <3>4. seen[q] \subseteq seen'[q]
      BY <3>1, <3>2, <3>3, SeenStep
    <3>5. QED BY <3>2, <3>4 DEF CheckOK
  <2>3. QED BY <2>1, <2>2
<1>4. QED BY <1>2, <1>3 DEF MemberNext

LEMMA MemberInvInit ==
    ASSUME MembershipAssumption, Init PROVE MemberInv
<1>1. Idle \in Job /\ Idle.pc = "idle" /\ Idle.op = "none" /\ Idle.at = 1 /\ Idle.listed = 0
  BY MembershipAssumption DEF Idle, Job, MembershipAssumption
<1>2. \A p \in Procs : job[p] = Idle
  BY DEF Init
<1>3. members = <<>> /\ revocations = {} /\ Len(members) = 0 /\ members \in Seq(Row)
  BY DEF Init
<1>4. MemberTypeOK
  BY <1>1, <1>3, MembershipAssumption DEF Init, MemberTypeOK, MembershipAssumption
<1>5. JobsOK
  <2>1. SUFFICES ASSUME NEW p \in Procs PROVE JobOK(job[p])
    BY DEF JobsOK
  <2>2. job[p].pc = "idle" /\ job[p].op = "none" /\ job[p].at = 1 /\ job[p].listed = 0
    BY <1>1, <1>2
  <2>3. QED BY <1>3, <2>2 DEF JobOK, Checking
<1>6. ListedAreRevoked /\ RevokedHadRow /\ CheckOK
  BY <1>1, <1>2, <1>3 DEF ListedAreRevoked, RevokedHadRow, CheckOK
<1> QED BY <1>4, <1>5, <1>6 DEF MemberInv

\* What a step of the gate is for the member files.
LEMMA GateIsMember ==
    ASSUME [GateNext]_<<memberVars, gateVars>>, ~ UNCHANGED <<memberVars, gateVars>>
    PROVE  MemberNext /\ Watch
<1>1. Watch /\ GateNext
  BY DEF GateNext
<1>2. ASSUME NEW p \in Procs, NEW c \in Clients, NEW t \in Tokens, Admit(p, c, t) PROVE Own(p)
  BY <1>2 DEF Admit, Own
<1>3. ASSUME NEW c \in Clients, TooMany(c) \/ Anonymous(c) PROVE Still
  BY <1>3 DEF TooMany, Anonymous, Still
<1>4. ASSUME NEW d \in Policies, ChangePolicy(d) PROVE Still
  BY <1>4 DEF ChangePolicy, Still
<1>5. CASE Tick
  BY <1>1, <1>5 DEF Tick, MemberNext, Still
<1>6. ASSUME NEW p \in Procs, Manage(p) \/ Check(p) \/ Decide(p) PROVE Own(p)
  BY <1>6 DEF Own
<1> QED
  BY <1>1, <1>2, <1>3, <1>4, <1>5, <1>6 DEF GateNext, MemberNext

\* What the gate and the commands keep true of the member files, their processes and
\* the checks in progress: the inductive invariant of the two theorems below.
THEOREM GateMembers == ASSUME MembershipAssumption PROVE GateSpec => []MemberInv
<1>1. GateInit => MemberInv
  BY MemberInvInit DEF GateInit
<1>2. MemberInv /\ [GateNext]_<<memberVars, gateVars>> => MemberInv'
  <2>1. SUFFICES ASSUME MemberInv, [GateNext]_<<memberVars, gateVars>> PROVE MemberInv'
    OBVIOUS
  <2>2. CASE UNCHANGED <<memberVars, gateVars>>
    BY <2>1, <2>2 DEF memberVars, MemberInv, MemberTypeOK, JobsOK, JobOK, ListedAreRevoked,
          RevokedHadRow, CheckOK, HasRow
  <2>3. CASE ~ UNCHANGED <<memberVars, gateVars>>
    BY <2>1, <2>3, GateIsMember, MemberInvStep
  <2>4. QED BY <2>2, <2>3
<1>3. QED
  BY <1>1, <1>2, PTL DEF GateSpec

\* authorize answers as of one moment of the check, for any number of processes,
\* members and tokens, whatever the commands do meanwhile.
THEOREM AuthorizeIsAtomic == ASSUME MembershipAssumption PROVE GateSpec => []AnswerWasTrue
<1>1. MemberInv => AnswerWasTrue
  BY DEF MemberInv, CheckOK, AnswerWasTrue
<1> QED BY <1>1, GateMembers, PTL

\* revoke_member and rotations leave no token they listed.
THEOREM NoListedTokenSurvives == ASSUME MembershipAssumption PROVE GateSpec => []ListedAreRevoked
<1>1. MemberInv => ListedAreRevoked
  BY DEF MemberInv
<1> QED BY <1>1, GateMembers, PTL

-----------------------------------------------------------------------------
\* The limiter.  A client without a bucket of this minute has had nothing let
\* through; one that has a bucket has had no more than it counts.
Current(c) == c \in DOMAIN buckets /\ buckets[c].minute = minute
LimiterInv ==
    /\ minute \in Nat /\ policy \in Policies /\ most \in Int
    /\ passed \in [Clients -> Nat]
    /\ DOMAIN buckets \subseteq Clients
    /\ \A c \in DOMAIN buckets : buckets[c].minute \in Nat /\ buckets[c].minute <= minute
                                 /\ buckets[c].count \in Nat
    /\ Limit(policy) <= most
    /\ \A c \in Clients : /\ ~ Current(c) => passed[c] = 0
                          /\ Current(c) => passed[c] <= buckets[c].count
    /\ WithinLimit

LEMMA LimitIsInt == ASSUME GateAssumption, NEW d \in Policies PROVE Limit(d) \in Int
  BY DEF GateAssumption, Limit

\* What counting a request does to the buckets of this minute: the clean-up leaves
\* them alone.
LEMMA CountingKeeps ==
    ASSUME GateAssumption, LimiterInv, NEW c \in Clients, buckets' = Counted(c), minute' = minute
    PROVE  /\ DOMAIN buckets' \subseteq Clients
           /\ \A x \in DOMAIN buckets' : buckets'[x].minute \in Nat /\ buckets'[x].minute <= minute
                                         /\ buckets'[x].count \in Nat
           /\ \A x \in Clients \ {c} : /\ Current(x)' <=> Current(x)
                                       /\ Current(x) => buckets'[x] = buckets[x]
           /\ Current(c)' /\ buckets'[c].count = Bucket(c).count
           /\ Bucket(c).count \in Nat
           /\ passed[c] < Bucket(c).count
<1> DEFINE all == [x \in DOMAIN buckets \cup {c} |-> IF x = c THEN Bucket(c) ELSE buckets[x]]
           kept == {x \in DOMAIN all : all[x].minute + KeepMinutes >= minute}
<1>1. /\ Bucket(c).minute = minute /\ Bucket(c).count \in Nat /\ passed[c] < Bucket(c).count
  BY DEF Bucket, LimiterInv, Current
<1>2. DOMAIN all = DOMAIN buckets \cup {c} /\ all[c] = Bucket(c)
      /\ \A x \in DOMAIN buckets \ {c} : all[x] = buckets[x]
  OBVIOUS
<1>3. buckets' = all \/ buckets' = [x \in kept |-> all[x]]
  BY DEF Counted, CleanUp, Restrict
<1>4. minute \in Nat /\ KeepMinutes \in Nat
  BY DEF LimiterInv, GateAssumption
<1>5. \A x \in DOMAIN buckets : buckets[x].minute \in Nat /\ buckets[x].minute <= minute /\
        buckets[x].count \in Nat
  BY DEF LimiterInv
<1>6. DOMAIN buckets \subseteq Clients
  BY DEF LimiterInv
<1> HIDE DEF all
<1>7. CASE buckets' = all
  BY <1>1, <1>2, <1>4, <1>5, <1>6, <1>7 DEF Current
<1>8. CASE buckets' = [x \in kept |-> all[x]]
  <2>1. kept \subseteq DOMAIN all /\ c \in kept
        /\ \A x \in DOMAIN all : all[x].minute = minute => x \in kept
    BY <1>1, <1>2, <1>4
  <2>2. DOMAIN buckets' = kept /\ \A x \in kept : buckets'[x] = all[x]
    BY <1>8
  <2> HIDE DEF kept
  <2>3. QED BY <1>1, <1>2, <1>4, <1>5, <1>6, <2>1, <2>2 DEF Current
<1>9. QED BY <1>3, <1>7, <1>8

\* The rate_limit middleware lets no client through more often in a minute than the
\* highest limit in force, for any cap, any age and any limits, zero and below too.
THEOREM LimiterKeepsLimit == ASSUME GateAssumption PROVE GateSpec => []WithinLimit
<1>1. GateInit => LimiterInv
  BY LimitIsInt DEF GateInit, LimiterInv, Current, WithinLimit, AtLeast, GateAssumption
<1>2. LimiterInv /\ [GateNext]_<<memberVars, gateVars>> => LimiterInv'
  <2>1. SUFFICES ASSUME LimiterInv, [GateNext]_<<memberVars, gateVars>> PROVE LimiterInv'
    OBVIOUS
  <2>2. CASE UNCHANGED gateVars
    BY <2>1, <2>2 DEF LimiterInv, gateVars, Current, WithinLimit
  <2>3. ASSUME NEW c \in Clients, buckets' = Counted(c), UNCHANGED <<minute, policy, most>>,
               \/ passed' = passed
               \/ /\ passed' = [passed EXCEPT ![c] = @ + 1]
                  /\ Bucket(c).count <= AtLeast(1, Limit(policy))
        PROVE  LimiterInv'
    <3>1. /\ DOMAIN buckets' \subseteq Clients
          /\ \A x \in DOMAIN buckets' : buckets'[x].minute \in Nat /\ buckets'[x].minute <= minute
                                        /\ buckets'[x].count \in Nat
          /\ \A x \in Clients \ {c} : /\ Current(x)' <=> Current(x)
                                      /\ Current(x) => buckets'[x] = buckets[x]
          /\ Current(c)' /\ buckets'[c].count = Bucket(c).count
          /\ Bucket(c).count \in Nat
          /\ passed[c] < Bucket(c).count
      BY <2>1, <2>3, CountingKeeps
    <3>2. /\ passed \in [Clients -> Nat] /\ passed' \in [Clients -> Nat]
          /\ \A x \in Clients \ {c} : passed'[x] = passed[x]
          /\ passed'[c] = passed[c] \/ (passed'[c] = passed[c] + 1 /\
               Bucket(c).count <= AtLeast(1, Limit(policy)))
      BY <2>1, <2>3 DEF LimiterInv
    <3>3. Limit(policy) \in Int /\ most \in Int /\ Limit(policy) <= most
      BY <2>1, LimitIsInt DEF LimiterInv
    <3>4. WithinLimit'
      <4>1. SUFFICES ASSUME NEW x \in Clients PROVE passed'[x] <= AtLeast(1, most)
        BY <2>3 DEF WithinLimit, AtLeast
      <4>2. passed[x] <= AtLeast(1, most) /\ passed[x] \in Nat
        BY <2>1, <3>2 DEF LimiterInv, WithinLimit
      <4>3. AtLeast(1, Limit(policy)) <= AtLeast(1, most) /\
              AtLeast(1, Limit(policy)) \in Int /\ AtLeast(1, most) \in Int
        BY <3>3 DEF AtLeast
      <4>4. QED BY <3>1, <3>2, <4>2, <4>3
    <3>5. \A x \in Clients : /\ ~ Current(x)' => passed'[x] = 0
                             /\ Current(x)' => passed'[x] <= buckets'[x].count
      <4>1. SUFFICES ASSUME NEW x \in Clients
                     PROVE  /\ ~ Current(x)' => passed'[x] = 0
                            /\ Current(x)' => passed'[x] <= buckets'[x].count
        OBVIOUS
      <4>2. CASE x = c
        <5>1. passed[c] \in Nat /\ passed'[c] \in Nat
          BY <3>2
        <5>2. QED BY <3>1, <3>2, <4>2, <5>1
      <4>3. CASE x # c
        BY <2>1, <3>1, <3>2, <4>3 DEF LimiterInv
      <4>4. QED BY <4>2, <4>3
    <3>6. QED BY <2>1, <2>3, <3>1, <3>2, <3>3, <3>4, <3>5 DEF LimiterInv
  <2>4. CASE Tick
    BY <2>1, <2>4, LimitIsInt DEF Tick, LimiterInv, Current, WithinLimit, AtLeast
  <2>5. ASSUME NEW d \in Policies, ChangePolicy(d) PROVE LimiterInv'
    <3>1. Limit(d) \in Int /\ most \in Int /\ policy' = d /\ most' = AtLeast(most, Limit(d))
          /\ UNCHANGED <<minute, buckets, passed>>
      BY <2>1, <2>5, LimitIsInt DEF ChangePolicy, LimiterInv
    <3>2. Limit(policy)' = Limit(d)
      BY <3>1 DEF Limit
    <3>3. QED BY <2>1, <3>1, <3>2 DEF LimiterInv, Current, WithinLimit, AtLeast
  <2>6. QED
    BY <2>1, <2>2, <2>3, <2>4, <2>5 DEF GateNext, Decide, Admit, TooMany, Anonymous
<1>3. LimiterInv => WithinLimit
  BY DEF LimiterInv
<1>4. QED
  BY <1>1, <1>2, <1>3, PTL DEF GateSpec

-----------------------------------------------------------------------------
\* A member keeps a way in.  A revocation hits a row of the member the command is
\* for, and a member somebody revokes is on record as such; a process that rests rotates
\* nothing.
KeepOK(p) ==
    /\ job[p].pc = "append" => members[job[p].at].member = job[p].member
    /\ job[p].op = "revoke" => job[p].member \in withdrawn
    /\ job[p].pc = "idle" => job[p].op # "rotate"
KeepInv == MemberInv /\ (\A p \in Procs : KeepOK(p)) /\ KeepsAToken

\* The row of a token that is handed out.
NewRow(p) == [member |-> job[p].member, role |-> job[p].role, token |-> job[p].token]

\* What one step of a process does to the files and to its own command: a rotation
\* ends with its new row, or goes on record as interrupted.
KeepMoves(p) ==
    /\ interrupted \subseteq interrupted' /\ withdrawn \subseteq withdrawn'
    /\ \/ members' = members
       \/ job[p].pc = "add" /\ revocations' = revocations /\ members' = Append(members, NewRow(p))
    /\ \/ revocations' = revocations
       \/ /\ job[p].pc = "append" /\ members' = members
          /\ revocations' = revocations \cup {members[job[p].at].token}
    /\ job[p].op = "rotate" =>
         \/ job'[p].op = "rotate" /\ job'[p].member = job[p].member
         \/ job[p].member \in interrupted'
         \/ job[p].pc = "add" /\ revocations' = revocations /\ members' = Append(members, NewRow(p))
    /\ KeepOK(p)'

LEMMA KeepMove ==
    ASSUME MembershipAssumption, MemberTypeOK, JobsOK, NEW p \in Procs, Own(p), KeepOK(p)
    PROVE  KeepMoves(p)
<1>0. /\ job \in [Procs -> Job] /\ JobOK(job[p]) /\ job[p] \in Job
      /\ Idle.pc = "idle" /\ Idle.op = "none"
  BY DEF MemberTypeOK, JobsOK, Idle
<1>1. CASE \/ \E m \in Members, r \in Roles, t \in Tokens : BeginAdd(p, m, r, t)
           \/ \E m \in Members, t \in Tokens : BeginRotate(p, m, t)
           \/ \E m \in Members : BeginRevoke(p, m)
           \/ \E t \in Tokens : BeginAuthorize(p, t)
  <2>1. job[p].pc = "idle" /\ UNCHANGED <<members, revocations, interrupted>>
        /\ withdrawn \subseteq withdrawn'
    BY <1>1 DEF BeginAdd, BeginRotate, BeginRevoke, BeginAuthorize
  <2>2. KeepOK(p)'
    <3>1. ASSUME NEW m, NEW r, NEW t, BeginAdd(p, m, r, t)
          PROVE  job'[p].pc = "add" /\ job'[p].op = "add"
      BY <1>0, <3>1 DEF BeginAdd, Idle
    <3>2. ASSUME NEW m, NEW t, BeginRotate(p, m, t)
          PROVE  job'[p].pc = "list" /\ job'[p].op = "rotate"
      BY <1>0, <3>2 DEF BeginRotate, Idle
    <3>3. ASSUME NEW m, BeginRevoke(p, m)
          PROVE  job'[p].pc = "list" /\ job'[p].member = m /\ m \in withdrawn'
      BY <1>0, <3>3 DEF BeginRevoke, Idle
    <3>4. ASSUME NEW t, BeginAuthorize(p, t)
          PROVE  job'[p].pc = "revoked?" /\ job'[p].op = "authorize"
      BY <1>0, <3>4 DEF BeginAuthorize, Idle
    <3>5. QED BY <1>1, <3>1, <3>2, <3>3, <3>4 DEF KeepOK
  <2> QED BY <2>1, <2>2 DEF KeepMoves, KeepOK
<1>2. CASE AppendMember(p)
  <2>1. job'[p] = Idle /\ job[p].pc = "add" /\ members' = Append(members, NewRow(p))
        /\ UNCHANGED <<revocations, interrupted, withdrawn>>
    BY <1>0, <1>2 DEF AppendMember, NewRow
  <2> QED BY <1>0, <2>1 DEF KeepMoves, KeepOK
<1>3. CASE AuditFails(p)
  <2>1. job'[p] = Idle /\ job[p].pc = "append" /\ UNCHANGED <<members, withdrawn>>
        /\ revocations' = revocations \cup {members[job[p].at].token}
        /\ interrupted' = interrupted \cup {job[p].member}
    BY <1>0, <1>3 DEF AuditFails
  <2> QED BY <1>0, <2>1 DEF KeepMoves, KeepOK
<1>4. CASE Die(p)
  <2>1. job'[p] = Idle /\ UNCHANGED <<members, revocations, withdrawn>>
        /\ interrupted' = interrupted \cup {job[p].member}
    BY <1>0, <1>4 DEF Die
  <2> QED BY <1>0, <2>1 DEF KeepMoves, KeepOK
<1>5. ASSUME UNCHANGED <<members, revocations, interrupted, withdrawn>>,
             job[p].op # "rotate" /\ job'[p] = Idle
      PROVE  KeepMoves(p)
  BY <1>0, <1>5 DEF KeepMoves, KeepOK
<1>6. ASSUME UNCHANGED <<members, revocations, interrupted, withdrawn>>,
             job'[p].op = job[p].op /\ job'[p].member = job[p].member,
             job'[p].pc \notin {"append", "idle"}
      PROVE  KeepMoves(p)
  BY <1>0, <1>6 DEF KeepMoves, KeepOK
<1>7. CASE Answered(p) \/ Decide(p)
  <2>1. job[p].op # "rotate" /\ UNCHANGED <<members, revocations, interrupted, withdrawn>>
    BY <1>0, <1>7 DEF Answered, Decide, JobOK, Checking
  <2>2. job'[p] = Idle \/ job'[p] = [job[p] EXCEPT !.pc = "accepted"]
    BY <1>0, <1>7 DEF Answered, Decide
  <2>3. CASE job'[p] = [job[p] EXCEPT !.pc = "accepted"]
    <3>1. job'[p].op = job[p].op /\ job'[p].member = job[p].member /\ job'[p].pc = "accepted"
      BY <1>0, <2>3 DEF Job
    <3> QED BY <1>6, <2>1, <3>1
  <2> QED BY <1>5, <2>1, <2>2, <2>3
<1>8. CASE ListTokens(p)
  <2>1. job'[p].op = job[p].op /\ job'[p].member = job[p].member /\ job'[p].pc = "loop"
    BY <1>0, <1>8 DEF ListTokens
  <2> QED BY <1>6, <1>8, <2>1 DEF ListTokens
<1>9. CASE CheckToken(p)
  <2>1. CASE job' = [job EXCEPT ![p].at = @ + 1]
    <3>1. job'[p].op = job[p].op /\ job'[p].member = job[p].member /\ job'[p].pc = "loop"
      BY <1>0, <1>9, <2>1 DEF CheckToken
    <3> QED BY <1>6, <1>9, <3>1 DEF CheckToken
  <2>2. CASE /\ members[job[p].at].member = job[p].member
             /\ job' = [job EXCEPT ![p].pc = "append"]
    <3>1. job'[p].op = job[p].op /\ job'[p].member = job[p].member /\ job'[p].pc = "append"
          /\ job'[p].at = job[p].at
      BY <1>0, <2>2
    <3>2. UNCHANGED <<members, revocations, interrupted, withdrawn>>
      BY <1>9 DEF CheckToken
    <3> QED BY <2>2, <3>1, <3>2 DEF KeepMoves, KeepOK
  <2> QED BY <1>9, <2>1, <2>2 DEF CheckToken
<1>10. CASE AppendRevocation(p)
  <2>1. job'[p].op = job[p].op /\ job'[p].member = job[p].member /\ job'[p].pc = "loop"
    BY <1>0, <1>10 DEF AppendRevocation
  <2> QED BY <1>10, <2>1 DEF AppendRevocation, KeepMoves, KeepOK
<1>11. CASE EndLoop(p)
  <2>1. CASE job[p].op = "rotate"
    <3>1. job'[p] = [job[p] EXCEPT !.pc = "role"]
      BY <1>0, <1>11, <2>1 DEF EndLoop
    <3>2. job'[p].op = job[p].op /\ job'[p].member = job[p].member /\ job'[p].pc = "role"
      BY <1>0, <3>1 DEF Job
    <3> QED BY <1>6, <1>11, <3>2 DEF EndLoop
  <2>2. CASE job[p].op # "rotate"
    BY <1>0, <1>5, <1>11, <2>2 DEF EndLoop
  <2> QED BY <2>1, <2>2
<1>12. CASE ReadRole(p)
  <2>1. PICK r : job' = [job EXCEPT ![p].pc = "add", ![p].role = r]
    BY <1>12 DEF ReadRole
  <2>2. job'[p].op = job[p].op /\ job'[p].member = job[p].member /\ job'[p].pc = "add"
    BY <1>0, <2>1
  <2> QED BY <1>6, <1>12, <2>2 DEF ReadRole
<1>13. CASE ReadRevocations(p)
  <2>1. job'[p].op = job[p].op /\ job'[p].member = job[p].member
        /\ job'[p].pc \in {"refused", "find"}
    BY <1>0, <1>13 DEF ReadRevocations
  <2> QED BY <1>6, <1>13, <2>1 DEF ReadRevocations
<1>14. CASE FindMember(p)
  <2>1. job[p].op = "authorize" /\ UNCHANGED <<members, revocations, interrupted, withdrawn>>
    BY <1>0, <1>14 DEF FindMember, JobOK, Checking
  <2>2. \/ job' = [job EXCEPT ![p].pc = "refused"]
        \/ \E m, r : job' = [job EXCEPT ![p].pc = "authorized", ![p].member = m, ![p].role = r]
    BY <1>14 DEF FindMember
  <2>3. job'[p].op = "authorize" /\ job'[p].pc \in {"refused", "authorized"}
    <3>1. CASE job' = [job EXCEPT ![p].pc = "refused"]
      BY <1>0, <2>1, <3>1
    <3>2. ASSUME NEW m, NEW r,
                 job' = [job EXCEPT ![p].pc = "authorized", ![p].member = m, ![p].role = r]
          PROVE  job'[p].op = "authorize" /\ job'[p].pc = "authorized"
      BY <1>0, <2>1, <3>2
    <3> QED BY <2>2, <3>1, <3>2
  <2> QED BY <2>1, <2>3 DEF KeepMoves, KeepOK
<1> QED
  BY <1>1, <1>2, <1>3, <1>4, <1>7, <1>8, <1>9, <1>10, <1>11, <1>12, <1>13, <1>14
  DEF Own, Manage, Check

\* A token that is handed out and is nobody else's has not been revoked.
LEMMA NewTokenIsValid ==
    ASSUME MemberTypeOK, RevokedHadRow, NEW row \in Row, members' = Append(members, row),
           revocations' = revocations,
           ~ \E i, j \in DOMAIN members' : i # j /\ members'[i].token = members'[j].token
    PROVE  \E i \in DOMAIN members' : members'[i] = row /\ Valid(members[i].token)'
<1>1. members \in Seq(Row) /\ Len(members) \in Nat
  BY DEF MemberTypeOK
<1>n. PICK n : n = Len(members) + 1
  OBVIOUS
<1>2. DOMAIN members' = 1 .. n /\ members'[n] = row /\ DOMAIN members = 1 .. Len(members)
      /\ \A i \in DOMAIN members : members'[i] = members[i]
  BY <1>1, <1>n
<1>3. row.token \notin revocations
  <2>1. SUFFICES ASSUME row.token \in revocations PROVE FALSE
    OBVIOUS
  <2>2. PICK i \in DOMAIN members : members[i].token = row.token
    BY <2>1 DEF RevokedHadRow, HasRow
  <2>3. i \in DOMAIN members' /\ n \in DOMAIN members' /\ i # n /\ members'[i].token = members'[n].token
    BY <1>1, <1>2, <1>n, <2>2
  <2> QED BY <2>3
<1>4. n \in DOMAIN members' /\ members'[n].token \notin revocations'
  BY <1>1, <1>2, <1>3, <1>n
<1>5. Valid(members[n].token)'
  BY <1>4 DEF Valid, HasRow
<1> QED BY <1>2, <1>4, <1>5

\* A member that had a way in before a step of a process still has one.
LEMMA KeepStep ==
    ASSUME MembershipAssumption, KeepInv, NEW p \in Procs, Own(p), KeepMoves(p), Steps(p)
    PROVE  KeepsAToken'
<1>0. MemberTypeOK /\ JobOK(job[p]) /\ KeepOK(p) /\ RevokedHadRow
  BY DEF KeepInv, MemberInv, JobsOK
<1>1. SUFFICES ASSUME NEW m \in Members,
                      m \notin interrupted' /\ m \notin withdrawn',
                      IsMember(m)',
                      ~ \E q \in Procs : job'[q].op = "rotate" /\ job'[q].member = m,
                      ~ \E i, j \in DOMAIN members' : i # j /\ members'[i].token = members'[j].token
               PROVE  \E i \in DOMAIN members' : members'[i].member = m /\ Valid(members[i].token)'
  BY DEF KeepsAToken
<1>2. m \notin interrupted /\ m \notin withdrawn
  BY <1>1 DEF KeepMoves
<1>3. /\ DOMAIN members \subseteq DOMAIN members'
      /\ \A i \in DOMAIN members : members'[i] = members[i]
  BY <1>0, RowsStay, SMTT(30) DEF Steps, MemberTypeOK
<1>4. ~ \E i, j \in DOMAIN members : i # j /\ members[i].token = members[j].token
  BY <1>1, <1>3
<1>5. ASSUME job[p].pc = "add", job[p].member = m, revocations' = revocations,
             members' = Append(members, NewRow(p))
      PROVE  \E i \in DOMAIN members' : members'[i].member = m /\ Valid(members[i].token)'
  <2>1. NewRow(p) \in Row /\ NewRow(p).member = m
    BY <1>0, <1>5 DEF JobOK, NewRow, Row
  <2>2. PICK i \in DOMAIN members' : members'[i] = NewRow(p) /\ Valid(members[i].token)'
    BY <1>0, <1>1, <1>5, <2>1, NewTokenIsValid
  <2> QED BY <2>1, <2>2
<1>6. CASE job[p].op = "rotate" /\ job[p].member = m
  BY <1>1, <1>5, <1>6 DEF KeepMoves
<1>7. CASE ~ (job[p].op = "rotate" /\ job[p].member = m) /\ IsMember(m)
  <2>1. ~ \E q \in Procs : job[q].op = "rotate" /\ job[q].member = m
    BY <1>1, <1>7 DEF Steps
  <2>2. PICK i \in DOMAIN members : members[i].member = m /\ Valid(members[i].token)
    BY <1>2, <1>4, <1>7, <2>1 DEF KeepInv, KeepsAToken
  <2>3. members[i].token \notin revocations'
    <3>1. CASE revocations' = revocations
      BY <2>2, <3>1 DEF Valid
    <3>2. CASE job[p].pc = "append" /\ revocations' = revocations \cup {members[job[p].at].token}
      <4>1. job[p].at \in DOMAIN members
        BY <1>0, <3>2 DEF JobOK, MemberTypeOK, Job, MembershipAssumption
      <4>2. job[p].op \in {"revoke", "rotate"} /\ members[job[p].at].member = job[p].member
        BY <1>0, <3>2 DEF JobOK, KeepOK
      <4>3. job[p].member # m
        BY <1>0, <1>2, <1>7, <4>2 DEF KeepOK
      <4>4. job[p].at # i
        BY <2>2, <4>2, <4>3
      <4>5. members[job[p].at].token # members[i].token
        BY <1>4, <2>2, <4>1, <4>4
      <4> QED BY <2>2, <3>2, <4>5 DEF Valid
    <3> QED BY <3>1, <3>2 DEF KeepMoves
  <2>4. i \in DOMAIN members' /\ members'[i] = members[i]
    BY <1>3
  <2>5. Valid(members[i].token)'
    BY <2>3, <2>4 DEF Valid, HasRow
  <2> QED BY <2>2, <2>4, <2>5
<1>8. CASE ~ IsMember(m)
  <2>1. PICK k \in DOMAIN members' : members'[k].member = m
    BY <1>1 DEF IsMember
  <2>2. k \notin DOMAIN members
    BY <1>3, <1>8, <2>1 DEF IsMember
  <2>3. members' # members
    BY <2>1, <2>2
  <2>4. job[p].pc = "add" /\ revocations' = revocations /\ members' = Append(members, NewRow(p))
    BY <2>3 DEF KeepMoves
  <2>5. members'[k] = NewRow(p)
    BY <1>0, <2>1, <2>2, <2>4 DEF MemberTypeOK
  <2>6. job[p].member = m
    BY <2>1, <2>5 DEF NewRow
  <2> QED BY <1>5, <2>4, <2>6
<1> QED BY <1>6, <1>7, <1>8

\* Rotations alone, any number of them at once, never lock a member out: for any
\* number of processes, members and tokens, KeepsAToken holds throughout.
THEOREM MembersKeepAToken == ASSUME MembershipAssumption PROVE GateSpec => []KeepsAToken
<1>1. GateInit => KeepInv
  <2>1. SUFFICES ASSUME GateInit PROVE KeepInv
    OBVIOUS
  <2>2. MemberInv /\ members = <<>> /\ \A p \in Procs : job[p].pc = "idle" /\ job[p].op = "none"
    BY <2>1, MemberInvInit DEF GateInit, Init, Idle
  <2> QED BY <2>2 DEF KeepInv, KeepOK, KeepsAToken, IsMember
<1>2. KeepInv /\ [GateNext]_<<memberVars, gateVars>> => KeepInv'
  <2>1. SUFFICES ASSUME KeepInv, [GateNext]_<<memberVars, gateVars>> PROVE KeepInv'
    OBVIOUS
  <2>2. ASSUME Still, MemberInv' PROVE KeepInv'
    BY <2>1, <2>2 DEF Still, KeepInv, KeepOK, KeepsAToken, IsMember, Valid, HasRow
  <2>3. CASE UNCHANGED <<memberVars, gateVars>>
    <3>1. Still
      BY <2>3 DEF Still, memberVars
    <3>2. MemberInv'
      BY <2>1, <2>3 DEF KeepInv, memberVars, MemberInv, MemberTypeOK, JobsOK, JobOK,
            ListedAreRevoked, RevokedHadRow, CheckOK, HasRow
    <3> QED BY <2>2, <3>1, <3>2
  <2>4. CASE ~ UNCHANGED <<memberVars, gateVars>>
    <3>1. MemberNext /\ Watch /\ MemberInv'
      BY <2>1, <2>4, GateIsMember, MemberInvStep DEF KeepInv
    <3>2. ASSUME NEW p \in Procs, Own(p) PROVE KeepInv'
      <4>1. Steps(p) /\ KeepMoves(p)
        BY <2>1, <3>2, OwnStep, KeepMove DEF KeepInv, MemberInv
      <4>2. KeepsAToken'
        BY <2>1, <3>2, <4>1, KeepStep
      <4>3. ASSUME NEW q \in Procs PROVE KeepOK(q)'
        <5>1. CASE q = p
          BY <4>1, <5>1 DEF KeepMoves
        <5>2. CASE q # p
          <6>1. job'[q] = job[q] /\ KeepOK(q) /\ JobOK(job[q]) /\ job[q] \in Job
                /\ withdrawn \subseteq withdrawn'
            BY <2>1, <4>1, <5>2 DEF Steps, KeepMoves, KeepInv, MemberInv, JobsOK, MemberTypeOK
          <6>2. \A i \in 1 .. Len(members) : members'[i] = members[i]
            BY <2>1, <4>1, RowsStay DEF KeepInv, MemberInv, Steps
          <6>3. job[q].pc = "append" => job[q].at \in 1 .. Len(members)
            BY <2>1, <6>1 DEF JobOK, Job, KeepInv, MemberInv, MemberTypeOK, MembershipAssumption
          <6> QED BY <6>1, <6>2, <6>3 DEF KeepOK
        <5> QED BY <5>1, <5>2
      <4> QED BY <3>1, <4>2, <4>3 DEF KeepInv
    <3> QED BY <2>2, <3>1, <3>2 DEF MemberNext
  <2> QED BY <2>3, <2>4
<1>3. KeepInv => KeepsAToken
  BY DEF KeepInv
<1> QED BY <1>1, <1>2, <1>3, PTL DEF GateSpec
=============================================================================
