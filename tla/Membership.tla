----------------------------- MODULE Membership -----------------------------
(***************************************************************************)
(* Members of a village and their bearer tokens (links/villages.py).  Two  *)
(* append-only files hold them: members.jsonl, one row per token handed    *)
(* out, and revocations.jsonl, one row per token hash withdrawn.  Nothing  *)
(* is ever edited: the is_revoked field of a member row stays False, and a *)
(* revocation overrides every row of its token.  Appends are made under a  *)
(* file lock; reads take no lock, and a command or a check reads the files *)
(* several times.  Each read and each append is one step.                  *)
(***************************************************************************)
EXTENDS Integers, Sequences

CONSTANTS
    Procs,        \* commands and request threads
    Members, Tokens, Roles,
    DefaultRole,  \* the role "member" of rotate_member_token
    NoOne,        \* a field that is not set
    MaxRows       \* BOUND on the rows of members.jsonl

ASSUME MembershipAssumption ==
    /\ DefaultRole \in Roles
    /\ NoOne \notin Members \cup Tokens \cup Roles
    /\ MaxRows \in Nat

VARIABLES
    members,      \* members.jsonl, as a sequence of rows
    revocations,  \* the token hashes of revocations.jsonl
    job,          \* what each process is doing
    seen,         \* history: whether the token was valid, over the check so far
    interrupted,  \* history: members one of whose rotations did not end normally
    withdrawn     \* history: members somebody asked to revoke

memberVars == <<members, revocations, job, seen, interrupted, withdrawn>>

Row == [member : Members, role : Roles, token : Tokens]
Job == [op     : {"none", "add", "revoke", "rotate", "authorize"},
        pc     : {"idle", "list", "loop", "append", "role", "add",
                  "revoked?", "find", "authorized", "accepted", "refused"},
        member : Members \cup {NoOne},
        role   : Roles \cup {NoOne},
        token  : Tokens \cup {NoOne},
        listed : 0 .. MaxRows, \* how many rows there were when the file was read
        at     : 1 .. MaxRows + 1] \* the row the loop is at
Idle == [op |-> "none", pc |-> "idle", member |-> NoOne, role |-> NoOne,
         token |-> NoOne, listed |-> 0, at |-> 1]

IsMember(m) == \E i \in DOMAIN members : members[i].member = m
NewestOf(i, m) == /\ members[i].member = m
                  /\ \A j \in i + 1 .. Len(members) : members[j].member # m
HasRow(t) == \E i \in DOMAIN members : members[i].token = t
Valid(t) == HasRow(t) /\ t \notin revocations
ValidTokens == {t \in Tokens : Valid(t)}

-----------------------------------------------------------------------------
(* add_member.  The caller gives the role and the token; the village is     *)
(* there.  What follows the append, an audit entry, changes neither file.   *)

BeginAdd(p, m, r, t) ==
    /\ job[p].pc = "idle"
    /\ job' = [job EXCEPT ![p] = [Idle EXCEPT !.op = "add", !.pc = "add",
                                     !.member = m, !.role = r, !.token = t]]
    /\ UNCHANGED <<members, revocations, interrupted, withdrawn>>

\* Mutant of AppendMember: a member that is there already is not added again.
AppendMember_Once(p) ==
    /\ job[p].pc = "add"
    /\ Len(members) < MaxRows
    /\ members' = IF IsMember(job[p].member) THEN members
                  ELSE Append(members, [member |-> job[p].member, role |-> job[p].role,
                                        token |-> job[p].token])
    /\ job' = [job EXCEPT ![p] = Idle]
    /\ UNCHANGED <<revocations, interrupted, withdrawn>>

AppendMember(p) ==
    /\ job[p].pc = "add"
    /\ Len(members) < MaxRows
    /\ members' = Append(members, [member |-> job[p].member, role |-> job[p].role,
                                   token |-> job[p].token])
    /\ job' = [job EXCEPT ![p] = Idle]
    /\ UNCHANGED <<revocations, interrupted, withdrawn>>

-----------------------------------------------------------------------------
(* revoke_member, and rotate_member_token which begins with it.             *)

BeginRevoke(p, m) ==
    /\ job[p].pc = "idle"
    /\ job' = [job EXCEPT ![p] = [Idle EXCEPT !.op = "revoke", !.pc = "list", !.member = m]]
    /\ withdrawn' = withdrawn \cup {m}
    /\ UNCHANGED <<members, revocations, interrupted>>

BeginRotate(p, m, t) ==
    /\ job[p].pc = "idle"
    /\ job' = [job EXCEPT ![p] = [Idle EXCEPT !.op = "rotate", !.pc = "list",
                                     !.member = m, !.token = t]]
    /\ UNCHANGED <<members, revocations, interrupted, withdrawn>>

\* Mutant of ListTokens: the loop looks at the newest row only.
ListTokens_Newest(p) ==
    /\ job[p].pc = "list"
    /\ job' = [job EXCEPT ![p].pc = "loop", ![p].listed = Len(members),
                          ![p].at = IF members = <<>> THEN 1 ELSE Len(members)]
    /\ UNCHANGED <<members, revocations, interrupted, withdrawn>>

\* The file is read once.  Rows are only ever appended, so the list the loop works
\* on is the rows up to the last one there was.
ListTokens(p) ==
    /\ job[p].pc = "list"
    /\ job' = [job EXCEPT ![p].pc = "loop", ![p].listed = Len(members)]
    /\ UNCHANGED <<members, revocations, interrupted, withdrawn>>

\* Rows of other members, and tokens that are revoked already, are passed over.
CheckToken(p) ==
    /\ job[p].pc = "loop"
    /\ job[p].at <= job[p].listed
    /\ LET row == members[job[p].at]
       IN  \/ /\ row.member # job[p].member \/ row.token \in revocations
              /\ job' = [job EXCEPT ![p].at = @ + 1]
           \/ /\ row.member = job[p].member /\ row.token \notin revocations
              /\ job' = [job EXCEPT ![p].pc = "append"]
    /\ UNCHANGED <<members, revocations, interrupted, withdrawn>>

AppendRevocation(p) ==
    /\ job[p].pc = "append"
    /\ revocations' = revocations \cup {members[job[p].at].token}
    /\ job' = [job EXCEPT ![p].pc = "loop", ![p].at = @ + 1]
    /\ UNCHANGED <<members, interrupted, withdrawn>>

\* The row is written, then write_audit raises and ends the whole command.
AuditFails(p) ==
    /\ job[p].pc = "append"
    /\ revocations' = revocations \cup {members[job[p].at].token}
    /\ interrupted' = interrupted \cup {job[p].member}
    /\ job' = [job EXCEPT ![p] = Idle]
    /\ UNCHANGED <<members, withdrawn>>

EndLoop(p) ==
    /\ job[p].pc = "loop"
    /\ job[p].at > job[p].listed
    /\ job' = [job EXCEPT ![p] = IF @.op = "rotate" THEN [@ EXCEPT !.pc = "role"] ELSE Idle]
    /\ UNCHANGED <<members, revocations, interrupted, withdrawn>>

\* The role of the member's newest row, of whatever is there by now.
ReadRole(p) ==
    /\ job[p].pc = "role"
    /\ \/ /\ ~ IsMember(job[p].member)
          /\ job' = [job EXCEPT ![p].pc = "add", ![p].role = DefaultRole]
       \/ \E i \in DOMAIN members :
             /\ NewestOf(i, job[p].member)
             /\ job' = [job EXCEPT ![p].pc = "add", ![p].role = members[i].role]
    /\ UNCHANGED <<members, revocations, interrupted, withdrawn>>

-----------------------------------------------------------------------------
(* authorize: revocations first, then the members.                          *)

BeginAuthorize(p, t) ==
    /\ job[p].pc = "idle"
    /\ job' = [job EXCEPT ![p] = [Idle EXCEPT !.op = "authorize", !.pc = "revoked?",
                                     !.token = t]]
    /\ UNCHANGED <<members, revocations, interrupted, withdrawn>>

\* Mutant of ReadRevocations: trusts the is_revoked field of the member rows,
\* which no command ever sets.
ReadRevocations_Field(p) ==
    /\ job[p].pc = "revoked?"
    /\ job' = [job EXCEPT ![p].pc = "find"]
    /\ UNCHANGED <<members, revocations, interrupted, withdrawn>>

ReadRevocations(p) ==
    /\ job[p].pc = "revoked?"
    /\ job' = [job EXCEPT ![p].pc = IF job[p].token \in revocations THEN "refused" ELSE "find"]
    /\ UNCHANGED <<members, revocations, interrupted, withdrawn>>

\* The first row of the token gives the member and the role.
FindMember(p) ==
    /\ job[p].pc = "find"
    /\ \/ /\ ~ HasRow(job[p].token)
          /\ job' = [job EXCEPT ![p].pc = "refused"]
       \/ \E i \in DOMAIN members :
             /\ members[i].token = job[p].token
             /\ \A j \in 1 .. i - 1 : members[j].token # job[p].token
             /\ job' = [job EXCEPT ![p].pc = "authorized", ![p].member = members[i].member,
                                   ![p].role = members[i].role]
    /\ UNCHANGED <<members, revocations, interrupted, withdrawn>>

\* The answer has been given and the process turns to something else.
Answered(p) ==
    /\ job[p].pc \in {"authorized", "accepted", "refused"}
    /\ job' = [job EXCEPT ![p] = Idle]
    /\ UNCHANGED <<members, revocations, interrupted, withdrawn>>

\* A process dies before its next step.
Die(p) ==
    /\ job[p].op \in {"revoke", "rotate"}
    /\ interrupted' = interrupted \cup {job[p].member}
    /\ job' = [job EXCEPT ![p] = Idle]
    /\ UNCHANGED <<members, revocations, withdrawn>>

-----------------------------------------------------------------------------
(* The specification.  Watch keeps the history of a check: a process that is *)
(* checking a token remembers whether it was valid, from the first moment.   *)

Checking == {"revoked?", "find", "authorized", "accepted", "refused"}

Watch ==
    seen' = [p \in Procs |->
               IF job'[p].pc \in Checking
               THEN (IF job[p].pc \in Checking THEN seen[p] ELSE {}) \cup {job'[p].token \in ValidTokens'}
               ELSE {}]

Init ==
    /\ members = <<>>
    /\ revocations = {}
    /\ job = [p \in Procs |-> Idle]
    /\ seen = [p \in Procs |-> {}]
    /\ interrupted = {}
    /\ withdrawn = {}

\* The commands over the two files, whoever calls them.
Manage(p) ==
    \/ \E m \in Members, t \in Tokens : (\E r \in Roles : BeginAdd(p, m, r, t)) \/ BeginRotate(p, m, t)
    \/ \E m \in Members : BeginRevoke(p, m)
    \/ AppendMember(p)
    \/ ListTokens(p)
    \/ CheckToken(p)
    \/ AppendRevocation(p)
    \/ AuditFails(p)
    \/ EndLoop(p)
    \/ ReadRole(p)
    \/ Die(p)

\* The steps of a check that has begun.
Check(p) == ReadRevocations(p) \/ FindMember(p) \/ Answered(p)

-----------------------------------------------------------------------------
(* Properties *)

\* Types of the files, of the processes and of the histories.
MemberTypeOK ==
    /\ members \in Seq(Row) /\ Len(members) <= MaxRows
    /\ revocations \subseteq Tokens
    /\ job \in [Procs -> Job]
    /\ seen \in [Procs -> SUBSET BOOLEAN]
    /\ interrupted \subseteq Members
    /\ withdrawn \subseteq Members

\* authorize reads the two files one after the other while commands append to
\* both, and yet its answer is always one it could have given at one moment of
\* the check: a token that is let in was valid at some moment, a token that is
\* refused was not.  In particular a token revoked before a check began is refused.
AnswerWasTrue ==
    \A p \in Procs : /\ job[p].pc \in {"authorized", "accepted"} => TRUE \in seen[p]
                     /\ job[p].pc = "refused" => FALSE \in seen[p]

\* revoke_member, and the rotation that begins with it, leave no token behind: each
\* row the loop is past is revoked, so that at its end every token the member had
\* when the file was read is, whoever else was adding, rotating or revoking.  A token
\* that it misses was handed out later.
ListedAreRevoked ==
    \A p \in Procs :
        job[p].op \in {"revoke", "rotate"} =>
            \A i \in 1 .. job[p].at - 1 :
                members[i].member = job[p].member => members[i].token \in revocations

\* A member keeps a way in: rotations alone, any number of them at the same time,
\* never leave a member without a valid token, once they are through.  It takes a
\* rotation that died or whose audit failed between its revocations and its
\* addition, a revocation, or a token handed out twice.
KeepsAToken ==
    \A m \in Members :
        \/ m \in interrupted \cup withdrawn
        \/ ~ IsMember(m)
        \/ \E p \in Procs : job[p].op = "rotate" /\ job[p].member = m
        \/ \E i, j \in DOMAIN members : i # j /\ members[i].token = members[j].token
        \/ \E i \in DOMAIN members : members[i].member = m /\ Valid(members[i].token)
=============================================================================
