----------------------------- MODULE VillageStore -----------------------------
(***************************************************************************)
(* One village of a PolicyMesh node: the document village.json, the trails *)
(* that record what was applied to it, and the processes that change it.   *)
(*                                                                         *)
(* links/villages.py keeps the active policy inside village.json.  Several *)
(* processes change that file without a lock: threads of the HTTP server   *)
(* (POST /villages/{id}/policy) and operator commands (policy pull, policy *)
(* rollback, compiled-norm apply, issuer allow/block, registry import).    *)
(* Every one of them loads the document, computes a new one and saves it   *)
(* through the one staging file village.json.tmp, then writes the trails   *)
(* it owes one after another: policy_history.jsonl, the audit log, the     *)
(* transparency log and, with the SQLite backend, the same facts in        *)
(* tables.  A process may die between any two of these writes, and each of  *)
(* them may fail.                                                          *)
(*                                                                         *)
(* The file system is modelled as far as the code relies on it: open with  *)
(* truncation and write are two steps, rename moves the inode, and a       *)
(* process that still holds the renamed inode open writes into the live    *)
(* document.                                                               *)
(***************************************************************************)
EXTENDS Integers, Sequences, FiniteSets

CONSTANTS
  Proc,      \* server threads and operator commands that may run at one time
  Body,      \* what a policy says, apart from its issuer lists
  Issuer,    \* issuer key hashes an operator may allow or block
  Update,    \* policy artifacts that may be submitted
  Elsewhere, \* those that name another village, which this node does not have
  PolicyOf,  \* VillagePolicy.model_validate of u.policy, or NoPolicy if it raises
  Accepts,   \* [Body \cup {NoPolicy} -> SUBSET Update]: signer_allowed
  Managed,   \* bodies under which the caller's role can manage the village
  Genesis,   \* the policy the village was created with
  NoPolicy, NoArg,         \* "there is no policy", "the request has no argument"
  Absent, Empty, Mixed,    \* a file that is not there, is empty, is not valid JSON
  NodeKey, Sqlite,         \* is a node signing key / the SQLite backend configured
  MaxRequests, MaxFaults   \* bounds: requests started, requests that meet a fault

Policy == [body: Body, allow: SUBSET Issuer, block: SUBSET Issuer]

ASSUME ConstantsAssumption ==
  /\ Elsewhere \subseteq Update
  /\ PolicyOf \in [Update -> Policy \cup {NoPolicy}]
  /\ Accepts \in [Body \cup {NoPolicy} -> SUBSET Update]
  /\ Managed \subseteq Body
  /\ Genesis \in Policy
  /\ {NodeKey, Sqlite} \subseteq BOOLEAN
  /\ {MaxRequests, MaxFaults} \subseteq Nat

\* The markers for "no document" are not documents, and differ.
ASSUME MarkersAssumption ==
  /\ {Absent, Empty, Mixed, NoPolicy} \cap Policy = {}
  /\ Absent # Empty /\ Absent # Mixed /\ Empty # Mixed
  /\ NoPolicy \notin Body
  /\ NoArg \notin Update \cup Issuer

VARIABLES
  village,      \* content of village.json
  staged,       \* content of village.json.tmp
  handle,       \* handle[p]: the inode p's open handle on the staging file is now
  pc,           \* pc[p]: the next step of p's handler
  job,          \* job[p]: the request p serves and the policy it is installing
  request,      \* every request started, in order (its index is its identity)
  feed,         \* update artifacts published under policy_updates/
  receipts,     \* imports whose receipt says "apply"
  history,      \* policy_history.jsonl
  audit,        \* audit.log.jsonl
  log,          \* the transparency log
  dbPolicy,     \* table policy_state: the row of this village
  dbHistory,    \* table policy_history
  dbAudit,      \* table audit_log
  dbLog,        \* table transparency_log
  installed,    \* observer: every rename onto village.json, in order
  interrupted,  \* observer: requests that met a crash or a failed trail write
  overlapped,   \* observer: two requests have been in progress at the same time
  raced         \* observer: two load-to-save windows have overlapped

files    == <<village, staged, handle>>
trails   == <<history, audit, log>>
tables   == <<dbPolicy, dbHistory, dbAudit, dbLog>>
observed == <<installed, interrupted, overlapped, raced>>
vars == <<files, pc, job, request, feed, receipts, trails, tables, observed>>

-----------------------------------------------------------------------------
(* Requests and their handlers *)

\* Requests that end in apply_policy_update, and so owe the trails a row.
ApplyKind  == {"post", "pull", "compiled", "rollback"}
IssuerKind == {"allow", "block"}
Kind == ApplyKind \cup IssuerKind \cup {"import"}

\* The handler is between load_village and the rename of the staging file.
Window == {"open", "write", "replace"}
Step == Window \cup {"idle", "publish", "republish", "load", "history", "audit",
                     "auditdb", "log", "logdb", "ledger"}

\* A caller that has loaded a document works on a policy, or on nothing.
Known == Policy \cup {NoPolicy}
Request == [kind: Kind, arg: Update \cup Issuer \cup {NoArg}, seen: Known]
Row == [op: Nat, policy: Policy]

\* add_issuer_allow and add_issuer_block, as changes of the loaded policy.
Allowing(pol, i) == [pol EXCEPT !.allow = @ \cup {i}, !.block = @ \ {i}]
Blocking(pol, i) == [pol EXCEPT !.block = @ \cup {i}]

\* The document a handler saves, computed from the one it loaded.  An update
\* replaces the policy whole; an issuer command edits the loaded policy.
Edited(r, target, loaded) ==
  CASE r.kind = "allow" -> Allowing(loaded, r.arg)
    [] r.kind = "block" -> Blocking(loaded, r.arg)
    [] OTHER            -> target

Kindof(op) == request[op].kind
Busy(p)    == pc[p] # "idle"
Readable   == village \in Policy

Idle == [op |-> 0, policy |-> NoPolicy, base |-> NoPolicy]

Init ==
  /\ village = Genesis
  /\ staged = Absent
  /\ handle = [p \in Proc |-> "closed"]
  /\ pc = [p \in Proc |-> "idle"]
  /\ job = [p \in Proc |-> Idle]
  /\ request = <<>>
  /\ feed = {}
  /\ receipts = {}
  /\ history = <<>> /\ audit = <<>> /\ log = <<>>
  /\ dbPolicy = NoPolicy
  /\ dbHistory = <<>> /\ dbAudit = {} /\ dbLog = {}
  /\ installed = <<>>
  /\ interrupted = {}
  /\ overlapped = FALSE
  /\ raced = FALSE

-----------------------------------------------------------------------------
(* Start of a request: what the handler checks before it changes anything *)

\* p starts a request whose next step is at; target is the policy it is to
\* install and seen the policy it was checked under.
Begin(p, kind, arg, seen, target, at) ==
  /\ pc[p] = "idle"
  /\ Len(request) < MaxRequests
  /\ request' = Append(request, [kind |-> kind, arg |-> arg, seen |-> seen])
  /\ job' = [job EXCEPT ![p] = [op |-> Len(request) + 1, policy |-> target,
                                base |-> NoPolicy]]
  /\ pc' = [pc EXCEPT ![p] = at]
  /\ overlapped' = (overlapped \/ \E q \in Proc \ {p} : Busy(q))
  /\ UNCHANGED <<files, feed, trails, tables, installed, interrupted, raced>>

\* Mutant of Post: the signatures are not checked.
Post_Unsigned(p, u) ==
  /\ Readable /\ village.body \in Managed
  /\ Begin(p, "post", u, village, PolicyOf[u], "publish")
  /\ UNCHANGED receipts

\* POST /villages/{id}/policy: the caller's role and the update's signatures
\* are checked against the policy loaded now; apply_policy_update loads again.
Post(p, u) ==
  /\ Readable
  /\ village.body \in Managed
  /\ u \in Accepts[village.body]
  /\ Begin(p, "post", u, village, PolicyOf[u], "publish")
  /\ UNCHANGED receipts

\* Mutant of Pull: the update is always evaluated under the empty policy.
Pull_NoPolicy(p, u) ==
  /\ u \in Accepts[NoPolicy]
  /\ Begin(p, "pull", u, NoPolicy, PolicyOf[u], "load")
  /\ UNCHANGED receipts

\* links policy pull: a document that cannot be loaded counts as the empty
\* policy, under which signatures are optional.
Pull(p, u) ==
  /\ LET seen == IF Readable THEN village ELSE NoPolicy
         body == IF Readable THEN village.body ELSE NoPolicy
     IN  /\ u \in Accepts[body]
         /\ Begin(p, "pull", u, seen, PolicyOf[u], "load")
  /\ UNCHANGED receipts

\* apply_compiled_policy: no signature or role is checked.
Compiled(p, u) ==
  /\ Begin(p, "compiled", u, NoPolicy, PolicyOf[u], "load")
  /\ UNCHANGED receipts

\* links policy rollback: the document must load, and the target must be the
\* policy of some row of policy_history.jsonl.
Rollback(p) ==
  /\ Readable
  /\ \E i \in 1..Len(history) :
       Begin(p, "rollback", NoArg, NoPolicy, history[i].policy, "load")
  /\ UNCHANGED receipts

AllowIssuer(p, i) ==
  /\ Begin(p, "allow", i, NoPolicy, NoPolicy, "load")
  /\ UNCHANGED receipts

BlockIssuer(p, i) ==
  /\ Begin(p, "block", i, NoPolicy, NoPolicy, "load")
  /\ UNCHANGED receipts

\* links registry import --decision apply: the receipt is written before the
\* policy is validated and the village looked for.
Import(p, u) ==
  /\ Begin(p, "import", u, NoPolicy, PolicyOf[u], "load")
  /\ receipts' = receipts \cup {Len(request) + 1}

-----------------------------------------------------------------------------
(* store_policy_update: the artifact's file is truncated, then written.  A   *)
(* file that cannot be parsed is skipped by readers of the feed.  The feed   *)
(* is that of the village the artifact names, whatever the request's path.   *)

Goto(p, at) == pc' = [pc EXCEPT ![p] = at]

\* What p's artifact is in this village's feed: itself, or nothing.
Filed(p) == {request[job[p].op].arg} \ Elsewhere

OpenArtifact(p) ==
  /\ pc[p] = "publish"
  /\ feed' = feed \ Filed(p)
  /\ Goto(p, "republish")
  /\ UNCHANGED <<files, job, request, receipts, trails, tables, observed>>

WriteArtifact(p) ==
  /\ pc[p] = "republish"
  /\ feed' = feed \cup Filed(p)
  /\ Goto(p, "load")
  /\ UNCHANGED <<files, job, request, receipts, trails, tables, observed>>

-----------------------------------------------------------------------------
(* load_village ... save_village *)

\* p's policy is one of this village: it passes validation, and what a registry
\* or a norm set gave names the village itself.
Applicable(p) ==
  LET r == request[job[p].op]
  IN  \/ r.kind \in IssuerKind
      \/ /\ job[p].policy \in Policy
         /\ r.kind \in {"import", "compiled"} => r.arg \notin Elsewhere

\* Mutant of Load: an issuer command edits the founding policy.
Load_Genesis(p) ==
  /\ pc[p] = "load" /\ Readable /\ Applicable(p)
  /\ LET op == job[p].op
     IN  job' = [job EXCEPT ![p] =
                  [op |-> op, base |-> village,
                   policy |-> Edited(request[op], job[p].policy, Genesis)]]
  /\ raced' = (raced \/ \E q \in Proc \ {p} : pc[q] \in Window)
  /\ Goto(p, "open")
  /\ UNCHANGED <<files, request, feed, receipts, trails, tables,
                 installed, interrupted, overlapped>>

Load(p) ==
  /\ pc[p] = "load"
  /\ Readable /\ Applicable(p)
  /\ LET op == job[p].op
     IN  job' = [job EXCEPT ![p] =
                  [op |-> op, base |-> village,
                   policy |-> Edited(request[op], job[p].policy, village)]]
  /\ raced' = (raced \/ \E q \in Proc \ {p} : pc[q] \in Window)
  /\ Goto(p, "open")
  /\ UNCHANGED <<files, request, feed, receipts, trails, tables,
                 installed, interrupted, overlapped>>

\* Mutant of LoadFails: the handler may give up whatever it finds.
LoadFails_Anyway(p) ==
  /\ pc[p] = "load" /\ Goto(p, "idle")
  /\ UNCHANGED <<files, job, request, feed, receipts, trails, tables, observed>>

\* The document does not parse or is not there, or the policy is not valid: the
\* exception ends the handler (an import reports that it was refused).
LoadFails(p) ==
  /\ pc[p] = "load"
  /\ ~Readable \/ ~Applicable(p)
  /\ Goto(p, "idle")
  /\ UNCHANGED <<files, job, request, feed, receipts, trails, tables, observed>>

\* Mutant of OpenStaged: the document is rewritten in place.
OpenStaged_InPlace(p) ==
  /\ pc[p] = "open"
  /\ village' = Empty
  /\ handle' = [handle EXCEPT ![p] = "village"]
  /\ Goto(p, "write")
  /\ UNCHANGED <<staged, job, request, feed, receipts, trails, tables, observed>>

\* tmp.write_text opens the staging file with truncation ...
OpenStaged(p) ==
  /\ pc[p] = "open"
  /\ staged' = Empty
  /\ handle' = [handle EXCEPT ![p] = "staged"]
  /\ Goto(p, "write")
  /\ UNCHANGED <<village, job, request, feed, receipts, trails, tables, observed>>

\* What an inode may hold after a document is written over its content from
\* the start: the tail of a longer document stays behind.
Overwritten(old, doc) == IF old \in {Empty, doc} THEN {doc} ELSE {doc, Mixed}

\* p's handle is still the staging file, or the inode that a rename has made
\* the live document, or one that a later rename has unlinked.
Held(p) == IF handle[p] = "village" THEN village ELSE staged
Fill(p, docs) ==
  /\ village' \in IF handle[p] = "village" THEN docs ELSE {village}
  /\ staged'  \in IF handle[p] = "staged"  THEN docs ELSE {staged}

\* ... and writes the whole document when the handle is closed.
WriteStaged(p) ==
  /\ pc[p] = "write"
  /\ Fill(p, Overwritten(Held(p), job[p].policy))
  /\ handle' = [handle EXCEPT ![p] = "closed"]
  /\ Goto(p, "replace")
  /\ UNCHANGED <<job, request, feed, receipts, trails, tables, observed>>

\* Mutant of Saved: a rollback is not recorded.
Saved_NoRollback(kind) == CASE kind \in ApplyKind \ {"rollback"} -> "history"
                            [] kind \in IssuerKind -> "audit"
                            [] OTHER -> "idle"

\* The step after save_village.
Saved(kind) == CASE kind \in ApplyKind  -> "history"
                 [] kind \in IssuerKind -> "audit"
                 [] OTHER               -> "idle"

\* tmp.replace(p): whatever the staging file holds becomes the document, and
\* the old document's inode is unlinked.
ReplaceVillage(p) ==
  /\ pc[p] = "replace"
  /\ staged # Absent
  /\ village' = staged
  /\ staged' = Absent
  /\ handle' = [q \in Proc |-> CASE handle[q] = "staged"  -> "village"
                                 [] handle[q] = "village" -> "unlinked"
                                 [] OTHER                 -> handle[q]]
  /\ installed' = Append(installed, [op |-> job[p].op, content |-> staged,
                                     over |-> village])
  /\ Goto(p, Saved(Kindof(job[p].op)))
  /\ UNCHANGED <<job, request, feed, receipts, trails, tables,
                 interrupted, overlapped, raced>>

\* Another process has already renamed the staging file: FileNotFoundError.
ReplaceFails(p) ==
  /\ pc[p] = "replace"
  /\ staged = Absent
  /\ Goto(p, "idle")
  /\ UNCHANGED <<files, job, request, feed, receipts, trails, tables, observed>>

-----------------------------------------------------------------------------
(* The trails *)

\* Mutant of RowOf: the row names the policy that was replaced.
RowOf_Replaced(p) == [op |-> job[p].op, policy |-> job[p].base]

RowOf(p) == [op |-> job[p].op, policy |-> job[p].policy]

AppendHistory(p) ==
  /\ pc[p] = "history"
  /\ history' = Append(history, RowOf(p))
  /\ Goto(p, "audit")
  /\ UNCHANGED <<files, job, request, feed, receipts, audit, log, tables, observed>>

\* After the audit row an apply attempts the transparency entry (without a
\* node key that raises and is ignored), then the policy tables.
Ledgered == IF Sqlite THEN "ledger" ELSE "idle"

Audited(kind) == IF kind \in ApplyKind
                 THEN IF NodeKey THEN "log" ELSE Ledgered
                 ELSE "idle"

AppendAudit(p) ==
  /\ pc[p] = "audit"
  /\ audit' = Append(audit, RowOf(p))
  /\ Goto(p, IF Sqlite THEN "auditdb" ELSE Audited(Kindof(job[p].op)))
  /\ UNCHANGED <<files, job, request, feed, receipts, history, log, tables, observed>>

MirrorAudit(p) ==
  /\ pc[p] = "auditdb"
  /\ dbAudit' = dbAudit \cup {job[p].op}
  /\ Goto(p, Audited(Kindof(job[p].op)))
  /\ UNCHANGED <<files, job, request, feed, receipts, trails,
                 dbPolicy, dbHistory, dbLog, observed>>

AppendLog(p) ==
  /\ pc[p] = "log"
  /\ log' = Append(log, RowOf(p))
  /\ Goto(p, IF Sqlite THEN "logdb" ELSE "idle")
  /\ UNCHANGED <<files, job, request, feed, receipts, history, audit, tables, observed>>

MirrorLog(p) ==
  /\ pc[p] = "logdb"
  /\ dbLog' = dbLog \cup {job[p].op}
  /\ Goto(p, "ledger")
  /\ UNCHANGED <<files, job, request, feed, receipts, trails,
                 dbPolicy, dbHistory, dbAudit, observed>>

\* write_policy_apply_event: state row and history row in one transaction.
WriteLedger(p) ==
  /\ pc[p] = "ledger"
  /\ dbPolicy' = job[p].policy
  /\ dbHistory' = Append(dbHistory, RowOf(p))
  /\ Goto(p, "idle")
  /\ UNCHANGED <<files, job, request, feed, receipts, trails,
                 dbAudit, dbLog, observed>>

-----------------------------------------------------------------------------
(* Faults *)

Interrupt(p) ==
  /\ job[p].op \in interrupted \/ Cardinality(interrupted) < MaxFaults
  /\ interrupted' = interrupted \cup {job[p].op}
  /\ UNCHANGED <<job, request, receipts, trails, tables, feed,
                 installed, overlapped, raced>>

\* A trail cannot be written (OSError of an append, locked database, full disk):
\* the exception ends the handler, except around the transparency entry, where
\* apply_policy_update swallows it and goes on to the tables.
RecordFails(p) ==
  /\ pc[p] \in {"history", "audit", "auditdb", "log", "logdb", "ledger"}
  /\ Goto(p, IF pc[p] \in {"log", "logdb"} THEN Ledgered ELSE "idle")
  /\ Interrupt(p)
  /\ UNCHANGED files

\* The process dies.  Its buffered document is lost, or reaches the inode in part.
Crash(p) ==
  /\ Busy(p)
  /\ Goto(p, "idle")
  /\ handle' = [handle EXCEPT ![p] = "closed"]
  /\ Fill(p, {Held(p), Mixed})
  /\ Interrupt(p)

-----------------------------------------------------------------------------

Start(p) ==
  \/ \E u \in Update : Post(p, u) \/ Pull(p, u) \/ Compiled(p, u) \/ Import(p, u)
  \/ \E i \in Issuer : AllowIssuer(p, i) \/ BlockIssuer(p, i)
  \/ Rollback(p)

Save(p) ==
  \/ OpenArtifact(p) \/ WriteArtifact(p)
  \/ Load(p) \/ LoadFails(p)
  \/ OpenStaged(p) \/ WriteStaged(p)
  \/ ReplaceVillage(p) \/ ReplaceFails(p)

Record(p) ==
  \/ AppendHistory(p)
  \/ AppendAudit(p) \/ MirrorAudit(p)
  \/ AppendLog(p) \/ MirrorLog(p)
  \/ WriteLedger(p)

Fault(p) == RecordFails(p) \/ Crash(p)

Next == \E p \in Proc : Start(p) \/ Save(p) \/ Record(p) \/ Fault(p)

Spec == Init /\ [][Next]_vars

-----------------------------------------------------------------------------
(* Properties *)

Ops(rows) == {rows[i].op : i \in 1..Len(rows)}
Rows(rows) == {rows[i] : i \in 1..Len(rows)}
Last(s) == s[Len(s)]
Content == Policy \cup {Empty, Mixed}

\* Some process is serving request op and is at one of the given steps.
InFlight(op, steps) == \E p \in Proc : job[p].op = op /\ pc[p] \in steps

FilesOK ==
  /\ village \in Content
  /\ staged \in Content \cup {Absent}
  /\ handle \in [Proc -> {"closed", "staged", "village", "unlinked"}]

ControlOK ==
  /\ pc \in [Proc -> Step]
  /\ job \in [Proc -> [op: Nat, policy: Known, base: Known]]
  /\ request \in Seq(Request)

TrailsOK ==
  /\ feed \subseteq Update /\ receipts \subseteq Nat
  /\ history \in Seq(Row) /\ audit \in Seq(Row) /\ log \in Seq(Row)

TablesOK ==
  /\ dbPolicy \in Known
  /\ dbHistory \in Seq(Row) /\ dbAudit \subseteq Nat /\ dbLog \subseteq Nat

ObservedOK ==
  /\ installed \in Seq([op: Nat, content: Content, over: Content])
  /\ interrupted \subseteq Nat
  /\ overlapped \in BOOLEAN
  /\ raced \in BOOLEAN

\* Types of the variables, and which markers each may hold.
TypeOK == FilesOK /\ ControlOK /\ TrailsOK /\ TablesOK /\ ObservedOK

\* village.json always parses, whatever step a process dies at, as long as no
\* two load-to-save windows overlap: staging and renaming make the save atomic.
ReadableUnlessRaced == ~raced => Readable

\* Signatures and role are checked on a policy loaded before the update is
\* applied: without overlapping requests it is the policy that gets replaced.
CheckedUnderReplaced ==
  ~overlapped => \A i \in 1..Len(installed) :
     LET r == request[installed[i].op]
     IN  r.kind \in {"post", "pull"} => installed[i].over = r.seen

\* An issuer command changes one entry of the document it replaces and loses
\* nothing another process wrote, as long as no two windows overlap.
EditKeepsTheRest ==
  ~raced => \A i \in 1..Len(installed) :
     LET r == request[installed[i].op]
     IN  r.kind \in IssuerKind =>
           installed[i].content = Edited(r, NoPolicy, installed[i].over)

\* Every history row names a policy that its own request put in force, as long
\* as no two windows overlap.
HistoryTruthful ==
  ~raced => \A row \in Rows(history) : \E i \in 1..Len(installed) :
     installed[i].op = row.op /\ installed[i].content = row.policy

\* A policy that apply_policy_update installs reaches every trail that is kept,
\* and an issuer command the audit log, unless the request met a fault: nothing
\* else, no other request either, makes a trail skip it.  (An import is in none.)
NothingUnrecorded ==
  \A i \in 1..Len(installed) :
    LET op == installed[i].op
        Due(done, before) == op \in done \/ op \in interrupted \/ InFlight(op, before)
    IN  /\ Kindof(op) \in ApplyKind =>
             /\ Due(Ops(history), {"history"})
             /\ NodeKey => Due(Ops(log), {"history", "audit", "auditdb", "log"})
             /\ Sqlite => Due(Ops(dbHistory), {"history", "audit", "auditdb",
                                               "log", "logdb", "ledger"})
        /\ Kindof(op) \in ApplyKind \cup IssuerKind =>
             /\ Due(Ops(audit), {"history", "audit"})
             /\ Sqlite => Due(dbAudit, {"history", "audit", "auditdb"})

\* The trails nest: a row of a later trail repeats a row of the earlier ones,
\* so a reader of the transparency log or of the tables finds the policy in
\* policy_history.jsonl and the act in the audit log.  Only the transparency
\* entry may be missing behind a row of the tables, and only after a fault.
TrailsNest ==
  /\ {row \in Rows(audit) : Kindof(row.op) \in ApplyKind} \subseteq Rows(history)
  /\ Rows(log) \subseteq Rows(audit) \cap Rows(history)
  /\ Rows(dbHistory) \subseteq Rows(audit) \cap Rows(history)
  /\ NodeKey => \A row \in Rows(dbHistory) : row \in Rows(log) \/ row.op \in interrupted
  /\ dbHistory # <<>> => dbPolicy = Last(dbHistory).policy

\* At any time the newest installed policy, once recorded, is what the last
\* row of the history says and what the policy_state table holds, as long as
\* requests do not overlap.
LastRowIsActive ==
  ~overlapped /\ installed # <<>> =>
    LET op == Last(installed).op
    IN  /\ op \in Ops(history) => Last(history) = [op |-> op, policy |-> village]
        /\ op \in Ops(dbHistory) => dbPolicy = village

\* A rollback brings back a policy that an earlier row recorded and that some
\* request other than a rollback introduced; no row is ever taken away.
RollbackRestoresRecorded ==
  \A j \in 1..Len(history) :
    Kindof(history[j].op) = "rollback" =>
      \E i \in 1..(j - 1) : /\ history[i].policy = history[j].policy
                            /\ Kindof(history[i].op) # "rollback"

\* An import whose receipt says "apply" installs its policy, is still at it or
\* met a fault, if the policy is valid and the village is here, as long as no
\* two windows overlap.  (Otherwise it is refused, and the receipt stays.)
ReceiptHonoured ==
  ~raced => \A op \in receipts :
     PolicyOf[request[op].arg] # NoPolicy /\ request[op].arg \notin Elsewhere =>
       \/ op \in Ops(installed)
       \/ op \in interrupted
       \/ InFlight(op, Window \cup {"load"})

\* The update of every applied POST is in the feed, if it names this village,
\* except while the same artifact is being published again or after such a
\* publication was cut off.
AppliedIsPublished ==
  \A i \in 1..Len(installed) :
    LET u == request[installed[i].op].arg
    IN  Kindof(installed[i].op) = "post" /\ u \notin Elsewhere =>
          \/ u \in feed
          \/ \E op \in 1..Len(request) : /\ Kindof(op) = "post" /\ request[op].arg = u
                                         /\ \/ InFlight(op, {"republish"})
                                            \/ op \in interrupted

\* What was applied is on record: in every trail, in the same way in each, and what
\* was submitted in the feed it names; only the request's own fault excuses a gap.
RecordsComplete == NothingUnrecorded /\ TrailsNest /\ AppliedIsPublished

\* What a request relied on when it began holds of what it does: the policy that its
\* checks looked at, or the row that a rollback found.
InstalledAsChecked == CheckedUnderReplaced /\ RollbackRestoresRecorded

-----------------------------------------------------------------------------
(* The promise kept by a single process *)

\* A handler that has started runs on; requests and faults may never come.
FairSpec == Spec /\ \A p \in Proc : WF_vars(Save(p) \/ Record(p))

Act(row) ==
  [kind |-> IF Kindof(row.op) \in {"post", "pull"} THEN "submitted" ELSE Kindof(row.op),
   policy |-> row.policy]

\* The entry due is the row of the handler that has saved and not recorded.
Owed == IF \E p \in Proc : pc[p] = "history"
        THEN <<Act(RowOf(CHOOSE p \in Proc : pc[p] = "history"))>>
        ELSE <<>>

Promise == INSTANCE PolicyLedger WITH
             active <- village,
             ledger <- [i \in 1..Len(history) |-> Act(history[i])],
             owed <- Owed,
             faults <- interrupted,
             Op <- 1..MaxRequests

\* One process at a time keeps the promise of PolicyLedger: updates are checked
\* under the policy they replace, the history names the acts in the order they
\* took force, only a fault of that moment leaves one out, and what changes the
\* policy without an entry edits one issuer or is an import.
KeepsPromise == Promise!Spec

=============================================================================
