# PolicyMesh in TLA+

PolicyMesh lets a group of nodes keep *villages* (communities with a policy)
and exchange signed *policy update artifacts*. This directory holds a TLA+
model of it: modules translated from `links/`, TLC configurations that check
them on small instances, and theorems that TLAPS checks for every instance.
`PROJECT.json` ties each definition to the lines it models, each property to a
hazard of the code and to a mutation of the model that breaks it.

Paths below are relative to the repository (`src/` in `PROJECT.json`). Only
`links/` is modelled: `src/` and `upstream/` inside the repository are older
copies of it, `scripts/` are thin wrappers of its commands.

## 1. The system

### 1.1 Components

| Component | State it keeps | Operations | Hard part |
|---|---|---|---|
| **Village store** `villages.py`, `storage_backend.py`, `audit.py` | `village.json` (active policy), its staging file, `policy_history.jsonl`, audit log, transparency log, SQLite tables `policy_state`, `policy_history`, `audit_log`, `transparency_log` | apply an update (POST, pull, compiled norms, rollback), allow/block an issuer, import | no lock around load-change-save; one staging file for every writer; up to eight writes per apply, a fault between any two |
| **Artifacts, quorum, lifecycle** `policy_updates.py`, `policy_lifecycle.py`, `policy_feed.py:115-165` | JSON files handed from signer to signer, lifecycle events | build, sign-add, sign-legacy, transition, verify, three quorum models | signatures collected one after another over a payload that may change; several entries of one key; truncating writes; times and states that change what a signature means |
| **HTTP server** `server.py` | rate-limit buckets | limit, authenticate, POST policy, read feed, manifest, checkpoint, audit export | handler threads interleave with each other and with operator commands |
| **Policy feed** `policy_feed.py` | files under `policy_updates/` | store, list, page by cursor, by hash, manifest with a Merkle root | pages of a feed that grows; cursor looked up by a hash that can repeat |
| **Reconciliation and pull** `reconcile.py`, `cli.py:153-362`, `decision_receipts.py` | receipts; otherwise the village store | choose a head among local and remote updates, fill gaps in history, evaluate, apply | two histories that diverge; missing ancestors; a lagging peer |
| **Membership** `villages.py:142-262` | `members.jsonl`, `revocations.jsonl` (append only) | add, list, authorize, revoke, rotate | rotation is a loop of appends; a token added meanwhile is missed |
| **Claims, quarantine, store** `claims.py`, `quarantine.py`, `store.py` | quarantined files, stored bundles, claim index, SQLite rows | ingest, approve, reject, count | check-then-act on files; death between storing and indexing |
| **Trust anchors** `trust_anchors.py` | one file per entry | register, rotate, revoke, inspect | commands finish in another order than they began; which anchor is active then |
| **Norm compiler** `norms.py` | none | validate, compile, diff, build an update | contradictions between rules that Python's `==` sees, conversions that it does not |
| **Action decisions** `action_decisions.py` | receipts | evaluate, verify | precedence of failing rules; facts that are missing |
| **Checkpoints and drift** `transparency.py`, `checkpoint_exchange.py`, `drift_classes.py` | checkpoint files | checkpoint, sign, publish, fetch, verify, compare | two logs that grow while they are compared, in another order than the policies |
| **Audit export, locks** `audit_export.py`, `file_lock.py` | audit log, filtered file, export, digest, signature | write a row, filter, export, sign | open before lock, unlock before flush; one shared temporary file |
| **Evidence bundles** `evidence_bundle.py` | copied files and their index | build, verify | sources that change while they are copied |
| **Registry interoperability** `registry_interop.py` | import receipts | compare, import, export | receipt written before the import |
| Capability manifest, crypto, keys, diff, models, derive, SDK, validate | none | formatting, calls of a cryptographic library | none: no state, no choice |

### 1.2 How they interact

A handler thread of the server or an operator's command is a *process*.
Processes share only files and one SQLite database, and never talk to each
other. An update travels like this:

1. an operator builds an artifact (or compiles norms into one), others sign
   copies of it, somebody moves it from `proposal` to `approved` to `active`;
2. it is POSTed to a node: role and signatures are checked against the policy
   loaded at that moment, the artifact is stored in the feed, and
   `apply_policy_update` loads the village again, saves it and records it;
3. other nodes read the feed page by page, reconcile it with their own,
   evaluate the selected update against their own policy and apply it through
   the same `apply_policy_update`;
4. logs are checkpointed, exported, and compared between nodes.

### 1.3 What makes each component correct

* *Village store*: the document is readable at all times; what was checked is
  what gets replaced; an edit loses nothing; every policy put in force is
    named by every trail it goes through, in order, and a fault of its own request
  is the only excuse.
* *Artifacts*: nothing is applied without the quorum its village asks for,
  over exactly the bytes applied, in that lifecycle state and at that time;
  signatures collected one by one all count in the end.
* *Feed and pull*: a reader gets every update that was there when it began;
  gaps in what it chose from are named; a node that publishes nothing keeps up
  with its peer; a node that was sent all it has never goes back; a pull ends.
* *Membership*: an answer about a token was true at some moment of the check;
  a revocation leaves no token it listed; rotations keep a member's way in.
* *Rate limiter*: no client gets more through in a minute than the limit.
* *Quarantine and store*: a bundle is stored whole, indexed, and ingested once;
    a submission is decided once, and lost only to a later one of its name.
* *Norms, action decisions*: a compiled policy is what every norm says; a
    verified receipt tells the truth; missing facts permit nothing, unless a rule
  can hold of what is not there.
* *Trust anchors*: what was revoked is not answered.
* *Checkpoints and drift*: histories only grow; a class is true of nodes whose
  logs are up to date.
* *Audit export*: an export is the first so many events, its digest and
  signature are of what they lie beside, and nobody waits for ever.
* *Evidence bundles*: a bundle built alone verifies, but for files that others
  write inside it.

## 2. The modules

| Module | Models | Role |
|---|---|---|
| `VillageStore` | `villages.py`, `storage_backend.py`, `audit.py`, `transparency.py`, and the callers in `server.py`, `cli.py`, `norms.py` | one village and the processes that change it |
| `PolicyLedger` | the promise to members | abstract specification, implemented by one process of `VillageStore` |
| `PolicyQuorum` | `policy_updates.py`, `evaluate_policy_quorum`, `evaluate_policy_update`, `validate_transition` | operators: signing, verifying, quorum, decision |
| `PolicyArtifact` | `policy_lifecycle.py`, the artifact commands of `cli.py`, admission by POST and pull | artifacts as files, and the nodes that apply them |
| `Reconcile` | `policy_feed.py`, `reconcile.py` | operators: order of a feed, lists, pages, the dictionary by hash, the choice between two histories |
| `PolicyPull` | `policy_pull` in `cli.py:153-305`, `fill_history_gaps`, the feed endpoints of `server.py` | nodes that publish updates and pull from one another |
| `Membership` | `villages.py:138-262` | members, tokens, revocations, and the commands over them |
| `HttpGate` | `rate_limit`, `policy_update` in `server.py`, `authorize`, `role_can` | extends `Membership`: what a request passes before POST does anything |
| `ClaimStore` | `quarantine.py`, `store.py` | claim bundles from submission to index |
| `AuditExport` | `audit.py`, `file_lock.py`, `audit_export.py`, the export endpoint and command | the audit log and its exports, with locks and buffers |
| `CheckpointDrift` | `transparency.py`, `checkpoint_exchange.py`, `drift_classes.py` | two nodes' logs, their checkpoints and the comparison |
| `Norms` | `norms.py` | two norm files, compiled and compared |
| `ActionDecisions` | `action_decisions.py` | one policy evaluated on all facts and on fewer |
| `TrustAnchors` | `trust_anchors.py` | the entries of a village and inspections |
| `EvidenceBundle` | `evidence_bundle.py` | building a bundle of sources that change |
| `Governance` | | the last four, side by side: they share nothing |
| `MCVillageStore`, `MCPolicyArtifact`, `MCPolicyPull`, `MCHttpGate`, `MCClaimStore`, `MCAuditExport`, `MCCheckpointDrift` | | instances for TLC |
| `MCGovernance` | | instance of `Governance`: a behaviour is one of the four, and the others never begin |
| `VillageStoreProofs`, `PolicyArtifactProofs`, `PolicyPullProofs`, `HttpGateProofs`, `ClaimStoreProofs`, `AuditExportProofs`, `CheckpointDriftProofs`, `GovernanceProofs` | | theorems and the lemmas they rest on |

### 2.1 VillageStore

`village`, `staged` are the contents of `village.json` and `village.json.tmp`;
`handle[p]` says which inode a writer's open handle refers to now. The code
writes with `tmp.write_text` and `tmp.replace(p)` (`villages.py:115-121`), so
the model has three steps: open with truncation, write at close, rename. They
matter because all writers share one staging file: after another process has
renamed it, a handle that is still open points into the live document
(`handle = "village"`) or into an unlinked inode.

`pc[p]` is the next step of the handler that process `p` runs. Each request is
one record in `request`, and the index of that record is its identity, which
rows of every trail carry. Kinds of request and their code:

| Action | Code | Checks before it starts |
|---|---|---|
| `Post` | `server.py:163-205` | role can manage, signatures against the policy loaded now |
| `Pull` | `cli.py:224-231` | signatures; an unreadable document counts as the empty policy |
| `Compiled` | `norms.py:270-283` | none |
| `Rollback` | `cli.py:734-761` | document loads, a history row has the target |
| `AllowIssuer`, `BlockIssuer` | `villages.py:265-280` | none |
| `Import` | `cli.py:621-648` | none; the receipt is written first, then the policy is validated and the village looked up |

All go on to `Load`, `OpenStaged`, `WriteStaged`, `ReplaceVillage` (or the
failing variants `LoadFails`, `ReplaceFails`), and then write the trails they
owe: `AppendHistory`, `AppendAudit`, `MirrorAudit`, `AppendLog`, `MirrorLog`,
`WriteLedger`. `POST` publishes its artifact before it applies it
(`OpenArtifact`, `WriteArtifact`): under the village that the artifact names
(`policy_feed.py:37`), whichever village the path of the request names, so an
update of `Elsewhere` is applied here and published nowhere here (`Filed`).
`PolicyOf` is `VillagePolicy.model_validate`, which may raise (`NoPolicy`); then, or
when an import's village is not on this node, the handler ends (`LoadFails`,
`Applicable`).

`Crash` may end a handler at any step, and `RecordFails` is any write of a trail
that raises, a file's append as well as a transaction. It ends the handler,
except at the transparency log, whose failure is swallowed
(`villages.py:352-356`): then the tables are written all the same, and a row of
theirs has no entry in that log. `Crash` also stands for an `OSError` in
`save_village`, which ends the request just there.

What a policy says is a value (`Body`) plus the issuer lists, which are the
only part that is edited in place. `Accepts[body]` is the set of updates whose
signatures that policy accepts; `PolicyQuorum` says what that set is.

`installed`, `interrupted`, `overlapped` and `raced` are observers: no guard
reads them. `raced` becomes true when the load-to-save windows of two requests
overlap, `overlapped` when two requests are in progress together.

### 2.2 PolicyLedger

Without files or trails: an active policy, a ledger of acts, at most one act
that is owed, and the requests that met a fault. Submitted updates must be
acceptable to the policy they replace, a rollback restores a recorded policy, an
owed entry is entered, or lost in the very step in which a fault strikes
(`Lose`, one for each fault; `Spare` is a fault that loses nothing), and does not
stay owed. What changes the policy without an entry adds or drops one issuer and
leaves the rest, or is an import (`Amend`). `VillageStore!KeepsPromise` is the
refinement, with `active <- village`, the history as the ledger, the row of the
handler that has saved and not recorded as the entry owed, and
`faults <- interrupted`. It holds for one process at
a time; with two it does not, which is what the `raced` and `overlapped`
conditions of the invariants are about.

### 2.3 PolicyQuorum and PolicyArtifact

A hash is what it hashes; a signature is the key with the payload it was made
over, and verifies over exactly that payload. So an edited artifact keeps its
signatures and they stop verifying, as in the code. `SignatureRules` are the
fields of a village's policy that `evaluate_policy_quorum` reads. `signatures[]`
is kept as the list of what each key's entries sign (`sigs`): `AddSignature`
keeps the first entry of every key, as the loop of `policy_updates.py:165-172`
does, and adds nothing for a key that is listed. Weights are whole numbers of
some unit and may be negative. A key's roles are a list, and a role in it twice
counts twice. `lifecycle_state` is any string: `State` has the four of the lifecycle,
the empty one, one in capitals and a word of somebody's own, and `Stage` is how
the pull reads it (`decision_receipts.py:182`). `Decision` has the manifest and the
metadata check too.

`PolicyArtifact` has the commands (`Draft`, `SignAdd`, `SignOnce`,
`Transition`), each a read followed by `OpenOut`, `WriteOut` and for a
transition `WriteEvent`; `Edit` is a person with an editor who changes one
field, or doubles or drops signatures, and `Paste` one who copies the
signatures of one file over to another; `Tick` is the clock; `Post` and `Pull`
apply what a file holds at that moment to a node with its own rules. `admitted` keeps the last update a node applied. `signed` and
`listed` are observers: every signature anybody ever made, and for a file the
signers that `sign-add` commands have put into it. A job notes in `inPlace`
whether it writes the file it read: only work in place is owed to later readers.

### 2.4 Reconcile and PolicyPull

A feed is the set of its updates, because `list_policy_updates` sorts by
`(created_at, policy_hash)` whenever it reads and these two name the file.
Hashes are numbers in the order of their strings. `Since`, `Rest` and `Page`
are `filter_updates_since` and `paginate_updates`: both look a hash up in the
sorted list, where the first update that has it counts.
`Learn` is the dictionary that `fill_history_gaps` builds
(`policy_feed.py:283`): of two updates with one hash the last received stays.

`feed[n]` is what node `n` can read under `policy_updates/`, `torn[n]` what is
being rewritten: `store_policy_update` truncates the file of an update that is
posted again, and readers skip what they cannot parse. `pc[n]` and `job[n]` are
`n`'s pull. Its steps are the requests: `Start` (manifest), `NextPage`,
`PageLost` and then `WholeFeed` (the fallback) or `WholeLost`, `Refuse` or
`Compare` (the checks, the local feed), `Fetch` (one ancestor), `Select`
(reconcile, decide, apply). Posts happen between any two of them. What the
policy of a node makes of an update or a manifest is fixed in `Applies` and
`Vouched`; it is the subject of `PolicyArtifact`. A pull does not put what it
applied into its own feed, and neither does the model.

`base[n]` is an observer: what `n`'s peer listed when the pull began and has
listed at every moment since.

### 2.5 Membership and HttpGate

`members` is the sequence of rows of `members.jsonl`, `revocations` the set of
revoked token hashes. Appends are locked, reads are not, so each read and each
append is a step. `BeginRevoke`, `ListTokens`, `CheckToken`, `AppendRevocation`
and `EndLoop` are the loop of `revoke_member` (`villages.py:221-233`), which
`rotate_member_token` runs first (`ReadRole`, `AppendMember` follow).
`BeginAuthorize`, `ReadRevocations`, `FindMember` are the two reads of
`authorize`. `AuditFails` is an exception from `write_audit`.

`HttpGate` adds what the middleware and the handler do before: `TooMany`,
`Anonymous`, `Admit` (a request is counted and goes on to the token check),
`Decide` (`role_can` under the policy read now), `Tick` (the minute turns, with
the clean-up of buckets in the next request) and `ChangePolicy`. `seen`,
`withdrawn`, `interrupted`, `passed` and `most` are observers.

### 2.6 ClaimStore

Files are what they hold: a document, nothing yet (`empty`), two texts over one
another (`mixed`), or `absent`. `OpenFile`/`FillFile` are `quarantine_bundle`;
`Examine`, `ReadAgain`, `CheckReplay`, `OpenStaged`, `FillStaged`, `Replace`,
`AppendRows`, `InsertRows` or `InsertFails`, `Unlink` are `approve_quarantine`
with `ingest_bundle_file`; `BeginReject`, `OpenCopy`, `FillCopy`, `Unlink` are
`reject_quarantine`. An open handle follows its file when that is renamed
(`into`). `raced`, `broken`, `halved`, `crowded`, `kept`, `given`, `spoilt`,
`verdicts` are observers: the conditions of the invariants are in terms of them.
`given[f]` are all documents that somebody alone with the file has put there,
and `spoilt[f]` those that may have gone since, each for one of three reasons: a
later submission of the name emptied the file while it held the document
(`quarantine.py:38`, in `OpenFile`), a later rejection of the name overwrote its
copy (`OpenCopy`), or a caller died that shared the file or the bundle with
others (`Endangered`).

### 2.7 AuditExport

`locked_open` opens (and empties) before it locks, and unlocks before the
buffer is written: hence `LockToWrite`, `UnlockWritten`, `CloseWritten` for a
row, and `OpenFiltered`, `Filter`, `UnlockFiltered`, `CloseFiltered` for the
filtered file. A row longer than the buffer is written at once, under the lock;
one that fits is written, in one piece too, when the file is closed, which is
after the lock is released. Reads go a buffer at a time (`ReadSome`, `ReadOn`). The digest of a
JSON export is of the text in hand, that of CSV of the file read back. `Ours`,
the rows of the village in the log, is defined by their ranks (`SetToSeq` of the
places in order), so that what appending does to it can be proved.

### 2.8 CheckpointDrift

A node's log is a record of the entries its reader finds and whether it ends in
half a line, to which the next entry would be glued and lost. `pending[n]` are the policies in force whose entries are still to be appended,
in any order. `OpenPublished` empties the file of that second; `FillPublished` writes
it, or `FillFails` leaves it empty or half written, when the write fails or the
operator dies. A checkpoint stands for the entries it is made of, its hash for
the whole of them. `Checkpoint.truth` is an observer: the policy in force when
the checkpoint was made, where the log of the node was up to date (`tidy`).

### 2.9 Norms, ActionDecisions, TrustAnchors, EvidenceBundle

`Norms` keeps a value with what Python makes of it, since `==` says that
`True` is `1` and `bool`, `int` and `list` convert some texts and refuse
others. `Compile` is one rule of the loop, `Finish` the checks at the end; two
files are compiled side by side so that `Diff` can be held against what the
files do. `ActionDecisions` evaluates a policy rule by rule on all facts and on
a part of them; its receipt has the documents for their hashes. In
`TrustAnchors` an entry has the time at which its command began and its file
comes later; `ReadEntry` is one file of an inspection, `Answer` the choice. In
`EvidenceBundle` sources have versions, and copy, hash, manifest and digest are
steps between which they change; a source that already lies in the bundle is
not copied (`FindInside`, `evidence_bundle.py:53`), and another program may write
it there (`Touch`).

## 3. Runs

`CHECK_DEADLOCK FALSE` throughout: requests and commands are bounded, and a
node with nothing to do stops. State counts are of distinct states.

| Run | Instance | Checks | States |
|---|---|---|---|
| `village_faults` | 2 processes, 2 requests, 1 fault, node key and SQLite, 4 updates of which one does not validate and one names another village | `ReadableUnlessRaced`, `RecordsComplete`, `ReceiptHonoured` | 756,909 |
| `village_concurrent` | 2 processes, 3 requests, no trails beyond files | `InstalledAsChecked`, `EditKeepsTheRest`, `HistoryTruthful` | 2,318,417 |
| `village_ledger` | 1 process, 3 requests, 2 faults, the same 4 updates, fairness | `LastRowIsActive`, refinement `KeepsPromise` | 2,030,503 |
| `artifact_admission` | 4 nodes (each quorum model, and optional signatures), 4 commands, 2 edits; 3 keys and 2 policies while time stands still, 2 keys, 1 policy and 2 times otherwise | `QuorumBacked`, `SigningKeepsAcceptance` | 758,020 |
| `artifact_shared` | 2 operators, 2 files, 4 commands, 1 death, no metadata, symmetry | `WorkAccumulates` | 494,736 |
| `artifact_expired` | 1 node, 2 times | violated: `NeverAppliedLate` | |
| `pull_pages` | 2 nodes, 5 updates, pages of 1, 4 posts, 1 pull, 2 lost requests, fairness | `PagesComplete`, `GapsNamed`, `FollowerNotBehind`, `NeverBack`, `PullEnds` | 612,889 |
| `member_gate` | 2 processes, 1 member, 3 tokens, 2 clients, 3 policies, 2 minutes, 4 events, symmetry | `AnswerWasTrue`, `ListedAreRevoked`, `KeepsAToken`, `WithinLimit` | 1,646,867 |
| `claims` | 2 callers, 1 quarantined file, 3 bundles, 2 ids, any deaths, symmetry | `StoredIsIndexed`, `IngestedOnce`, `StoredIsWhole`, `NothingVanishes`, `DecidedOnce` | 1,512,276 |
| `exports` | 2 callers, 3 rows, 2 exports, 1 death, symmetry | `ExportFaithful`, `SealMatches`, `SomebodyGoesOn` | 3,218,196 |
| `drift` | 2 nodes, 2 policies, 3 replacements, 2 operators, 2 jobs, 1 fault, 2 seconds, symmetry | `CheckpointsTrue`, `ClassIsTrue` | 2,222,104 |
| `governance` | pairs of norm files of up to 2 norms (and 3 of the starter set); action policies of up to 2 rules; 3 anchor entries, 2 operators; 2 builders of 2 sources, inside the bundle or outside, symmetry | `EveryNormHolds`, `NoDifferenceNoEffect`; `VerifiedReceiptIsTrue`, `MissingNeverPermits`; `InspectionIsRight`; `BuiltAloneVerifies` | 2,539,846 |

A property that is a conjunction is one promise in parts, each with a name and
a comment of its own: `RecordsComplete` is `NothingUnrecorded`, `TrailsNest`
and `AppliedIsPublished`; `InstalledAsChecked` is `CheckedUnderReplaced` and
`RollbackRestoresRecorded`; `WorkAccumulates` is `TransitionsLogged` and
`SignersAccumulate`; `ExportFaithful` is `ExportIsPrefix` and
`LoneExportIsComplete`; `SealMatches` is `AnswerIsOfOneExport` and
`SignatureIsOfTheFile`; `CheckpointsTrue` is `CheckpointsExtend` and
`VerifiedIsTrue`. Types are proved where there are proofs and not checked again.

### 3.1 What they show

*Without overlapping saves* the store does what it should, deaths included: the
document stays readable, each row names what its request installed, an edit
keeps everything else, an import with a receipt is carried out if its policy
validates and its village is here (the receipt stays when it is refused). *Without
overlapping requests* what was checked is what is replaced and the newest row
is the policy in force. At all times, with overlaps and faults: a policy that
`apply_policy_update` installs reaches every trail unless its own request met a
fault, and an import none; the trails nest (log and tables repeat history and
audit rows, and a row of the tables is in the log unless a fault of its request
left it out there); and a rollback restores a recorded policy that is not merely
another rollback's. The conditions are the tightest that hold: each of these
invariants fails when its condition is dropped. One process keeps the promise of
`PolicyLedger` through every fault: what the history leaves out was lost in the step
in which a fault struck, one entry for a fault.

*Artifacts*: no sequence of drafts, signatures, transitions and edits gets an
update applied that its quorum has not signed as it stands, a role listed twice
counting as two of its signers (3.4). `sign-add` turns no accepted artifact
into a refused one, with two exceptions that the property names: the key signing takes
weight away, or the list had several entries of one key, of which the first, maybe
a stale one, stays. Signers who work one after another all count, as long as no two
commands write one file together. No artifact is `active` or `rolled_back`
without its lifecycle events unless a command died or somebody edited it.

*Feed and pull*: a pull receives everything that its peer had all the time,
although the feed grows before and behind the cursor, the update that the
cursor names may be unreadable when the next page is asked for, and a lost page
makes the pull start over. The condition is that no policy hash occurs twice in
the peer's feed; without it `PagesComplete`, `FollowerNotBehind` and `PullEnds`
fail, the last because the pages come round for ever. What is missing from the
history is named, also when answers are lost or `max_fetch` ends the search.
`NeverBack` is what remains of the rule "latest wins": when the peer has sent
all local updates, the choice is not before the local head, fork or not; when
it has not, a pull from a lagging peer goes back (3.4).

*Members and the limiter*: although a check reads revocations and members one
after the other, its answer was true at one moment. Revocation and rotation
leave none of the tokens they listed; a token added meanwhile survives them.
Rotations alone never lock a member out; a death or a failing audit between
the revocations and the addition does. The limit holds at the turn of the
minute, at the cap and through clean-ups, and with policies that change.

*Bundles*: with SQLite a bundle is ingested once however many callers try;
without, twice when two find it missing together. What is stored is whole even
when ingestions share the staging file, unless one of them dies. A bundle whose
ingestion died after the rename stays without index rows, because the replay
check refuses it from then on. No lone decision loses a submission. When its name
is used again, what was stored stays; what still waits is destroyed, and so is a
rejected copy when the new one is rejected too (3.4).

*Exports*: whatever exports share the filtered file, the events of each are the
first so many of the log; complete only for one that runs alone. The two locks are never waited for in a circle.

*Checkpoints*: entries are never taken back, so equal counts mean equal
histories. A class is right about nodes whose logs are up to date; when a log
is not (an entry pending, appended out of order, lost to a fault, or an issuer
edited), nodes that agree may be told they diverge. A published file may be
left unreadable, by two checkpoints of one second or by a death; such a file is
not compared.

*Norms, decisions, anchors, evidence*: no order of norms and no way to write a
value changes what a file compiles to, contradictions are refused. A receipt
that verifies denies, defers and permits as its rules say, and fewer facts
never permit more, unless a rule can hold of what is missing: `neq`, `not_in`, `eq`
with a place, which an empty path stands for too and which then is None, and `in`
a list with a None in it.
An inspection does not answer a key revoked before it began, in whatever order
the entries were written. A bundle built alone verifies, whatever its sources
outside do meanwhile; the errors it has are of files inside that somebody else
wrote after they were hashed.

### 3.2 Bounds

* Two processes are enough for every overlap the conditions speak of: `raced`
  and `overlapped` are about pairs, and one pair already reaches every
  combination of handle and inode. Three requests let a third one act on what
  the race of two left behind. Two requests with a fault let a fault in one
  meet every step of the other.
* Two bodies and two updates, one of which the strict policy refuses, tell a
  stale check from a fresh one; a third update whose policy does not
  validate and a fourth of another village are in the runs with faults. The
  starting policy is open and blocks an issuer, so allow and block both change
  something.
* Four commands draft, sign twice and move an artifact; two edits double an
  entry of a list and make it stale; `artifact_admission` reaches admissions by all
  four nodes. There one key lists the role "core" twice, of which two are
  needed, and another has a negative weight. It looks at one admission at a time
  (`OneAdmission`), since nothing depends on what was admitted. `artifact_shared`
  has two files, since a command reads one path and may write another; updates
  carry no quorum metadata there (`Plain`), which no command reads.
* `MaxTime = 1`: one moment before and one after an activation or an expiry.
  `artifact_admission` looks either at the third key, the second policy and any
  lifecycle state, for five commands and edits, or at times and metadata, for
  four (the constraint `Explored`): what a signature is of and when an update is due
  are checked apart.
* Five updates: a line of three, then two successors of the third, of which
  one returns to the first policy. So there is a fork, a repeated hash, equal
  times ordered by hash, and a line longer than `MaxFetch = 2`. Pages of one
  update put a boundary between any two. Two nodes and one pull are enough
  since pulls change no feed; two lost requests lose a page and
  then the fallback too; four posts fill a feed of three and rewrite one.
* `member_gate`: one member with up to three rows and tokens, since the commands
  touch one member's rows only; four events (requests, policies, minutes and
  rows together) let a revocation or a rotation meet a rotation and a check.
* `claims`: two bundles with one id and a third that is not genuine; one file,
  since callers meet only at one file or one id; deaths and re-submissions are
  not bounded there. States with the same difference of `given` and `spoilt` are
  taken for one (the view `Seen`), since nothing looks at more.
* `exports`: three rows of either length, so that a row appended late can be
  between two others, two exports in either format.
* `drift`: three replacements make logs of different lengths with different
  last policies; one fault of each kind; two seconds so that files are shared
  or not. No fault is needed for the order of entries to be wrong.
* `governance`: norms that agree, contradict, convert, fail to convert or are of
  an unknown template, in both orders; every operator of action rules, each
  with facts below, at and above its bound and missing; a registration, a
  rotation and a revocation in any order and at equal times.
* Counters (`MaxRequests`, `MaxFaults`, `MaxCommands`, `MaxEdits`,
  `MaxCrashes`, `MaxTime`, `MaxPosts`, `MaxPulls`, `MaxEvents`, `MaxRows`, `MaxMinute`,
  `MaxExports`, `MaxDeaths`, `MaxPolicies`, `MaxJobs`, `MaxSeconds`, `MaxEntries`,
  `MaxInspections`, `MaxVersion`, `MaxBuilds`) appear only in guards of starts and faults, never in
  the steps of a started handler.
* Symmetry permutes processes, operators, files, tokens, clients and hashes in
  runs without liveness; in `artifact_shared` the rules of the nodes tell the
  keys apart, so keys are not permuted.

### 3.3 Fairness

`FairSpec` asks weak fairness of `Save(p) \/ Record(p)`: a handler that has
started runs its next step. The code justifies it because there is no lock and
no wait in `apply_policy_update`, and a thread or command is scheduled until it
ends. Starts and faults have no fairness: nobody need send a request, and
nothing need crash. Fairness is used only by `KeepsPromise`, whose abstract
side says that an owed entry is eventually entered or lost.

In `PolicyPull` it asks weak fairness of `Advance(n)`: a pull command that
runs sends its next request, and every request has a time-out
(`timeout=30`), after which it is lost. No request has to be lost: `PageLost`
and `WholeLost` have no fairness, so a pull that pages for ever is not rescued
by the fallback. Posts have no fairness, nor has the end of
a post: its process may die and leave the file torn. `PullEnds` supposes that
posts do not go on for ever (`MaxPosts`); a feed that grows faster than it is
paged is never read to its end.

### 3.4 Where code and documents differ

Shown by a run:

* `artifact_expired`: POST applies an update after its `expires_at`, against
  `links/policy_updates.py:62`.

Met while reading, without a run:

* `reconcile.py:95` takes the remote head as "newer" without comparing, so a
  peer that lags behind brings back an older policy; `cli.py:160` promises
  "Reconcile rule (default): select latest update by (created_at,
  policy_hash)".
* `villages.py:67` says "If true, remote policy manifests must be signed during
  pull operations"; a manifest that is not received is not demanded
  (`cli.py:170-176`, `233`).
* `cli.py:112` says "Append a signer signature to a policy update artifact";
  once an artifact was edited, a key that had signed it cannot sign again,
  because its stale entry is listed (`policy_updates.py:174`). Of several entries
  of one key `sign-add` keeps the first, so an artifact accepted for a later,
  valid entry can become one that is refused.
* `lifecycle_state` is any string (`policy_updates.py:67`) and
  `evaluate_policy_update` looks for two words only, so a pull applies an update
  that is "retired".
* POST applies an update to the village of its path and files it under the one
  the update names (`server.py:163-205`, `policy_feed.py:37`); nothing compares them.
* A registry import writes its receipt, "apply", before it validates the policy and
  looks for the village (`cli.py:639-646`); the receipt stays when that fails.
* `quarantine.py:38` writes over a file of the same name: a second submission destroys
  the first while it waits, also when it dies before it has written anything;
  and a second rejection overwrites the first one's copy.
* Two checkpoints published in one second share a file
  (`checkpoint_exchange.py:138`), and a death while it is written leaves it
  unreadable.
* Of two concurrent `issuer allow` commands one may be lost although both are
  audited (`villages.py:265-272`), against what
  `tests/test_village_governance.py:37` expects of one.
* `quarantine.py:48-53` promises that an approval re-checks the village's
  policy. `ClaimBundle` has no `village_id`, so the re-check, the quota and the
  denial artifacts never happen.
* After a death between storing and indexing, the replay check refuses a
  bundle for ever, and an approval answers "replay detected" and leaves the
  file in quarantine (`store.py:41`).
* `file_lock.py` promises "an exclusive lock for the duration of the context";
  the file is opened before it and its buffer written after it. An unsigned
  export leaves the old `.sha256` and `.sighex`; a failing digest write still
  answers `signed: true` (`server.py:316-336`).
* `server.py:68-98` calls its bucket store bounded; buckets of the current
  minutes are never dropped. `authorize` takes the first row of a token,
  `rotate_member_token` the newest role of the member; rotating to a token that
  was used or revoked before locks the member out. `write_audit` in
  `villages.py` writes under `data/store`, whatever the store root.
* `drift_classes.py` documents `history_only_divergence`; `compare_checkpoints`
  never passes the hashes it needs. `signer_key_hash` is not covered by the
  signature. A follower that lags by a different policy is reported as
  `policy_divergence`.
* `norms.py`: `enforcement` is not looked at; `transparency_checkpoints_enabled`
  is no field of `VillagePolicy` and is lost on apply; `bool("false")` is True;
  `norms compile` does not catch the `ValueError` of `int("x")`.
* `action_decisions.py`: `None in "text"` raises and leaves no receipt; an empty
  `expected_path` satisfies the validation (`action_decisions.py:38-42`) and then
  counts as none (`151`), so `eq` with it permits exactly when the fact is missing;
  so does `in` a list with a null; the digest of a receipt has no key.
* `trust_anchors.py`: a rotation leaves the previous key active, and revoking
  the new one brings it back; nothing verifies the signatures of entries.
* `evidence_bundle.py`: two sources of one name, or one named
  `manifest.json`, make a bundle that does not verify, as does a source that lies
  in the bundle and changes after it was hashed; `evidence-digest.json`
  is read by nobody; a missing source leaves a half-built bundle.
* `docs/policy-governance.md:20` promises an audit entry for policy changes; a
  registry import (`cli.py:643`) writes none, and reaches no other trail either.
* A compiled norm set without role requirements leaves `role_based` with
  nothing to satisfy: `norms.py:113` marks it as requiring signatures,
  `policy_updates.py:317` accepts an artifact without any.
* `docs/policy-governance.md:39` counts signers per role; a role listed twice
  for one key counts two (`policy_updates.py:303`), and nothing rejects such a
  policy. `RoleCount` and `QuorumBacked` count as the code does, and the
  instances have such a key.
* `GET /public/.../latest` (`server.py:223`) reads `store_root`, POST stores
  under `villages_root`.
* After an issuer command or an import the `policy_state` row names an older
  policy, against `docs/deploy/sqlite-backend.md:33`: `add_issuer_allow`,
  `add_issuer_block` and `registry import` save the document only.
* `reconcile.py:103` reports "retained local head because reconciliation
  detected a fork"; `cli.py:262-265` then finds that head missing among the
  remote updates and applies the latest remote one.
* A feed that returns to an earlier policy has its hash twice, and
  `paginate_updates` goes back to after the first: the pull at `cli.py:182-195`
  reads the same pages for ever.
* While the update named by `since` is rewritten, `filter_updates_since` lists
  nothing and the pull says "No updates.".
* Fetched ancestors are not verified as the received updates are
  (`cli.py:210-215` runs before `cli.py:254`); the chosen one is evaluated.
* `drift check` (`cli.py:679`) reads `head` of a manifest whose field is
  `head_policy_hash`.

## 4. Proofs

TLAPS proves the following for every value of the constants that satisfies the
assumptions in the modules (`ConstantsAssumption` and `MarkersAssumption`: the
constants have their types, markers such as `Empty` are not policies;
`QuorumAssumption`: finitely many keys; `MarkerAssumption`,
`ArtifactAssumption`: likewise; `FeedAssumption`: finitely many updates, each
named by its time and hash; `PullAssumption`; `MembershipAssumption`,
`GateAssumption`, `ClaimAssumption`, `DriftAssumption`, `FilesAssumption`: types,
and that markers are no documents or members; `ExportAssumption`: nobody is not
a caller; `PoliciesAssumption`: the rules of an action policy are a list, each
with one of the two effects that `ActionRule` allows; `AnchorsAssumption`: the
clock counts, and "no active anchor" is no anchor). TLC evaluates each of them
in the runs of its module.

| Theorem | Says | Argument |
|---|---|---|
| `VillageStoreProofs!TypeCorrect` | `[]TypeOK` | `TypeInv`: `TypeOK`, requests are well formed, and a busy job has a policy to save. Needed because `TypeOK` alone does not tell that what an issuer command saves is a policy |
| `VillageStoreProofs!AlwaysReadable` | `[]ReadableUnlessRaced` | `SaveInv`: as long as nothing raced, one process is in its window, only its handle is open, and the staging file is what its `pc` says |
| `VillageStoreProofs!HistoryIsTrue`, `EditLosesNothing`, `ReceiptKept` | the three invariants of the same condition | `TruthfulInv`: each invariant with what the handler in its window still carries; the base of its job is the live document |
| `VillageStoreProofs!RecordsAreComplete` | `[]RecordsComplete`, whatever write of a trail fails | `NestInv`, `PublishInv`, below |
| `VillageStoreProofs!ChecksStillHold` | `[]InstalledAsChecked` | `SoloInv`: without overlap one handler is busy, and until it saves the document is the one it was checked under. `RollbackInv`: a rollback holds, from its start, a policy that another request introduced |
| `VillageStoreProofs!NewestRowIsInForce` | `[]LastRowIsActive` | `NewestInv`: the handler at work holds what the last row is going to say |
| `VillageStoreProofs!WithoutOverlapKeepsPromise` | `Spec /\ []~overlapped` implies the safety of `PolicyLedger` | `GenuineInv` and one lemma for each action: which step of `PolicyLedger` it is, or that it is none |
| `VillageStoreProofs!OneProcessKeepsPromise` | the same for one process, without condition | its requests cannot overlap |
| `PolicyArtifactProofs!TypeCorrect` | `[]TypeOK` | `Inv` |
| `PolicyArtifactProofs!AdmittedIsSigned` | whatever a node applies was signed by a quorum | `Genuine`: every signature in a file or a job was really made; a signature that verifies is over the payload as it stands; so the counted keys have signed it |
| `PolicyArtifactProofs!QuorumIsBacked` | `[]QuorumBacked`, for any rules, keys that list a role twice and negative weights included | the above; the keys that sign are themselves the ones the property asks for (`QuorumIsEnough`) |
| `PolicyPullProofs!TypeCorrect`, `PagingIsComplete`, `EveryGapIsNamed`, `FollowersKeepUp`, `NoStepBack` | the five invariants of `pull_pages` | `PullInv`, below |
| `PolicyArtifactProofs!SigningIsSafe` | `[]SigningKeepsAcceptance` | `SignJobs`: a `sign-add` job holds what `AddSignature` makes of its base; where no key has two entries all signers stay (`MoreSigners`), and more signers of whom the new ones take no weight away are a quorum if fewer are (`QuorumMonotone`) |
| `PolicyArtifactProofs!NobodysWorkIsLost` | `[]WorkAccumulates` | `LoggedInv`: a state in a file or in a job has its events behind it. `ListInv`: what the list of a file names is signed in it, or in the job that has it open |
| `HttpGateProofs!AuthorizeIsAtomic`, `NoListedTokenSurvives` | `[]AnswerWasTrue`, `[]ListedAreRevoked` | `MemberInv`, below |
| `HttpGateProofs!LimiterKeepsLimit` | `[]WithinLimit` | `LimiterInv`: a client's bucket of this minute counts at least what got through, and a client without one has got nothing through |
| `HttpGateProofs!MembersKeepAToken` | `[]KeepsAToken` | `KeepInv`: a rotation lists tokens that stood before its own row, so the newest row is revoked by nobody who is not about to add another |
| `ClaimStoreProofs!TypeCorrect` | `[]TypeOK` | one lemma for each action |
| `ClaimStoreProofs!StoredBundlesAreIndexed`, `BundlesAreIngestedOnce` | `[]StoredIsIndexed`, `[]IngestedOnce` | `IngestInv`: at most one ingestion of a bundle is under way unless two raced, and how far it is tells what index and table hold |
| `ClaimStoreProofs!StoredBundlesAreWhole` | `[]StoredIsWhole` | `WholeInv`: an empty file has somebody who will fill it |
| `ClaimStoreProofs!SubmissionsAreDecidedOnce` | `[]DecidedOnce` | `DecideInv`: two callers at one file are crowded, and after a verdict nobody is at the file and the file is gone |
| `ClaimStoreProofs!NoDocumentVanishes` | `[]NothingVanishes` | `KeptInv` over `WholeInv`: whoever is about to unlink the file relies on a copy that is whole, stored or rejected. `EarlierInv`: a document given before that is no longer in the file is stored, or has its rejected copy, and only the overwriting or the shared death that `spoilt` names takes that away |
| `AuditExportProofs!ExportsAreFaithful` | `[]ExportFaithful` | `FilterInv`, `LoneInv`, below |
| `AuditExportProofs!SealsMatch` | `[]SealMatches` | `SealInv`: the digest in hand is of the text in hand, and what a lone exporter has signed is what it wrote |
| `AuditExportProofs!NobodyWaitsForever` | `[]SomebodyGoesOn` | `LocksInv`: a lock has the holder its steps say; who holds the log's lock waits for none, so at the end of the wait there is one who goes on |
| `CheckpointDriftProofs!CheckpointsAreTrue`, `ClassesAreTrue` | `[]CheckpointsTrue`, `[]ClassIsTrue` | `PointsInv`: every checkpoint that verifies is of an initial piece of its node's log (`Honest`), and of all of it where the log was up to date (`UpToDate`) |
| `GovernanceProofs!EveryNormIsInForce`, `NoDifferenceIsNoEffect` | `[]EveryNormHolds`, `[]NoDifferenceNoEffect` | `IInv`, below |
| `GovernanceProofs!ReceiptsTellTheTruth` | `[]VerifiedReceiptIsTrue` | `DecisionsInv`: the reasons collected are those of the rules that an evaluation has come past; a changed receipt keeps its identifier, which says what was decided |
| `GovernanceProofs!FactsAreNotMissed` | `[]MissingNeverPermits` | `RuleIsMonotone`: a rule that holds of fewer facts holds of all of them and does not raise, unless it is one that `AbsenceCanPass` names |
| `GovernanceProofs!RevokedStaysRevoked` | `[]InspectionIsRight` | `AnchorsInv`: what an inspection knew of is read or still to be read, unless written again; of the entries of one key there is a last (`LastOfKey`) |
| `GovernanceProofs!LoneBundlesVerify` | `[]BuiltAloneVerifies` | `EvidenceInv`: while a lone builder builds, the files that it has hashed stay as they were, unless touched by somebody else, and nobody else is building |

`MemberInv`: the first theorem needs that a check still to be answered has
`seen` what it is about to say. Rows never change and revocations only grow, so
a token found unrevoked was valid then if its row was there, and a token
without a row when the rows are read had none when the revocations were
(`RevokedHadRow` is what relates the two files).

`IInv` is an induction over the rules compiled so far, whose
set (`Seen`) determines the policy: every rule in it converts and is in force,
no two contradict, and what is in force is of such a rule or of the base. Two
files without a difference have equal rule sets up to Python's equality, and
equal values convert alike (`EqualEuclidean` and the lemmas after it).

`PullInv` adds to the types what a pull is in at each step (`Sound`). The heart
is the step `page`: every update still to come is after the update that the
cursor names, and that update is one the peer offers, readable or torn
(`Offered` never shrinks). A page is an initial piece of what remains
(`PolicyPullProofs!PageIsFirst`), so this holds again after it, and when nothing
remains nothing was missed. In `fill`, every parent is known, given up or
wanted, and nothing known is wanted. That a set of updates has a first and a
last one, on which the choice rests, is `PolicyPullProofs!OldestIs` and
`LatestIs`: of a finite set take the update with the fewest others before it.
A lemma for one pull (`OnePull`) and one for posts (`PostingOK`) leave each
action only its own pull to look at.

`SigningIsSafe` holds for all three models because more signers never count less,
unless they take weight away. The sums of weights and roles are written as the size
of a union (`Brought`: what each signer brings, paired with the signer), so that a
larger set of signers gives a larger union and no induction over them is needed; a
weight is what its keys bring less what they take away. Nothing is assumed of the
rules: a key may list a role twice, and then counts twice, as in the code (3.4).

`NestInv` says where a request stands between its save and its last row: the
rows a handler carries are those the earlier trails have (a mirror row repeats
an audit row, an audit row a history row), and an act that took effect is
recorded, still to be recorded by a handler that is alive, or met a fault
(`Due`). The trails only grow, so what overlapping handlers append disturbs none
of it; this is why `RecordsAreComplete` needs no condition on overlap.
A transparency entry whose append failed is missing for good: that request is one
that met a fault, so its row in the tables needs no entry in the log, and no other
request's row does without. `PublishInv` does the same for the artifact that a
`POST` leaves in the feed of the village that the artifact names.

The refinement maps a save to the step that owes an entry and a history row to
the step that enters it. A save is allowed only when the update was acceptable
to the policy it replaces, and that is `SoloInv`, which needs the absence of
overlap; TLC shows with two processes that without it the refinement fails.

`FilterInv`: the filtered file with its writer's buffer behind it is an
initial piece of the rows of the village, and only the holder of the log's lock
adds to it. `LoneInv` carries the length the log had when an export began alone.
That an appended row leaves all earlier rows of a village what and where they
were is `Ranks` and `OursGrows`.

Two attempts at proofs changed the models. `~raced` could not be used for
`WorkAccumulates` because no state of interest satisfied it: a sign-add to
another path raced with everything. `listed` and `inPlace` say what is meant.
And `Class` was a CASE with arms that overlap, which TLA+ reads as any of them and
`drift_classes.py` as the first; it is IF and ELSE now.

*Only model-checked*: the liveness of `KeepsPromise` (its safety is proved) and
`PullEnds`, which rest on fairness and are out of the prover's reach, as is what
the recursive library functions and the folds compute for every input.

## 5. Abstractions, and what is not modelled

* A process dies; the machine does not. After power loss a renamed file may be
  empty; the code never calls `fsync`, and the model has no disk below the
  file system.
* The append of one row is one write: it succeeds, or raises and writes
  nothing. In `CheckpointDrift` one that fails may leave half a line. A SQLite
  transaction is atomic.
* `Crash` stands for an `OSError` in `save_village` too, which ends the request
  at the same place.
* The issuer lists are sets. The code's lists may hold duplicates after
  repeated blocks, which no reader can tell.
* Signature entries are a list for each key; the order of entries of different
  keys does not reach any result.
* Receipts and events with the same name and second are not told apart.
* The other village fields (name, retention, members) never change here.
* The claims of a bundle are appended in one write.
* The hash of a document is the document; HMAC and Ed25519 signatures are what
  they promise. The digest of an action receipt is a hash without a key, so the
  model says what verifies, not who made it.
* Weights are whole numbers of some unit, of either sign. The code adds floats;
  their rounding is not modelled.
* The paths of an action policy lead to single values of the facts, not to
  objects in them, and two lists are compared for equality only.
* Severities, notes, report files, HTML and CSV layout are formatting.
* The sources of an evidence bundle have distinct names (3.4).

*Not modelled*: the capability manifest, keys, policy diff, models, derivation,
validation, the SDK, the remote client and the scripts compute from one input
and keep no state, so there is nothing to interleave. `registry compare` and
`registry export` read and format. `cli.py` beyond the commands above prints
what these functions return. `src/` and `upstream/` inside the repository are
older copies.

## 6. Plan

Every invariant that a run checks is proved, and so is the safety of
`KeepsPromise`. What could follow is driven by the code: should it come to lock the
village document, `raced` and `overlapped` can go from the invariants of
`VillageStore`; should it reject a role listed twice or an `expected_path` that is
empty, `SignatureRules` and `ValidRule` can say so. The remote client and the
capability manifest are next to be modelled if they come to keep state.
