----------------------------- MODULE ClaimStore -----------------------------
(***************************************************************************)
(* Claim bundles on their way into the store: links/quarantine.py and      *)
(* links/store.py.  A submission is put under quarantine/, and is later    *)
(* approved (ingested into bundles/, the claims index and SQLite, then     *)
(* removed from quarantine/) or rejected (copied to rejected/, then        *)
(* removed).  No step takes a lock, but for the append to the index.       *)
(*                                                                         *)
(* Path.write_text opens (and so empties) the file and then writes: two    *)
(* steps, and the handle stays with the file when it is renamed or         *)
(* removed in between.  ClaimBundle has no field village_id, so that in    *)
(* approve_quarantine and ingest_bundle_file it is always None: the policy *)
(* re-check, the quota and the denial artifacts never happen, and every    *)
(* bundle is stored under bundles/ itself.                                 *)
(***************************************************************************)
EXTENDS Naturals

CONSTANTS
    Procs,        \* callers of the library
    Files,        \* names under quarantine/, the village's directory included
    Docs,         \* bundles, with their signatures
    Genuine,      \* those that verify_bundle accepts
    Ids,          \* bundle_id
    IdOf,         \* the bundle_id of a bundle: a hash of it without key and signature
    None          \* no document

ASSUME ClaimAssumption ==
    /\ Genuine \subseteq Docs
    /\ IdOf \in [Docs -> Ids]
    /\ {"absent", "empty", "mixed"} \cap Docs = {}
    /\ None \notin Docs \cup Files

VARIABLES
    quarantine,   \* what each file of quarantine/ holds
    rejected,     \* and of rejected/
    staged,       \* and bundles/<id>.json.tmp
    stored,       \* and bundles/<id>.json
    index,        \* how often the claims of a bundle are in index/claims.jsonl
    table,        \* the bundles in bundle_store, with their rows in claims_index
    sqlite,       \* whether SQLite is enabled
    job,          \* what each caller is doing
    succeeded,    \* history: how many ingestions of a bundle were reported done
    raced,        \* history: bundles that two callers found missing at the same time
    broken,       \* history: bundles an ingestion of which died or raised half-way
    halved,       \* history: bundles two ingestions of which ran together and one died
    crowded,      \* history: callers whose file another caller has worked on meanwhile
    kept,         \* history: the document a file was last given, by a caller not crowded
    given,        \* history: every document a file was given so
    spoilt,       \* history: those of them that a later document under that name has
                  \* overwritten, or whose file or bundle a caller shared that died
    verdicts      \* history: what callers not crowded decided of it

disk == <<quarantine, rejected, staged, stored, index, table, sqlite>>
histories == <<succeeded, raced, broken, halved, crowded, kept, given, spoilt, verdicts>>
vars == <<disk, job, histories>>

Content == Docs \cup {"absent", "empty", "mixed"}
Job == [op   : {"none", "submit", "approve", "ingest", "reject"},
        pc   : {"idle", "fill", "read", "exists", "stage", "fill staged", "replace", "index",
                "table", "copy", "fill copy", "unlink"},
        file : Files \cup {None},
        doc  : Content,     \* what it is writing, or has read
        into : {"none", "file", "staged", "stored", "gone"}] \* where its open file is
Idle == [op |-> "none", pc |-> "idle", file |-> None, doc |-> "absent", into |-> "none"]

\* What a file may hold after a write to it: if somebody else wrote since it was
\* emptied, the longer of two texts sticks out.  Two bundles with one id differ in
\* key and signature only, which are of one length.
Written(old, doc) ==
    {doc} \cup IF old = "empty" \/ (old \in Docs /\ doc \in Docs /\ IdOf[old] = IdOf[doc])
               THEN {} ELSE {"mixed"}

\* The steps of an ingestion once its bundle is read.
Storing == {"exists", "stage", "fill staged", "replace", "index", "table"}
\* A caller is storing a bundle that it found missing.
Ingesting(p, i) == /\ job[p].op \in {"approve", "ingest"}
                   /\ job[p].doc \in Docs
                   /\ IdOf[job[p].doc] = i
                   /\ job[p].pc \in Storing \ {"exists"}

\* The callers that are at a file when p turns to it.
Others(p, f) == {q \in Procs \ {p} : job[q].file = f}
Crowd(p, f) == IF Others(p, f) = {} THEN crowded ELSE crowded \cup {p} \cup Others(p, f)

-----------------------------------------------------------------------------
(* quarantine_bundle *)

OpenFile(p, f, d) ==
    /\ job[p].pc = "idle"
    /\ quarantine' = [quarantine EXCEPT ![f] = "empty"]
    /\ job' = [job EXCEPT ![p] = [op |-> "submit", pc |-> "fill", file |-> f, doc |-> d,
                                  into |-> "file"]]
    /\ crowded' = Crowd(p, f)
    /\ kept' = [kept EXCEPT ![f] = None]
    /\ spoilt' = [spoilt EXCEPT ![f] = @ \cup ({quarantine[f]} \cap Docs)]
    /\ verdicts' = [verdicts EXCEPT ![f] = {}]
    /\ UNCHANGED <<rejected, staged, stored, index, table, sqlite, succeeded, raced, broken, halved, given>>

FillFile(p) ==
    /\ job[p].pc = "fill"
    /\ \/ /\ job[p].into = "file"
          /\ \E c \in Written(quarantine[job[p].file], job[p].doc) :
                quarantine' = [quarantine EXCEPT ![job[p].file] = c]
       \/ /\ job[p].into = "gone"
          /\ UNCHANGED quarantine
    /\ IF p \in crowded
       THEN /\ kept' = [kept EXCEPT ![job[p].file] = None]
            /\ UNCHANGED <<given, spoilt>>
       ELSE /\ kept' = [kept EXCEPT ![job[p].file] = job[p].doc]
            /\ given' = [given EXCEPT ![job[p].file] = @ \cup {job[p].doc}]
            /\ spoilt' = [spoilt EXCEPT ![job[p].file] = @ \ {job[p].doc}]
    /\ job' = [job EXCEPT ![p] = Idle]
    /\ crowded' = crowded \ {p}
    /\ UNCHANGED <<rejected, staged, stored, index, table, sqlite, succeeded, raced, broken, halved, verdicts>>

-----------------------------------------------------------------------------
(* approve_quarantine.  A file that is missing, is no bundle or is not       *)
(* genuine ends it without a trace.                                          *)

Examine(p, f) ==
    /\ job[p].pc = "idle"
    /\ quarantine[f] \in Genuine
    /\ job' = [job EXCEPT ![p] = [Idle EXCEPT !.op = "approve", !.pc = "read", !.file = f]]
    /\ crowded' = Crowd(p, f)
    /\ UNCHANGED <<disk, succeeded, raced, broken, halved, kept, given, spoilt, verdicts>>

(* ingest_bundle_file, on that file or on one from elsewhere.  It reads the  *)
(* file once more.                                                           *)

ReadAgain(p) ==
    /\ job[p].pc = "read"
    /\ LET c == quarantine[job[p].file]
       IN  \/ /\ c \in Genuine
              /\ job' = [job EXCEPT ![p].pc = "exists", ![p].doc = c]
              /\ UNCHANGED crowded
           \/ /\ c \notin Genuine
              /\ job' = [job EXCEPT ![p] = Idle]
              /\ crowded' = crowded \ {p}
    /\ UNCHANGED <<disk, succeeded, raced, broken, halved, kept, given, spoilt, verdicts>>

Ingest(p, d) ==
    /\ job[p].pc = "idle"
    /\ d \in Genuine
    /\ job' = [job EXCEPT ![p] = [Idle EXCEPT !.op = "ingest", !.pc = "exists", !.doc = d]]
    /\ UNCHANGED <<disk, histories>>

\* Mutant of CheckReplay: no look at what is stored.
CheckReplay_Not(p) ==
    /\ job[p].pc = "exists"
    /\ job' = [job EXCEPT ![p].pc = "stage"]
    /\ UNCHANGED <<disk, histories>>

\* Replay protection.
CheckReplay(p) ==
    /\ job[p].pc = "exists"
    /\ LET i == IdOf[job[p].doc]
       IN  \/ /\ stored[i] = "absent"
              /\ job' = [job EXCEPT ![p].pc = "stage"]
              /\ raced' = IF \E q \in Procs : Ingesting(q, i) THEN raced \cup {i} ELSE raced
              /\ UNCHANGED crowded
           \/ /\ stored[i] # "absent"
              /\ job' = [job EXCEPT ![p] = Idle]
              /\ crowded' = crowded \ {p}
              /\ UNCHANGED raced
    /\ UNCHANGED <<disk, succeeded, broken, halved, kept, given, spoilt, verdicts>>

\* Mutant of OpenStaged: the bundle is written where it belongs, without staging.
OpenStaged_InPlace(p) ==
    /\ job[p].pc = "stage"
    /\ stored' = [stored EXCEPT ![IdOf[job[p].doc]] = "empty"]
    /\ staged' = [staged EXCEPT ![IdOf[job[p].doc]] = "empty"]
    /\ job' = [job EXCEPT ![p].pc = "fill staged", ![p].into = "stored"]
    /\ UNCHANGED <<quarantine, rejected, index, table, sqlite, histories>>

OpenStaged(p) ==
    /\ job[p].pc = "stage"
    /\ staged' = [staged EXCEPT ![IdOf[job[p].doc]] = "empty"]
    /\ job' = [job EXCEPT ![p].pc = "fill staged", ![p].into = "staged"]
    /\ UNCHANGED <<quarantine, rejected, stored, index, table, sqlite, histories>>

\* The staging file may have become the stored one meanwhile.
FillStaged(p) ==
    /\ job[p].pc = "fill staged"
    /\ LET i == IdOf[job[p].doc]
       IN  \/ /\ job[p].into = "staged"
              /\ staged' = [staged EXCEPT ![i] = job[p].doc]
              /\ UNCHANGED stored
           \/ /\ job[p].into = "stored"
              /\ stored' = [stored EXCEPT ![i] = job[p].doc]
              /\ UNCHANGED staged
           \/ /\ job[p].into = "gone"
              /\ UNCHANGED <<staged, stored>>
    /\ job' = [job EXCEPT ![p].pc = "replace", ![p].into = "none"]
    /\ UNCHANGED <<quarantine, rejected, index, table, sqlite, histories>>

\* The handles of other callers follow their files.
Moved(j, i) ==
    IF j.doc \in Docs /\ IdOf[j.doc] = i
    THEN [j EXCEPT !.into = CASE @ = "staged" -> "stored" [] @ = "stored" -> "gone" [] OTHER -> @]
    ELSE j

\* os.replace.  It raises when another caller has renamed the staging file.
Replace(p) ==
    /\ job[p].pc = "replace"
    /\ LET i == IdOf[job[p].doc]
       IN  \/ /\ staged[i] # "absent"
              /\ stored' = [stored EXCEPT ![i] = staged[i]]
              /\ staged' = [staged EXCEPT ![i] = "absent"]
              /\ job' = [q \in Procs |-> IF q = p THEN [job[p] EXCEPT !.pc = "index"]
                                         ELSE Moved(job[q], i)]
              /\ UNCHANGED crowded
           \/ /\ staged[i] = "absent"
              /\ job' = [job EXCEPT ![p] = Idle]
              /\ crowded' = crowded \ {p}
              /\ UNCHANGED <<staged, stored>>
    /\ UNCHANGED <<quarantine, rejected, index, table, sqlite, succeeded, raced, broken, halved, kept, given, spoilt, verdicts>>

\* What a caller does once the bundle is ingested.
Ingested(p) == [job EXCEPT ![p] = IF @.op = "approve" THEN [@ EXCEPT !.pc = "unlink"] ELSE Idle]
Counted(p) == [succeeded EXCEPT ![IdOf[job[p].doc]] = @ + 1]

\* Mutant of AppendRows: with SQLite the index file is left alone.
AppendRows_Either(p) ==
    /\ job[p].pc = "index"
    /\ \/ /\ sqlite
          /\ job' = [job EXCEPT ![p].pc = "table"]
          /\ UNCHANGED <<index, succeeded>>
       \/ /\ ~ sqlite
          /\ index' = [index EXCEPT ![IdOf[job[p].doc]] = @ + 1]
          /\ job' = Ingested(p)
          /\ succeeded' = Counted(p)
    /\ UNCHANGED <<quarantine, rejected, staged, stored, table, sqlite, raced, broken, halved,
                   crowded, kept, given, spoilt, verdicts>>

\* The rows are appended under the lock of the index file.
AppendRows(p) ==
    /\ job[p].pc = "index"
    /\ index' = [index EXCEPT ![IdOf[job[p].doc]] = @ + 1]
    /\ \/ /\ sqlite
          /\ job' = [job EXCEPT ![p].pc = "table"]
          /\ UNCHANGED succeeded
       \/ /\ ~ sqlite
          /\ job' = Ingested(p)
          /\ succeeded' = Counted(p)
    /\ UNCHANGED <<quarantine, rejected, staged, stored, table, sqlite, raced, broken, halved,
                   crowded, kept, given, spoilt, verdicts>>

\* One transaction; a bundle_id that is there already makes it raise.
InsertRows(p) ==
    /\ job[p].pc = "table"
    /\ LET i == IdOf[job[p].doc]
       IN  \/ /\ i \notin table
              /\ table' = table \cup {i}
              /\ job' = Ingested(p)
              /\ succeeded' = Counted(p)
              /\ UNCHANGED crowded
           \/ /\ i \in table
              /\ job' = [job EXCEPT ![p] = Idle]
              /\ crowded' = crowded \ {p}
              /\ UNCHANGED <<table, succeeded>>
    /\ UNCHANGED <<quarantine, rejected, staged, stored, index, sqlite, raced, broken, halved, kept, given, spoilt, verdicts>>

\* The transaction fails: the database is locked or full.
InsertFails(p) ==
    /\ job[p].pc = "table"
    /\ broken' = broken \cup {IdOf[job[p].doc]}
    /\ job' = [job EXCEPT ![p] = Idle]
    /\ crowded' = crowded \ {p}
    /\ UNCHANGED <<disk, succeeded, raced, halved, kept, given, spoilt, verdicts>>

-----------------------------------------------------------------------------
(* reject_quarantine *)

\* The whole text is read first, whatever it is; a missing file raises.
BeginReject(p, f) ==
    /\ job[p].pc = "idle"
    /\ quarantine[f] # "absent"
    /\ job' = [job EXCEPT ![p] = [Idle EXCEPT !.op = "reject", !.pc = "copy", !.file = f,
                                              !.doc = quarantine[f]]]
    /\ crowded' = Crowd(p, f)
    /\ UNCHANGED <<disk, succeeded, raced, broken, halved, kept, given, spoilt, verdicts>>

\* Mutant of OpenCopy: the file is moved, removed before its copy is written.
OpenCopy_Moving(p) ==
    /\ job[p].pc = "copy"
    /\ rejected' = [rejected EXCEPT ![job[p].file] = "empty"]
    /\ quarantine' = [quarantine EXCEPT ![job[p].file] = "absent"]
    /\ job' = [job EXCEPT ![p].pc = "fill copy"]
    /\ UNCHANGED <<staged, stored, index, table, sqlite, histories>>

\* The documents of which rejected/ has a copy under a name, or is being given one.
Copies(f) == {d \in Docs : \/ rejected[f] = d
                           \/ \E q \in Procs : /\ job[q].file = f
                                               /\ job[q].pc = "fill copy"
                                               /\ job[q].doc = d}

\* The copy of an earlier document of that name is overwritten.
OpenCopy(p) ==
    /\ job[p].pc = "copy"
    /\ rejected' = [rejected EXCEPT ![job[p].file] = "empty"]
    /\ job' = [job EXCEPT ![p].pc = "fill copy"]
    /\ spoilt' = [spoilt EXCEPT ![job[p].file] = @ \cup (Copies(job[p].file) \ {kept[job[p].file]})]
    /\ UNCHANGED <<quarantine, staged, stored, index, table, sqlite, succeeded, raced, broken, halved,
                   crowded, kept, given, verdicts>>

FillCopy(p) ==
    /\ job[p].pc = "fill copy"
    /\ \E c \in IF job[p].doc = "empty" THEN {rejected[job[p].file]}
                ELSE Written(rejected[job[p].file], job[p].doc) :
          rejected' = [rejected EXCEPT ![job[p].file] = c]
    /\ job' = [job EXCEPT ![p].pc = "unlink"]
    /\ UNCHANGED <<quarantine, staged, stored, index, table, sqlite, histories>>

\* Mutant of Unlink: an approved file stays where it was.
Unlink_RejectedOnly(p) ==
    /\ job[p].pc = "unlink"
    /\ quarantine' = IF job[p].op = "reject" THEN [quarantine EXCEPT ![job[p].file] = "absent"]
                     ELSE quarantine
    /\ verdicts' = [verdicts EXCEPT ![job[p].file] = IF p \in crowded THEN @ ELSE @ \cup {job[p].op}]
    /\ job' = [job EXCEPT ![p] = Idle]
    /\ crowded' = crowded \ {p}
    /\ UNCHANGED <<rejected, staged, stored, index, table, sqlite, succeeded, raced, broken, halved,
                   kept, given, spoilt>>

\* The last step of approve_quarantine and of reject_quarantine: the file, if it is
\* still there, is removed and the decision is audited.
Unlink(p) ==
    /\ job[p].pc = "unlink"
    /\ quarantine' = [quarantine EXCEPT ![job[p].file] = "absent"]
    /\ verdicts' = [verdicts EXCEPT ![job[p].file] = IF p \in crowded THEN @ ELSE @ \cup {job[p].op}]
    /\ job' = [q \in Procs |->
                 IF q = p THEN Idle
                 ELSE IF job[q].file = job[p].file /\ job[q].into = "file"
                 THEN [job[q] EXCEPT !.into = "gone"] ELSE job[q]]
    /\ crowded' = crowded \ {p}
    /\ UNCHANGED <<rejected, staged, stored, index, table, sqlite, succeeded, raced, broken, halved,
                   kept, given, spoilt>>

-----------------------------------------------------------------------------
\* The documents of a file that the death of p may destroy, though others go on: p is
\* not alone with the file, or with the bundle in the store.
Endangered(p, f) ==
    {d \in Docs : \/ p \in crowded /\ job[p].file = f /\ d \in {kept[f], job[p].doc}
                  \/ \E e \in Docs : job[p].doc = e /\ IdOf[e] = IdOf[d] /\ IdOf[e] \in raced}

\* A caller dies between two steps.  A bundle it has put in the store stays without
\* rows; what others did to the same file or bundle may be left half done.
Die(p) ==
    /\ job[p].pc # "idle"
    /\ broken' = broken \cup {IdOf[d] : d \in {d \in Docs : job[p].doc = d /\ job[p].pc \in {"index", "table"}}}
    /\ halved' = halved \cup {i \in raced : Ingesting(p, i)}
    /\ kept' = [f \in Files |-> IF kept[f] \in Endangered(p, f) THEN None ELSE kept[f]]
    /\ spoilt' = [f \in Files |-> spoilt[f] \cup Endangered(p, f)]
    /\ job' = [job EXCEPT ![p] = Idle]
    /\ crowded' = crowded \ {p}
    /\ UNCHANGED <<disk, succeeded, raced, given, verdicts>>

Init ==
    /\ quarantine = [f \in Files |-> "absent"]
    /\ rejected = [f \in Files |-> "absent"]
    /\ staged = [i \in Ids |-> "absent"]
    /\ stored = [i \in Ids |-> "absent"]
    /\ index = [i \in Ids |-> 0]
    /\ table = {}
    /\ sqlite \in BOOLEAN
    /\ job = [p \in Procs |-> Idle]
    /\ succeeded = [i \in Ids |-> 0]
    /\ raced = {}
    /\ broken = {}
    /\ halved = {}
    /\ crowded = {}
    /\ kept = [f \in Files |-> None]
    /\ given = [f \in Files |-> {}]
    /\ spoilt = [f \in Files |-> {}]
    /\ verdicts = [f \in Files |-> {}]

Next ==
    \E p \in Procs :
        \/ \E f \in Files : (\E d \in Docs : OpenFile(p, f, d)) \/ Examine(p, f) \/ BeginReject(p, f)
        \/ FillFile(p)
        \/ ReadAgain(p)
        \/ \E d \in Docs : Ingest(p, d)
        \/ CheckReplay(p)
        \/ OpenStaged(p)
        \/ FillStaged(p)
        \/ Replace(p)
        \/ AppendRows(p)
        \/ InsertRows(p)
        \/ InsertFails(p)
        \/ OpenCopy(p)
        \/ FillCopy(p)
        \/ Unlink(p)
        \/ Die(p)

Spec == Init /\ [][Next]_vars

-----------------------------------------------------------------------------
(* Properties *)

\* What a caller is doing fits the file and the document it has.
JobFits(j) ==
    /\ j.pc = "idle" <=> j.op = "none"
    /\ j.op \in {"submit", "approve", "reject"} => j.file \in Files
    /\ j.op \in {"none", "ingest"} => j.file = None
    /\ j.pc = "fill" => j.op = "submit" /\ j.doc \in Docs /\ j.into \in {"file", "gone"}
    /\ j.pc = "read" => j.op = "approve"
    /\ j.pc \in Storing => j.op \in {"approve", "ingest"} /\ j.doc \in Genuine
    /\ j.pc \in {"copy", "fill copy"} => j.op = "reject"
    /\ j.pc = "unlink" => j.op \in {"approve", "reject"}
    /\ j.op = "submit" => j.pc = "fill"
    /\ j.pc = "fill staged" => j.into \in {"staged", "stored", "gone"}
    /\ j.into # "none" => j.pc \in {"fill", "fill staged"}

\* Types of the files, of the callers and of the histories.
TypeOK ==
    /\ quarantine \in [Files -> Content] /\ rejected \in [Files -> Content]
    /\ staged \in [Ids -> Content] /\ stored \in [Ids -> Content]
    /\ index \in [Ids -> Nat] /\ succeeded \in [Ids -> Nat]
    /\ table \subseteq Ids /\ raced \subseteq Ids /\ broken \subseteq Ids
    /\ halved \subseteq Ids
    /\ sqlite \in BOOLEAN
    /\ job \in [Procs -> Job]
    /\ \A p \in Procs : JobFits(job[p])
    /\ crowded \subseteq Procs
    /\ kept \in [Files -> Docs \cup {None}]
    /\ given \in [Files -> SUBSET Docs] /\ spoilt \in [Files -> SUBSET Docs]
    /\ verdicts \in [Files -> SUBSET {"approve", "reject"}]

\* A bundle that is in bundles/ has its claims in the index, and in SQLite where that
\* is enabled, as soon as no ingestion of it is under way: unless one died or was
\* refused by the database after it had stored the bundle, when the replay check
\* keeps every later one from making up for it.
StoredIsIndexed ==
    \A i \in Ids :
        \/ stored[i] = "absent"
        \/ i \in broken
        \/ \E p \in Procs : Ingesting(p, i) /\ job[p].pc \in {"index", "table"}
        \/ index[i] > 0 /\ (sqlite => i \in table)

\* Replay protection: with SQLite an ingestion of a bundle is reported done once at
\* most, however many run at the same time; and without it, and in the index file,
\* a bundle counts twice only when two ingestions of it found it missing.
IngestedOnce ==
    \A i \in Ids : /\ sqlite => succeeded[i] <= 1
                   /\ i \in raced \/ index[i] <= 1

\* What bundles/ holds under an id is a genuine bundle of that id, whole: at every
\* moment when one caller stores it, and at the end when several shared the staging
\* file, unless one of those died.
StoredIsWhole ==
    \A i \in Ids :
        \/ stored[i] \in {"absent"} \cup {d \in Genuine : IdOf[d] = i}
        \/ i \in halved
        \/ i \in raced /\ \E p \in Procs : Ingesting(p, i)

\* A document that was put in quarantine by a caller that had the file to itself is
\* not lost: it is in quarantine, in rejected/ or, by its id, in the store, or is
\* being copied; whatever crashes, and however often the name is used again.  Three
\* things do destroy it: a submission under the same name while it waits (write_text
\* empties the file), the rejection of a later one once it is in rejected/ only, and
\* the death of a caller that shared its file or its bundle with another.
NothingVanishes ==
    \A f \in Files : \A d \in given[f] \ spoilt[f] :
        \/ d \in {quarantine[f], rejected[f]}
        \/ stored[IdOf[d]] \in {e \in Docs : IdOf[e] = IdOf[d]}
        \/ \E p \in Procs : \/ job[p].doc = d /\ job[p].file = f /\ job[p].pc = "fill copy"
                            \/ IdOf[d] \in raced /\ Ingesting(p, IdOf[d])

\* A submission is approved or rejected, once: both are reported only when the two
\* decisions were taken at the same time.
DecidedOnce == \A f \in Files : verdicts[f] # {"approve", "reject"}
=============================================================================
