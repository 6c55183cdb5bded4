---------------------------- MODULE AuditExport ----------------------------
(***************************************************************************)
(* The audit log of a node and its export for one village: audit.py,       *)
(* file_lock.py, audit_export.py, GET /villages/{id}/audit/export in       *)
(* server.py and `links audit export` in cli.py.                           *)
(*                                                                         *)
(* locked_open opens the file (with mode "w" that empties it), then takes  *)
(* the lock, and at the end releases the lock before it closes the file.   *)
(* Python writes what does not fit its buffer at once, and what fits when  *)
(* the file is closed: so a long row reaches the log under the lock, and a *)
(* row of the usual length after the lock is released, beside whatever     *)
(* holds it by then.                                                       *)
(*                                                                         *)
(* An export holds the lock of the log while it filters it into a file     *)
(* that all exports of the village share, reads that file back, writes     *)
(* what it read, and writes the digest and the signature beside it.        *)
(***************************************************************************)
EXTENDS Naturals, Sequences, SequencesExt

CONSTANTS
    Procs,        \* callers: requests and commands
    Formats,      \* of an export: "json", "csv"
    MaxRows,      \* bound: rows ever written to the log
    MaxExports,   \* bound: exports
    MaxDeaths,    \* bound: callers that die
    NoOne         \* nobody holds the lock, none of Procs

\* Nobody is not one of the callers.
ASSUME ExportAssumption == NoOne \notin Procs

VARIABLES
    log,          \* audit.log.jsonl: rows
    logLock,      \* who holds the lock of the log
    filtered,     \* audit.filtered.jsonl: rows
    filteredLock, \* who holds its lock
    data,         \* the exported file of each format
    sha,          \* and beside it the digest
    sig,          \* and the signature of the digest
    job,          \* what each caller is doing
    rows,         \* how many rows callers have begun to write
    exports,      \* how many exports they have begun
    deaths,       \* how many callers have died
    stale         \* history: formats whose last export was unsigned, cut off or not alone

files == <<log, filtered, data, sha, sig>>
locks == <<logLock, filteredLock>>
counters == <<rows, exports, deaths>>
vars == <<files, locks, job, counters, stale>>

\* A row is [n, ours]: its number, and whether it is of the village that is exported.
\* What is in a file:
Absent == [state |-> "absent"]
Empty == [state |-> "empty"]
Mixed == [state |-> "mixed"]
Whole(s) == [state |-> "whole", events |-> s]

\* A caller at rest.
Idle == [op |-> "none", pc |-> "idle"]
Writing(p) == job[p].op = "write"
Exporting(p) == job[p].op = "export"
Goto(p, pc) == job' = [job EXCEPT ![p].pc = pc]

\* The rows of the village in a log, in order: the i-th is the one that has i of them
\* up to it.
Ours(s) == LET at == {k \in 1..Len(s) : s[k].ours}
               upTo(k) == Cardinality({j \in at : j <= k})
           IN  [i \in 1..Cardinality(at) |-> s[CHOOSE k \in at : upTo(k) = i]]

-----------------------------------------------------------------------------
(* write_audit *)

BeginWrite(p, ours, long) ==
    /\ job[p] = Idle
    /\ rows < MaxRows
    /\ rows' = rows + 1
    /\ job' = [job EXCEPT ![p] = [op |-> "write", pc |-> "lock", row |-> [n |-> rows + 1, ours |-> ours],
                                  long |-> long]]
    /\ UNCHANGED <<files, locks, exports, deaths, stale>>

\* Take the lock of the log, and write the row: into the buffer, if it fits.
LockToWrite(p) ==
    /\ Writing(p) /\ job[p].pc = "lock"
    /\ logLock = NoOne
    /\ logLock' = p
    /\ log' = IF job[p].long THEN Append(log, job[p].row) ELSE log
    /\ Goto(p, "unlock")
    /\ UNCHANGED <<filtered, data, sha, sig, filteredLock, counters, stale>>

UnlockWritten(p) ==
    /\ Writing(p) /\ job[p].pc = "unlock"
    /\ logLock' = NoOne
    /\ Goto(p, "close")
    /\ UNCHANGED <<files, filteredLock, counters, stale>>

\* Close the file: what is in the buffer is written.
CloseWritten(p) ==
    /\ Writing(p) /\ job[p].pc = "close"
    /\ log' = IF job[p].long THEN log ELSE Append(log, job[p].row)
    /\ job' = [job EXCEPT ![p] = Idle]
    /\ UNCHANGED <<filtered, data, sha, sig, locks, counters, stale>>

-----------------------------------------------------------------------------
(* The export: the log is filtered under its lock. *)

BeginExport(p, fmt, sign) ==
    /\ job[p] = Idle
    /\ log # <<>>
    /\ exports < MaxExports
    /\ exports' = exports + 1
    /\ LET alone == \A q \in Procs : ~ Exporting(q)
           mine == [op |-> "export", pc |-> "lock log", fmt |-> fmt, sign |-> sign, alone |-> alone,
                    before |-> DOMAIN log, buffer |-> <<>>, events |-> <<>>, digest |-> Absent]
       IN  job' = [q \in Procs |-> IF q = p THEN mine
                                   ELSE IF Exporting(q) THEN [job[q] EXCEPT !.alone = FALSE]
                                   ELSE job[q]]
    /\ UNCHANGED <<files, locks, rows, deaths, stale>>

LockLog(p) ==
    /\ Exporting(p) /\ job[p].pc = "lock log"
    /\ logLock = NoOne
    /\ logLock' = p
    /\ Goto(p, "open filtered")
    /\ UNCHANGED <<files, filteredLock, counters, stale>>

\* The file is emptied, whoever holds its lock.
OpenFiltered(p) ==
    /\ Exporting(p) /\ job[p].pc = "open filtered"
    /\ filtered' = <<>>
    /\ Goto(p, "lock filtered")
    /\ UNCHANGED <<log, data, sha, sig, locks, counters, stale>>

\* Under both locks the log is read and filtered, and some of it is written.
Filter(p) ==
    /\ Exporting(p) /\ job[p].pc = "lock filtered"
    /\ filteredLock = NoOne
    /\ filteredLock' = p
    /\ \E k \in 0..Len(Ours(log)) :
          /\ filtered' = filtered \o SubSeq(Ours(log), 1, k)
          /\ job' = [job EXCEPT ![p].pc = "unlock filtered",
                                ![p].buffer = SubSeq(Ours(log), k + 1, Len(Ours(log)))]
    /\ UNCHANGED <<log, data, sha, sig, logLock, counters, stale>>

\* Mutant of UnlockFiltered: the export reads the filtered file back while it still
\* has it open.
UnlockFiltered_Late(p) ==
    /\ Exporting(p) /\ job[p].pc = "unlock filtered"
    /\ Goto(p, "read")
    /\ UNCHANGED <<files, locks, counters, stale>>

UnlockFiltered(p) ==
    /\ Exporting(p) /\ job[p].pc = "unlock filtered"
    /\ filteredLock' = NoOne
    /\ Goto(p, "close filtered")
    /\ UNCHANGED <<files, logLock, counters, stale>>

\* Mutant of CloseFiltered: the file stays open, and keeps what is in its buffer.
CloseFiltered_Open(p) ==
    /\ Exporting(p) /\ job[p].pc = "close filtered"
    /\ job' = [job EXCEPT ![p].pc = "unlock log", ![p].buffer = <<>>]
    /\ UNCHANGED <<files, locks, counters, stale>>

\* Close the filtered file, which writes the rest, and only then release the log.
CloseFiltered(p) ==
    /\ Exporting(p) /\ job[p].pc = "close filtered"
    /\ filtered' = filtered \o job[p].buffer
    /\ job' = [job EXCEPT ![p].pc = "unlock log", ![p].buffer = <<>>]
    /\ UNCHANGED <<log, data, sha, sig, locks, counters, stale>>

UnlockLog(p) ==
    /\ Exporting(p) /\ job[p].pc = "unlock log"
    /\ logLock' = NoOne
    /\ Goto(p, "read")
    /\ UNCHANGED <<files, filteredLock, counters, stale>>

-----------------------------------------------------------------------------
(* export_audit_json and export_audit_csv *)

\* iter_audit_events reads the filtered file under its lock, a buffer at a time;
\* it may be emptied and written again meanwhile.
ReadSome(p) ==
    /\ Exporting(p) /\ job[p].pc = "read"
    /\ filteredLock = NoOne
    /\ filteredLock' = p
    /\ \E k \in 0..Len(filtered) :
          job' = [job EXCEPT ![p].pc = "read on", ![p].events = SubSeq(filtered, 1, k)]
    /\ UNCHANGED <<files, logLock, counters, stale>>

ReadOn(p) ==
    /\ Exporting(p) /\ job[p].pc = "read on"
    /\ filteredLock' = NoOne
    /\ LET k == Len(job[p].events)
       IN  job' = [job EXCEPT ![p].pc = "open", ![p].events = @ \o SubSeq(filtered, k + 1, Len(filtered))]
    /\ UNCHANGED <<files, logLock, counters, stale>>

\* The exported file is emptied and written.
OpenData(p) ==
    /\ Exporting(p) /\ job[p].pc = "open"
    /\ data' = [data EXCEPT ![job[p].fmt] = Empty]
    /\ stale' = stale \cup {job[p].fmt}
    /\ Goto(p, "fill")
    /\ UNCHANGED <<log, filtered, sha, sig, locks, counters>>

\* What is in the file after a shorter text is written over a longer one.
Over(old, s) == CASE old.state = "whole" /\ Len(old.events) > Len(s) -> {Mixed}
                  [] old.state = "mixed" -> {Mixed, Whole(s)}
                  [] OTHER -> {Whole(s)}

\* Mutant of FillData: the digest is taken of the file in either format.
FillData_Reread(p) ==
    /\ Exporting(p) /\ job[p].pc = "fill"
    /\ \E c \in Over(data[job[p].fmt], job[p].events) : data' = [data EXCEPT ![job[p].fmt] = c]
    /\ Goto(p, "read back")
    /\ UNCHANGED <<log, filtered, sha, sig, locks, counters, stale>>

\* The digest of JSON is of the text that is written; that of CSV is of what is in
\* the file afterwards.
FillData(p) ==
    /\ Exporting(p) /\ job[p].pc = "fill"
    /\ \E c \in Over(data[job[p].fmt], job[p].events) : data' = [data EXCEPT ![job[p].fmt] = c]
    /\ IF job[p].fmt = "json"
       THEN job' = [job EXCEPT ![p].pc = IF job[p].sign THEN "digest" ELSE "done",
                               ![p].digest = Whole(job[p].events)]
       ELSE Goto(p, "read back")
    /\ UNCHANGED <<log, filtered, sha, sig, locks, counters, stale>>

ReadBack(p) ==
    /\ Exporting(p) /\ job[p].pc = "read back"
    /\ job' = [job EXCEPT ![p].pc = IF job[p].sign THEN "digest" ELSE "done",
                          ![p].digest = data[job[p].fmt]]
    /\ UNCHANGED <<files, locks, counters, stale>>

-----------------------------------------------------------------------------
(* Signing, and the answer *)

WriteDigest(p) ==
    /\ Exporting(p) /\ job[p].pc = "digest"
    /\ sha' = [sha EXCEPT ![job[p].fmt] = job[p].digest]
    /\ Goto(p, "sign")
    /\ UNCHANGED <<log, filtered, data, sig, locks, counters, stale>>

WriteSignature(p) ==
    /\ Exporting(p) /\ job[p].pc = "sign"
    /\ sig' = [sig EXCEPT ![job[p].fmt] = job[p].digest]
    /\ stale' = IF job[p].alone THEN stale \ {job[p].fmt} ELSE stale
    /\ Goto(p, "done")
    /\ UNCHANGED <<log, filtered, data, sha, locks, counters>>

\* The answer has the number of events and the digest.
Answer(p) ==
    /\ Exporting(p) /\ job[p].pc = "done"
    /\ job' = [job EXCEPT ![p] = Idle]
    /\ UNCHANGED <<files, locks, counters, stale>>

\* A caller dies: its locks are released and its buffers are lost.
Die(p) ==
    /\ job[p] # Idle
    /\ deaths < MaxDeaths
    /\ deaths' = deaths + 1
    /\ job' = [job EXCEPT ![p] = Idle]
    /\ logLock' = IF logLock = p THEN NoOne ELSE logLock
    /\ filteredLock' = IF filteredLock = p THEN NoOne ELSE filteredLock
    /\ UNCHANGED <<files, rows, exports, stale>>

Init ==
    /\ log = <<>> /\ filtered = <<>>
    /\ logLock = NoOne /\ filteredLock = NoOne
    /\ data = [f \in Formats |-> Absent]
    /\ sha = [f \in Formats |-> Absent]
    /\ sig = [f \in Formats |-> Absent]
    /\ job = [p \in Procs |-> Idle]
    /\ rows = 0 /\ exports = 0 /\ deaths = 0
    /\ stale = {}

Write(p) ==
    \/ \E ours, long \in BOOLEAN : BeginWrite(p, ours, long)
    \/ LockToWrite(p) \/ UnlockWritten(p) \/ CloseWritten(p)

Export(p) ==
    \/ \E fmt \in Formats, sign \in BOOLEAN : BeginExport(p, fmt, sign)
    \/ LockLog(p) \/ OpenFiltered(p) \/ Filter(p) \/ UnlockFiltered(p) \/ CloseFiltered(p)
    \/ UnlockLog(p) \/ ReadSome(p) \/ ReadOn(p) \/ OpenData(p) \/ FillData(p) \/ ReadBack(p)
    \/ WriteDigest(p) \/ WriteSignature(p) \/ Answer(p)

Next == \E p \in Procs : Write(p) \/ Export(p) \/ Die(p)

Spec == Init /\ [][Next]_vars

-----------------------------------------------------------------------------
(* Properties *)

\* Whatever exports run together, and whoever dies: the events of an export are the
\* first so many of the village's in the log, in order, none of them twice.
ExportIsPrefix ==
    /\ \A p \in Procs : Exporting(p) => IsPrefix(job[p].events, Ours(log))
    /\ \A f \in Formats : data[f].state = "whole" => IsPrefix(data[f].events, Ours(log))

\* An export that runs alone has every event that was in the log when it began.
LoneExportIsComplete ==
    \A p \in Procs :
        Exporting(p) /\ job[p].alone /\ job[p].pc \in {"open", "fill", "read back", "digest", "sign", "done"}
        => \A k \in job[p].before :
              log[k].ours => \E i \in 1..Len(job[p].events) : job[p].events[i] = log[k]

\* An export is faithful to the log: nothing but its first events, and all of those
\* it began with when it is alone.
ExportFaithful == ExportIsPrefix /\ LoneExportIsComplete

\* The answer's digest is that of as many events as the answer counts: in JSON
\* always, in CSV unless another export ran at the same time.
AnswerIsOfOneExport ==
    \A p \in Procs :
        Exporting(p) /\ job[p].pc \in {"digest", "sign", "done"} /\ (job[p].fmt = "json" \/ job[p].alone)
        => job[p].digest = Whole(job[p].events)

\* The exported file, its digest and its signature belong together, unless the last
\* export of that format was unsigned, was cut off or ran beside another.
SignatureIsOfTheFile ==
    \A f \in Formats \ stale : data[f] = sha[f] /\ sha[f] = sig[f]

\* What digests and signatures say they are of: the events of the answer, and the
\* file they lie beside.
SealMatches == AnswerIsOfOneExport /\ SignatureIsOfTheFile

\* Two locks, one taken under the other: it never happens that all callers that are
\* doing something wait for a lock.
SomebodyGoesOn ==
    \/ \A p \in Procs : job[p] = Idle
    \/ \E p \in Procs :
          /\ job[p] # Idle
          /\ job[p].pc \in {"lock", "lock log"} => logLock = NoOne
          /\ job[p].pc \in {"lock filtered", "read"} => filteredLock = NoOne
=============================================================================
