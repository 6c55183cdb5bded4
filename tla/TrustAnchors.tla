---------------------------- MODULE TrustAnchors ----------------------------
(***************************************************************************)
(* The trust anchor registry of a village (trust_anchors.py and the        *)
(* anchors commands): every command adds a file, an inspection reads them  *)
(* all.  Nothing is locked.  An entry carries the time at which its        *)
(* command began, which is before its file is there.                       *)
(*                                                                         *)
(* Entries are signed when there is a key, but nothing that reads them     *)
(* looks at their signatures.                                              *)
(***************************************************************************)
EXTENDS Naturals

CONSTANTS
    Keys,          \* anchors, by the hashes of their public keys
    Operators,
    MaxEntries,    \* bound: commands that add an entry
    MaxInspections, \* bound
    MaxTime,       \* bound: the clock, whose next instant may be many commands away
    NoAnchor       \* the answer "no active anchor"

Actions == {"register", "rotate", "revoke"}
\* An entry, and the name of its file: what else it says has no part in this.
Entry == [at : 0..MaxTime, action : Actions, key : Keys]

VARIABLES
    files,       \* names in the directory
    whole,       \* those whose file is written
    rewritten,   \* history: names that two commands had
    job,         \* what each operator is doing
    entries,     \* how many commands there were that add an entry
    inspections, \* how many there were that read them
    time

vars == <<files, whole, rewritten, job, entries, inspections, time>>

Idle == [pc |-> "idle"]

\* anchor_register, anchor_rotate, anchor_revoke: created_at is taken.  The key that a
\* rotation replaces is noted in the entry, and read by nobody.
Command(o, action, key) ==
    /\ job[o] = Idle
    /\ entries < MaxEntries
    /\ entries' = entries + 1
    /\ job' = [job EXCEPT ![o] = [pc |-> "store", entry |-> [at |-> time, action |-> action, key |-> key]]]
    /\ UNCHANGED <<files, whole, rewritten, inspections, time>>

\* store_anchor_entry: the file is opened,
OpenEntry(o) ==
    /\ job[o].pc = "store"
    /\ LET e == job[o].entry
       IN  /\ files' = files \cup {e}
           /\ whole' = whole \ {e}
           /\ rewritten' = IF e \in files THEN rewritten \cup {e} ELSE rewritten
    /\ job' = [job EXCEPT ![o].pc = "fill"]
    /\ UNCHANGED <<entries, inspections, time>>

\* and written.
FillEntry(o) ==
    /\ job[o].pc = "fill"
    /\ whole' = whole \cup {job[o].entry}
    /\ job' = [job EXCEPT ![o] = Idle]
    /\ UNCHANGED <<files, rewritten, entries, inspections, time>>

\* A command dies.
Die(o) ==
    /\ job[o].pc \in {"store", "fill"}
    /\ job' = [job EXCEPT ![o] = Idle]
    /\ UNCHANGED <<files, whole, rewritten, entries, inspections, time>>

\* iter_anchor_entries: the names are listed,
Inspect(o) ==
    /\ job[o] = Idle
    /\ inspections < MaxInspections
    /\ inspections' = inspections + 1
    /\ job' = [job EXCEPT ![o] = [pc |-> "read", left |-> files, read |-> {}, known |-> whole]]
    /\ UNCHANGED <<files, whole, rewritten, entries, time>>

\* and read one after the other; what cannot be read is skipped.
ReadEntry(o) ==
    /\ job[o].pc = "read"
    /\ \E e \in job[o].left :
          job' = [job EXCEPT ![o].left = @ \ {e}, ![o].read = IF e \in whole THEN @ \cup {e} ELSE @]
    /\ UNCHANGED <<files, whole, rewritten, entries, inspections, time>>

\* The order of the names of files of the same time.
Rank == [register |-> 1, revoke |-> 2, rotate |-> 3]

\* Mutant of Before: the order of the names that do not begin with the time.
Before_Unsorted(d, e) == \/ Rank[d.action] < Rank[e.action]
                         \/ Rank[d.action] = Rank[e.action] /\ d.at < e.at

\* Sorted by created_at; entries of one key and one instant stay in the order of their names.
Before(d, e) == \/ d.at < e.at
                \/ d.at = e.at /\ Rank[d.action] < Rank[e.action]

\* latest_active_anchor: what is left of the keys when all entries have had their
\* effect, each with its last entry.
Active(read) == {e \in read : /\ e.action # "revoke"
                              /\ \A d \in read : d.key = e.key /\ d # e => Before(d, e)}

\* The latest of them; of two of the same instant the one whose key was there first.
Latest(active) == IF active = {} THEN {NoAnchor}
                  ELSE {e \in active : \A d \in active : d.at <= e.at}

Answer(o) ==
    /\ job[o].pc = "read" /\ job[o].left = {}
    /\ \E answer \in Latest(Active(job[o].read)) :
          job' = [job EXCEPT ![o] = [pc |-> "answered", answer |-> answer, known |-> job[o].known]]
    /\ UNCHANGED <<files, whole, rewritten, entries, inspections, time>>

Leave(o) ==
    /\ job[o].pc = "answered"
    /\ job' = [job EXCEPT ![o] = Idle]
    /\ UNCHANGED <<files, whole, rewritten, entries, inspections, time>>

Tick ==
    /\ time < MaxTime
    /\ time' = time + 1
    /\ UNCHANGED <<files, whole, rewritten, job, entries, inspections>>

Init ==
    /\ files = {} /\ whole = {} /\ rewritten = {}
    /\ job = [o \in Operators |-> Idle]
    /\ entries = 0 /\ inspections = 0 /\ time = 0

Next ==
    \/ \E o \in Operators :
          \/ \E action \in Actions, key \in Keys : Command(o, action, key)
          \/ OpenEntry(o) \/ FillEntry(o) \/ Die(o)
          \/ Inspect(o) \/ ReadEntry(o) \/ Answer(o) \/ Leave(o)
    \/ Tick

Spec == Init /\ [][Next]_vars

-----------------------------------------------------------------------------
(* Properties *)

\* What an inspection knew of when it began: entries whose command was done, but for
\* files that were written again meanwhile.
Known(o) == job[o].known \ rewritten

\* An inspection never answers with a key that was revoked before it began, unless the
\* key was registered or rotated to at a later time (rotated to, at the same): although commands overlap, die and
\* finish in another order than they began.  And it finds an anchor at least as late as
\* every one that was there, if that is not revoked.
InspectionIsRight ==
    \A o \in Operators : job[o].pc = "answered" =>
        LET answer == job[o].answer
        IN  /\ \A r \in Known(o) : r.action = "revoke" /\ answer # NoAnchor /\ answer.key = r.key
                  => r.at < answer.at \/ (r.at = answer.at /\ answer.action = "rotate")
            /\ \A e \in Known(o) :
                  \/ e.action = "revoke"
                  \/ answer # NoAnchor /\ answer.at >= e.at
                  \/ \E r \in files : r.action = "revoke" /\ r.key = e.key
                                        /\ (e.at < r.at \/ (e.at = r.at /\ e.action = "register"))
=============================================================================
