-------------------------- MODULE ClaimStoreProofs --------------------------
(***************************************************************************)
(* Proofs about ClaimStore, for every number of callers, files and         *)
(* bundles: the types, that what is stored is indexed, that it is          *)
(* ingested once, that it is whole, that a submission is decided once, and *)
(* that a document which was kept does not vanish.                         *)
(***************************************************************************)
EXTENDS ClaimStore, TLAPS

LEMMA IdleJob == Idle \in Job /\ JobFits(Idle)
BY DEF Idle, Job, Content, JobFits, Storing

LEMMA IdlePc == Idle.pc = "idle"
BY DEF Idle

\* A step of p: its own job, and at most the open files of the others.
SameBut(j, k) == /\ k \in Job
                 /\ k.op = j.op /\ k.pc = j.pc /\ k.file = j.file /\ k.doc = j.doc
JobStep(p) ==
    /\ job' \in [Procs -> Job]
    /\ \A q \in Procs : JobFits(job'[q])
    /\ \A q \in Procs \ {p} : SameBut(job[q], job'[q])

LEMMA OneJob ==
    ASSUME TypeOK, NEW p \in Procs, NEW j \in Job, JobFits(j), job' = [job EXCEPT ![p] = j]
    PROVE  JobStep(p) /\ job'[p] = j /\ \A q \in Procs \ {p} : job'[q] = job[q]
<1>1. job \in [Procs -> Job] /\ \A q \in Procs : JobFits(job[q])
  BY DEF TypeOK
<1>2. \A q \in Procs : job'[q] = IF q = p THEN j ELSE job[q]
  BY <1>1
<1>3. \A q \in Procs : job'[q] \in Job /\ JobFits(job'[q])
  BY <1>1, <1>2
<1> QED BY <1>1, <1>2, <1>3 DEF JobStep, SameBut

\* What each operation does to the job of its caller.
LEMMA Opening ==
    ASSUME ClaimAssumption, TypeOK, NEW p \in Procs, NEW f \in Files, NEW d \in Docs,
           OpenFile(p, f, d)
    PROVE  /\ JobStep(p) /\ \A q \in Procs \ {p} : job'[q] = job[q]
           /\ job'[p] = [op |-> "submit", pc |-> "fill", file |-> f, doc |-> d, into |-> "file"]
<1> DEFINE j == [op |-> "submit", pc |-> "fill", file |-> f, doc |-> d, into |-> "file"]
<1>1. j \in Job /\ JobFits(j)
  BY DEF Job, Content, JobFits, Storing
<1>2. job' = [job EXCEPT ![p] = j]
  BY DEF OpenFile
<1> QED BY <1>1, <1>2, OneJob

LEMMA Beginnings ==
    ASSUME ClaimAssumption, TypeOK, NEW p \in Procs, NEW f \in Files
    PROVE  /\ \A d \in Docs : OpenFile(p, f, d) =>
                /\ JobStep(p) /\ \A q \in Procs \ {p} : job'[q] = job[q]
                /\ job'[p] = [op |-> "submit", pc |-> "fill", file |-> f, doc |-> d, into |-> "file"]
           /\ Examine(p, f) =>
                /\ JobStep(p) /\ \A q \in Procs \ {p} : job'[q] = job[q]
                /\ job'[p] = [Idle EXCEPT !.op = "approve", !.pc = "read", !.file = f]
           /\ BeginReject(p, f) =>
                /\ JobStep(p) /\ \A q \in Procs \ {p} : job'[q] = job[q]
                /\ job'[p] = [Idle EXCEPT !.op = "reject", !.pc = "copy", !.file = f,
                                          !.doc = quarantine[f]]
<1>1. ASSUME NEW d \in Docs, OpenFile(p, f, d)
      PROVE  /\ JobStep(p) /\ \A q \in Procs \ {p} : job'[q] = job[q]
             /\ job'[p] = [op |-> "submit", pc |-> "fill", file |-> f, doc |-> d, into |-> "file"]
  BY <1>1, Opening
<1>2. ASSUME Examine(p, f)
      PROVE  /\ JobStep(p) /\ \A q \in Procs \ {p} : job'[q] = job[q]
             /\ job'[p] = [Idle EXCEPT !.op = "approve", !.pc = "read", !.file = f]
  <2> DEFINE j == [Idle EXCEPT !.op = "approve", !.pc = "read", !.file = f]
  <2>1. j \in Job /\ JobFits(j)
    BY DEF Job, Content, JobFits, Storing, Idle
  <2>2. job' = [job EXCEPT ![p] = j]
    BY <1>2 DEF Examine
  <2> QED BY <2>1, <2>2, OneJob
<1>3. ASSUME BeginReject(p, f)
      PROVE  /\ JobStep(p) /\ \A q \in Procs \ {p} : job'[q] = job[q]
             /\ job'[p] = [Idle EXCEPT !.op = "reject", !.pc = "copy", !.file = f, !.doc = quarantine[f]]
  <2> DEFINE j == [Idle EXCEPT !.op = "reject", !.pc = "copy", !.file = f, !.doc = quarantine[f]]
  <2>0. quarantine[f] \in Content
    BY DEF TypeOK
  <2>1. j \in Job /\ JobFits(j)
    BY <2>0 DEF Job, JobFits, Storing, Idle
  <2>2. job' = [job EXCEPT ![p] = j]
    BY <1>3 DEF BeginReject
  <2> QED BY <2>1, <2>2, OneJob
<1> QED BY <1>1, <1>2, <1>3

\* An ingestion that goes on keeps what it ingests.
GoesOn(p, pc, into) ==
    /\ JobStep(p) /\ \A q \in Procs \ {p} : job'[q] = job[q]
    /\ job'[p] = [job[p] EXCEPT !.pc = pc, !.into = into]
Ends(p) ==
    /\ JobStep(p) /\ \A q \in Procs \ {p} : job'[q] = job[q]
    /\ job'[p] = Idle

LEMMA EndJob ==
    ASSUME TypeOK, NEW p \in Procs, job' = [job EXCEPT ![p] = Idle]
    PROVE  Ends(p)
BY IdleJob, OneJob DEF Ends

LEMMA OnJob ==
    ASSUME TypeOK, NEW p \in Procs, NEW pc, NEW into,
           [job[p] EXCEPT !.pc = pc, !.into = into] \in Job,
           JobFits([job[p] EXCEPT !.pc = pc, !.into = into]),
           job' = [job EXCEPT ![p].pc = pc, ![p].into = into]
    PROVE  GoesOn(p, pc, into)
<1> DEFINE j == [job[p] EXCEPT !.pc = pc, !.into = into]
<1>1. job' = [job EXCEPT ![p] = j]
  BY DEF TypeOK
<1> HIDE DEF j
<1>2. j \in Job /\ JobFits(j)
  BY DEF j
<1>3. JobStep(p) /\ job'[p] = j /\ \A q \in Procs \ {p} : job'[q] = job[q]
  BY <1>1, <1>2, OneJob
<1> QED BY <1>3 DEF GoesOn, j

\* The same when only the step changes.
LEMMA OnPc ==
    ASSUME TypeOK, NEW p \in Procs, NEW pc,
           [job[p] EXCEPT !.pc = pc] \in Job, JobFits([job[p] EXCEPT !.pc = pc]),
           job' = [job EXCEPT ![p].pc = pc]
    PROVE  GoesOn(p, pc, job[p].into)
<1>1. job[p] \in Job /\ job \in [Procs -> Job]
  BY DEF TypeOK
<1>2. [job[p] EXCEPT !.pc = pc, !.into = job[p].into] = [job[p] EXCEPT !.pc = pc]
  BY <1>1 DEF Job
<1>3. job' = [job EXCEPT ![p] = [job[p] EXCEPT !.pc = pc]]
  BY <1>1
<1> QED BY <1>2, <1>3, OneJob DEF GoesOn

LEMMA Ingestions ==
    ASSUME ClaimAssumption, TypeOK, NEW p \in Procs
    PROVE  /\ \A d \in Docs : Ingest(p, d) =>
                /\ JobStep(p) /\ \A q \in Procs \ {p} : job'[q] = job[q]
                /\ job'[p] = [Idle EXCEPT !.op = "ingest", !.pc = "exists", !.doc = d]
           /\ ReadAgain(p) =>
                \/ Ends(p)
                \/ /\ JobStep(p) /\ \A q \in Procs \ {p} : job'[q] = job[q]
                   /\ quarantine[job[p].file] \in Genuine
                   /\ job'[p] = [job[p] EXCEPT !.pc = "exists", !.doc = quarantine[job[p].file]]
           /\ CheckReplay(p) => Ends(p) \/ GoesOn(p, "stage", job[p].into)
           /\ OpenStaged(p) => GoesOn(p, "fill staged", "staged")
           /\ FillStaged(p) => GoesOn(p, "replace", "none")
           /\ AppendRows(p) => \/ sqlite /\ GoesOn(p, "table", job[p].into)
                               \/ ~ sqlite /\ (Ends(p) \/ GoesOn(p, "unlink", job[p].into))
           /\ InsertRows(p) => Ends(p) \/ GoesOn(p, "unlink", job[p].into)
           /\ (InsertFails(p) \/ FillFile(p) \/ Die(p)) => Ends(p)
           /\ OpenCopy(p) => GoesOn(p, "fill copy", job[p].into)
           /\ FillCopy(p) => GoesOn(p, "unlink", job[p].into)
<1>0. job[p] \in Job /\ JobFits(job[p]) /\ job \in [Procs -> Job]
  BY DEF TypeOK
<1>1. ASSUME NEW d \in Docs, Ingest(p, d)
      PROVE  /\ JobStep(p) /\ \A q \in Procs \ {p} : job'[q] = job[q]
             /\ job'[p] = [Idle EXCEPT !.op = "ingest", !.pc = "exists", !.doc = d]
  <2> DEFINE j == [Idle EXCEPT !.op = "ingest", !.pc = "exists", !.doc = d]
  <2>1. j \in Job /\ JobFits(j)
    BY <1>1 DEF Job, Content, JobFits, Storing, Idle, Ingest
  <2>2. job' = [job EXCEPT ![p] = j]
    BY <1>1 DEF Ingest
  <2> QED BY <2>1, <2>2, OneJob
<1>2. ASSUME ReadAgain(p), ~ Ends(p)
      PROVE  /\ JobStep(p) /\ \A q \in Procs \ {p} : job'[q] = job[q]
             /\ quarantine[job[p].file] \in Genuine
             /\ job'[p] = [job[p] EXCEPT !.pc = "exists", !.doc = quarantine[job[p].file]]
  <2> DEFINE c == quarantine[job[p].file]
             j == [job[p] EXCEPT !.pc = "exists", !.doc = c]
  <2>1. job[p].pc = "read" /\ c \in Genuine /\ job' = [job EXCEPT ![p].pc = "exists", ![p].doc = c]
    BY <1>2, EndJob DEF ReadAgain
  <2>2. j \in Job /\ JobFits(j)
    BY <1>0, <2>1, ClaimAssumption DEF Job, Content, JobFits, Storing, ClaimAssumption
  <2>3. job' = [job EXCEPT ![p] = j]
    BY <1>0, <2>1
  <2> QED BY <2>1, <2>2, <2>3, OneJob
<1>3. ASSUME CheckReplay(p), ~ Ends(p) PROVE GoesOn(p, "stage", job[p].into)
  <2>1. job[p].pc = "exists" /\ job' = [job EXCEPT ![p].pc = "stage"]
    BY <1>3, EndJob DEF CheckReplay
  <2>2. [job[p] EXCEPT !.pc = "stage"] \in Job /\ JobFits([job[p] EXCEPT !.pc = "stage"])
    BY <1>0, <2>1 DEF Job, JobFits, Storing
  <2> QED BY <2>1, <2>2, OnPc
<1>4. ASSUME OpenStaged(p) PROVE GoesOn(p, "fill staged", "staged")
  <2> DEFINE j == [job[p] EXCEPT !.pc = "fill staged", !.into = "staged"]
  <2>1. job[p].pc = "stage" /\ job' = [job EXCEPT ![p].pc = "fill staged", ![p].into = "staged"]
    BY <1>4 DEF OpenStaged
  <2>2. j \in Job /\ JobFits(j)
    BY <1>0, <2>1 DEF Job, JobFits, Storing
  <2> QED BY <2>1, <2>2, OnJob
<1>5. ASSUME FillStaged(p) PROVE GoesOn(p, "replace", "none")
  <2> DEFINE j == [job[p] EXCEPT !.pc = "replace", !.into = "none"]
  <2>1. job[p].pc = "fill staged" /\ job' = [job EXCEPT ![p].pc = "replace", ![p].into = "none"]
    BY <1>5 DEF FillStaged
  <2>2. j \in Job /\ JobFits(j)
    BY <1>0, <2>1 DEF Job, JobFits, Storing
  <2> QED BY <2>1, <2>2, OnJob
<1>6. ASSUME job[p].pc \in {"index", "table"}, job' = Ingested(p)
      PROVE  Ends(p) \/ GoesOn(p, "unlink", job[p].into)
  <2>1. CASE job[p].op = "approve"
    <3>1. job' = [job EXCEPT ![p].pc = "unlink"]
      BY <1>0, <1>6, <2>1 DEF Ingested
    <3>2. [job[p] EXCEPT !.pc = "unlink"] \in Job /\ JobFits([job[p] EXCEPT !.pc = "unlink"])
      BY <1>0, <1>6, <2>1 DEF Job, JobFits, Storing
    <3> QED BY <3>1, <3>2, OnPc
  <2>2. CASE job[p].op # "approve"
    <3>1. job' = [job EXCEPT ![p] = Idle]
      BY <1>0, <1>6, <2>2 DEF Ingested
    <3> QED BY <3>1, EndJob
  <2> QED BY <2>1, <2>2
<1>7. ASSUME AppendRows(p)
      PROVE  \/ sqlite /\ GoesOn(p, "table", job[p].into)
             \/ ~ sqlite /\ (Ends(p) \/ GoesOn(p, "unlink", job[p].into))
  <2>1. CASE sqlite
    <3>1. job[p].pc = "index" /\ job' = [job EXCEPT ![p].pc = "table"]
      BY <1>7, <2>1 DEF AppendRows
    <3>2. [job[p] EXCEPT !.pc = "table"] \in Job /\ JobFits([job[p] EXCEPT !.pc = "table"])
      BY <1>0, <3>1 DEF Job, JobFits, Storing
    <3> QED BY <2>1, <3>1, <3>2, OnPc
  <2>2. CASE ~ sqlite
    BY <1>6, <1>7, <2>2 DEF AppendRows
  <2> QED BY <2>1, <2>2
<1>8. ASSUME InsertRows(p) PROVE Ends(p) \/ GoesOn(p, "unlink", job[p].into)
  BY <1>6, <1>8, EndJob DEF InsertRows
<1>9. ASSUME InsertFails(p) \/ FillFile(p) \/ Die(p) PROVE Ends(p)
  BY <1>9, EndJob DEF InsertFails, FillFile, Die
<1>10. ASSUME OpenCopy(p) PROVE GoesOn(p, "fill copy", job[p].into)
  <2>1. job[p].pc = "copy" /\ job' = [job EXCEPT ![p].pc = "fill copy"]
    BY <1>10 DEF OpenCopy
  <2>2. [job[p] EXCEPT !.pc = "fill copy"] \in Job /\ JobFits([job[p] EXCEPT !.pc = "fill copy"])
    BY <1>0, <2>1 DEF Job, JobFits, Storing
  <2> QED BY <2>1, <2>2, OnPc
<1>11. ASSUME FillCopy(p) PROVE GoesOn(p, "unlink", job[p].into)
  <2>1. job[p].pc = "fill copy" /\ job' = [job EXCEPT ![p].pc = "unlink"]
    BY <1>11 DEF FillCopy
  <2>2. [job[p] EXCEPT !.pc = "unlink"] \in Job /\ JobFits([job[p] EXCEPT !.pc = "unlink"])
    BY <1>0, <2>1 DEF Job, JobFits, Storing
  <2> QED BY <2>1, <2>2, OnPc
<1> QED BY <1>1, <1>2, <1>3, <1>4, <1>5, <1>7, <1>8, <1>9, <1>10, <1>11

\* The two steps that move the open files of others.
LEMMA Replaces ==
    ASSUME ClaimAssumption, TypeOK, NEW p \in Procs, Replace(p)
    PROVE  \/ Ends(p) /\ staged[IdOf[job[p].doc]] = "absent" /\ UNCHANGED <<staged, stored>>
           \/ /\ JobStep(p) /\ staged[IdOf[job[p].doc]] # "absent"
              /\ job'[p] = [job[p] EXCEPT !.pc = "index"]
              /\ \A q \in Procs \ {p} : job'[q] = Moved(job[q], IdOf[job[p].doc])
<1>0. job[p] \in Job /\ JobFits(job[p]) /\ job \in [Procs -> Job] /\ \A q \in Procs : JobFits(job[q])
  BY DEF TypeOK
<1>1. CASE staged[IdOf[job[p].doc]] = "absent"
  BY <1>1, EndJob DEF Replace
<1>2. CASE staged[IdOf[job[p].doc]] # "absent"
  <2> DEFINE i == IdOf[job[p].doc]
  <2>1. /\ job[p].pc = "replace"
        /\ job' = [q \in Procs |-> IF q = p THEN [job[p] EXCEPT !.pc = "index"] ELSE Moved(job[q], i)]
    BY <1>2 DEF Replace
  <2>2. [job[p] EXCEPT !.pc = "index"] \in Job /\ JobFits([job[p] EXCEPT !.pc = "index"])
    BY <1>0, <2>1 DEF Job, JobFits, Storing
  <2>3. ASSUME NEW q \in Procs
        PROVE  SameBut(job[q], Moved(job[q], i)) /\ JobFits(Moved(job[q], i))
    <3>1. job[q] \in Job /\ JobFits(job[q])
      BY <1>0
    <3>2. CASE job[q].into = "staged"
      <4>1. Moved(job[q], i) \in {job[q], [job[q] EXCEPT !.into = "stored"]}
        BY <3>1, <3>2 DEF Moved, Job
      <4>2. [job[q] EXCEPT !.into = "stored"] \in Job /\ SameBut(job[q], [job[q] EXCEPT !.into = "stored"])
        BY <3>1 DEF Job, SameBut
      <4>3. job[q].pc = "fill staged"
        BY <3>1, <3>2 DEF JobFits
      <4>4. JobFits([job[q] EXCEPT !.into = "stored"])
        BY <3>1, <4>3 DEF JobFits, Storing, Job
      <4> QED BY <3>1, <4>1, <4>2, <4>4 DEF SameBut
    <3>3. CASE job[q].into = "stored"
      <4>1. Moved(job[q], i) \in {job[q], [job[q] EXCEPT !.into = "gone"]}
        BY <3>1, <3>3 DEF Moved, Job
      <4>2. [job[q] EXCEPT !.into = "gone"] \in Job /\ SameBut(job[q], [job[q] EXCEPT !.into = "gone"])
        BY <3>1 DEF Job, SameBut
      <4>3. job[q].pc = "fill staged"
        BY <3>1, <3>3 DEF JobFits
      <4>4. JobFits([job[q] EXCEPT !.into = "gone"])
        BY <3>1, <4>3 DEF JobFits, Storing, Job
      <4> QED BY <3>1, <4>1, <4>2, <4>4 DEF SameBut
    <3>4. CASE job[q].into \notin {"staged", "stored"}
      <4>1. Moved(job[q], i) = job[q]
        BY <3>1, <3>4 DEF Moved, Job
      <4> QED BY <3>1, <4>1 DEF SameBut
    <3> QED BY <3>2, <3>3, <3>4
  <2>4. job' \in [Procs -> Job]
    BY <2>1, <2>2, <2>3 DEF SameBut
  <2>5. \A q \in Procs : job'[q] = IF q = p THEN [job[p] EXCEPT !.pc = "index"] ELSE Moved(job[q], i)
    BY <2>1
  <2>6. JobStep(p)
    BY <2>2, <2>3, <2>4, <2>5 DEF JobStep
  <2> QED BY <1>2, <2>5, <2>6
<1> QED BY <1>1, <1>2

LEMMA Unlinks ==
    ASSUME ClaimAssumption, TypeOK, NEW p \in Procs, Unlink(p)
    PROVE  /\ JobStep(p) /\ job'[p] = Idle
           /\ \A q \in Procs \ {p} : job'[q] # job[q] => job[q].into = "file" /\ job'[q].into = "gone"
<1>0. job \in [Procs -> Job] /\ \A q \in Procs : JobFits(job[q])
  BY DEF TypeOK
<1>1. \A q \in Procs : job'[q] = IF q = p THEN Idle
                                ELSE IF job[q].file = job[p].file /\ job[q].into = "file"
                                THEN [job[q] EXCEPT !.into = "gone"] ELSE job[q]
  BY DEF Unlink
<1>2. ASSUME NEW q \in Procs, job[q].into = "file"
      PROVE  /\ SameBut(job[q], [job[q] EXCEPT !.into = "gone"])
             /\ JobFits([job[q] EXCEPT !.into = "gone"])
             /\ [job[q] EXCEPT !.into = "gone"].into = "gone"
  <2>1. job[q] \in Job /\ JobFits(job[q])
    BY <1>0
  <2>2. [job[q] EXCEPT !.into = "gone"] \in Job /\ SameBut(job[q], [job[q] EXCEPT !.into = "gone"])
    BY <2>1 DEF Job, SameBut
  <2>3. job[q].pc = "fill"
    BY <1>2, <2>1 DEF JobFits
  <2> QED BY <2>1, <2>2, <2>3 DEF JobFits, Job, Storing
<1>3. \A q \in Procs : SameBut(job[q], job[q])
  BY <1>0 DEF SameBut
<1>4. job' \in [Procs -> Job]
  BY <1>0, <1>1, <1>2, IdleJob DEF SameBut, Unlink
<1>5. JobStep(p)
  BY <1>0, <1>1, <1>2, <1>3, <1>4, IdleJob DEF JobStep
<1> QED BY <1>1, <1>2, <1>5

-----------------------------------------------------------------------------
(* Types *)

LEMMA JobTypes ==
    ASSUME TypeOK, NEW p \in Procs, JobStep(p), crowded' \subseteq Procs,
           UNCHANGED <<quarantine, rejected, staged, stored, index, table, sqlite,
                       succeeded, raced, broken, halved, kept, given, spoilt, verdicts>>
    PROVE  TypeOK'
BY DEF TypeOK, JobStep

LEMMA TypeStep ==
    ASSUME ClaimAssumption, TypeOK, [Next]_vars
    PROVE  TypeOK'
<1> USE ClaimAssumption DEF ClaimAssumption
<1>1. CASE UNCHANGED vars
  BY <1>1 DEF vars, disk, histories, TypeOK
<1>2. ASSUME NEW p \in Procs, NEW f \in Files, NEW d \in Docs, OpenFile(p, f, d) PROVE TypeOK'
  BY <1>2, Beginnings DEF OpenFile, TypeOK, JobStep, Crowd, Others, Content
<1>3. ASSUME NEW p \in Procs, NEW f \in Files, Examine(p, f) PROVE TypeOK'
  BY <1>3, Beginnings, JobTypes DEF Examine, disk, TypeOK, Crowd, Others
<1>4. ASSUME NEW p \in Procs, NEW f \in Files, BeginReject(p, f) PROVE TypeOK'
  BY <1>4, Beginnings, JobTypes DEF BeginReject, disk, TypeOK, Crowd, Others
<1>5. ASSUME NEW p \in Procs, FillFile(p) PROVE TypeOK'
  <2>1. job[p].doc \in Docs /\ job[p].file \in Files
    BY <1>5 DEF TypeOK, JobFits, FillFile
  <2>2. JobStep(p)
    BY <1>5, Ingestions DEF Ends
  <2>3. quarantine' \in [Files -> Content]
    BY <1>5, <2>1 DEF FillFile, Written, Content, TypeOK
  <2>4. kept' \in [Files -> Docs \cup {None}]
    BY <1>5, <2>1 DEF FillFile, TypeOK
  <2>5. given' \in [Files -> SUBSET Docs] /\ spoilt' \in [Files -> SUBSET Docs]
    BY <1>5, <2>1 DEF FillFile, TypeOK
  <2> QED BY <1>5, <2>2, <2>3, <2>4, <2>5 DEF FillFile, TypeOK, JobStep
<1>6. ASSUME NEW p \in Procs, ReadAgain(p) PROVE TypeOK'
  <2>1. JobStep(p)
    BY <1>6, Ingestions DEF Ends
  <2>2. crowded' \subseteq Procs
    BY <1>6 DEF ReadAgain, TypeOK
  <2> QED BY <1>6, <2>1, <2>2, JobTypes DEF ReadAgain, disk
<1>7. ASSUME NEW p \in Procs, NEW d \in Docs, Ingest(p, d) PROVE TypeOK'
  BY <1>7, Ingestions, JobTypes DEF Ingest, disk, histories, TypeOK
<1>8. ASSUME NEW p \in Procs, CheckReplay(p) PROVE TypeOK'
  <2>1. job[p].doc \in Docs
    BY <1>8 DEF TypeOK, JobFits, CheckReplay, Storing
  <2>2. JobStep(p)
    BY <1>8, Ingestions DEF Ends, GoesOn
  <2>3. crowded' \subseteq Procs /\ raced' \subseteq Ids
    BY <1>8, <2>1 DEF CheckReplay, TypeOK
  <2> QED BY <1>8, <2>2, <2>3 DEF CheckReplay, TypeOK, JobStep, disk
<1>9. ASSUME NEW p \in Procs, OpenStaged(p) PROVE TypeOK'
  <2>1. JobStep(p)
    BY <1>9, Ingestions DEF GoesOn
  <2>2. staged' \in [Ids -> Content]
    BY <1>9 DEF OpenStaged, TypeOK, Content
  <2> QED BY <1>9, <2>1, <2>2 DEF OpenStaged, TypeOK, JobStep, histories
<1>10. ASSUME NEW p \in Procs, FillStaged(p) PROVE TypeOK'
  <2>1. JobStep(p)
    BY <1>10, Ingestions DEF GoesOn
  <2>2. job[p].doc \in Content
    BY DEF TypeOK, Job
  <2>3. staged' \in [Ids -> Content] /\ stored' \in [Ids -> Content]
    BY <1>10, <2>2 DEF FillStaged, TypeOK
  <2> QED BY <1>10, <2>1, <2>3 DEF FillStaged, TypeOK, JobStep, histories
<1>11. ASSUME NEW p \in Procs, Replace(p) PROVE TypeOK'
  <2>1. JobStep(p)
    BY <1>11, Replaces DEF Ends
  <2>0. job[p].doc \in Docs
    BY <1>11 DEF TypeOK, JobFits, Replace, Storing
  <2>2. staged' \in [Ids -> Content] /\ stored' \in [Ids -> Content] /\ crowded' \subseteq Procs
    BY <1>11, <2>0 DEF Replace, TypeOK, Content
  <2> QED BY <1>11, <2>1, <2>2 DEF Replace, TypeOK, JobStep
<1>12. ASSUME NEW p \in Procs, AppendRows(p) PROVE TypeOK'
  <2>1. JobStep(p)
    BY <1>12, Ingestions DEF GoesOn, Ends
  <2>0. \A h \in [Ids -> Nat] : \A i \in Ids : [h EXCEPT ![i] = @ + 1] \in [Ids -> Nat]
    OBVIOUS
  <2>4. IdOf[job[p].doc] \in Ids
    BY <1>12 DEF AppendRows, TypeOK, JobFits, Storing
  <2>2. index' \in [Ids -> Nat] /\ succeeded' \in [Ids -> Nat]
    BY <1>12, <2>0, <2>4 DEF AppendRows, TypeOK, Counted
  <2> QED BY <1>12, <2>1, <2>2 DEF AppendRows, TypeOK, JobStep
<1>13. ASSUME NEW p \in Procs, InsertRows(p) PROVE TypeOK'
  <2>1. JobStep(p)
    BY <1>13, Ingestions DEF GoesOn, Ends
  <2>2. job[p].doc \in Docs
    BY <1>13 DEF TypeOK, JobFits, InsertRows, Storing
  <2>3. table' \subseteq Ids /\ succeeded' \in [Ids -> Nat] /\ crowded' \subseteq Procs
    BY <1>13, <2>2 DEF InsertRows, TypeOK, Counted
  <2> QED BY <1>13, <2>1, <2>3 DEF InsertRows, TypeOK, JobStep
<1>14. ASSUME NEW p \in Procs, InsertFails(p) PROVE TypeOK'
  <2>1. JobStep(p)
    BY <1>14, Ingestions DEF Ends
  <2>2. job[p].doc \in Docs
    BY <1>14 DEF TypeOK, JobFits, InsertFails, Storing
  <2> QED BY <1>14, <2>1, <2>2 DEF InsertFails, TypeOK, JobStep, disk
<1>15. ASSUME NEW p \in Procs, OpenCopy(p) PROVE TypeOK'
  <2>1. JobStep(p)
    BY <1>15, Ingestions DEF GoesOn
  <2>2. spoilt' \in [Files -> SUBSET Docs]
    <3>1. Copies(job[p].file) \subseteq Docs
      BY DEF Copies
    <3> QED BY <1>15, <3>1 DEF OpenCopy, TypeOK
  <2>3. rejected' \in [Files -> Content]
    BY <1>15 DEF OpenCopy, TypeOK, Content
  <2> QED BY <1>15, <2>1, <2>2, <2>3 DEF OpenCopy, TypeOK, JobStep
<1>16. ASSUME NEW p \in Procs, FillCopy(p) PROVE TypeOK'
  <2>1. JobStep(p)
    BY <1>16, Ingestions DEF GoesOn
  <2>2. job[p].file \in Files /\ job[p].doc \in Content
    BY <1>16 DEF TypeOK, JobFits, FillCopy, Job
  <2>3. rejected' \in [Files -> Content]
    <3>1. Written(rejected[job[p].file], job[p].doc) \subseteq Content
      BY <2>2 DEF Written, Content
    <3>2. PICK c \in Content : rejected' = [rejected EXCEPT ![job[p].file] = c]
      BY <1>16, <2>2, <3>1 DEF FillCopy, TypeOK
    <3> QED BY <3>2 DEF TypeOK
  <2> QED BY <1>16, <2>1, <2>3 DEF FillCopy, TypeOK, JobStep, histories
<1>17. ASSUME NEW p \in Procs, Unlink(p) PROVE TypeOK'
  <2>1. JobStep(p)
    BY <1>17, Unlinks
  <2>2. job[p].op \in {"approve", "reject"}
    BY <1>17 DEF TypeOK, JobFits, Unlink
  <2>3. quarantine' \in [Files -> Content]
    BY <1>17 DEF Unlink, TypeOK, Content
  <2>4. verdicts' \in [Files -> SUBSET {"approve", "reject"}]
    BY <1>17, <2>2 DEF Unlink, TypeOK
  <2> QED BY <1>17, <2>1, <2>3, <2>4 DEF Unlink, TypeOK, JobStep
<1>18. ASSUME NEW p \in Procs, Die(p) PROVE TypeOK'
  <2>1. JobStep(p)
    BY <1>18, Ingestions DEF Ends
  <2>2. broken' \subseteq Ids /\ halved' \subseteq Ids
    BY <1>18 DEF Die, TypeOK
  <2>3. kept' \in [Files -> Docs \cup {None}]
    BY <1>18 DEF Die, TypeOK
  <2>4. spoilt' \in [Files -> SUBSET Docs]
    <3>1. \A f \in Files : Endangered(p, f) \subseteq Docs
      BY DEF Endangered
    <3> QED BY <1>18, <3>1 DEF Die, TypeOK
  <2> QED BY <1>18, <2>1, <2>2, <2>3, <2>4 DEF Die, TypeOK, JobStep, disk
<1> QED BY <1>1, <1>2, <1>3, <1>4, <1>5, <1>6, <1>7, <1>8, <1>9, <1>10, <1>11, <1>12, <1>13,
          <1>14, <1>15, <1>16, <1>17, <1>18 DEF Next

\* The types hold, whatever files, bundles and callers there are.
THEOREM TypeCorrect == ClaimAssumption => (Spec => []TypeOK)
<1> SUFFICES ASSUME ClaimAssumption PROVE Spec => []TypeOK
  OBVIOUS
<1>1. Init => TypeOK
  BY IdleJob DEF Init, TypeOK, Content
<1>2. TypeOK /\ [Next]_vars => TypeOK'
  BY TypeStep
<1> QED BY <1>1, <1>2, PTL DEF Spec

-----------------------------------------------------------------------------
(* Ingestion *)

\* How far the ingestions of a bundle can be, given what the store has of it.
IngestInv(i) ==
    /\ sqlite => succeeded[i] <= 1 /\ (i \notin table => succeeded[i] = 0)
    /\ i \in table => index[i] > 0
    /\ stored[i] = "absent" => index[i] = 0
    /\ \A p \in Procs : Ingesting(p, i) =>
          /\ job[p].pc \in {"index", "table"} => stored[i] # "absent"
          /\ job[p].pc = "table" => index[i] > 0 /\ sqlite
          /\ job[p].into = "stored" => stored[i] # "absent"
    /\ i \notin raced =>
          /\ index[i] <= 1
          /\ \A p, q \in Procs : Ingesting(p, i) /\ Ingesting(q, i) => p = q
          /\ \A p \in Procs : Ingesting(p, i) /\ job[p].pc # "table" => index[i] = 0
    /\ \/ stored[i] = "absent"
       \/ i \in broken
       \/ \E p \in Procs : Ingesting(p, i) /\ job[p].pc \in {"index", "table"}
       \/ index[i] > 0 /\ (sqlite => i \in table)

LEMMA OthersGoOn ==
    ASSUME TypeOK, NEW p \in Procs, JobStep(p), NEW q \in Procs \ {p}
    PROVE  /\ \A i \in Ids : Ingesting(q, i)' <=> Ingesting(q, i)
           /\ job'[q].pc = job[q].pc /\ job'[q].op = job[q].op
           /\ job'[q].doc = job[q].doc /\ job'[q].file = job[q].file
BY DEF JobStep, SameBut, Ingesting

LEMMA NotAnyMore ==
    ASSUME NEW p \in Procs, job'[p] = Idle \/ job'[p].pc \notin Storing \ {"exists"}
    PROVE  \A i \in Ids : ~ Ingesting(p, i)'
<1>1. job'[p].pc \notin Storing \ {"exists"}
  BY IdlePc DEF Storing
<1> QED BY <1>1 DEF Ingesting

LEMMA IngestsOne ==
    ASSUME ClaimAssumption, TypeOK, NEW p \in Procs, job[p].pc \in Storing
    PROVE  /\ IdOf[job[p].doc] \in Ids /\ job[p].doc \in Genuine /\ job[p].doc \in Docs
           /\ \A i \in Ids : Ingesting(p, i) <=> (i = IdOf[job[p].doc] /\ job[p].pc # "exists")
BY DEF ClaimAssumption, TypeOK, JobFits, Ingesting

\* A step that neither touches what the store has of a bundle nor begins or ends an
\* ingestion of it.
LEMMA Elsewhere ==
    ASSUME TypeOK, NEW p \in Procs, JobStep(p), NEW i \in Ids, IngestInv(i),
           ~ Ingesting(p, i), ~ Ingesting(p, i)',
           stored'[i] = stored[i], index'[i] = index[i], succeeded'[i] = succeeded[i],
           i \in table' <=> i \in table, sqlite' = sqlite,
           i \in raced' <=> i \in raced, i \in broken => i \in broken',
           \A q \in Procs \ {p} : Ingesting(q, i) => job'[q].into = job[q].into
    PROVE  IngestInv(i)'
<1>1. \A q \in Procs : (Ingesting(q, i)' <=> Ingesting(q, i)) /\ (q # p => job'[q].pc = job[q].pc)
  BY OthersGoOn
<1>2. \A q \in Procs : Ingesting(q, i)' => q # p /\ job'[q].into = job[q].into
  BY <1>1
<1> QED BY <1>1, <1>2 DEF IngestInv

\* The same for all bundles.
LEMMA Aside ==
    ASSUME TypeOK, NEW p \in Procs, JobStep(p), \A i \in Ids : IngestInv(i),
           \A i \in Ids : ~ Ingesting(p, i) /\ ~ Ingesting(p, i)',
           UNCHANGED <<stored, index, table, sqlite, succeeded, raced, broken>>,
           \A q \in Procs \ {p} : \A i \in Ids : Ingesting(q, i) => job'[q].into = job[q].into
    PROVE  \A i \in Ids : IngestInv(i)'
BY Elsewhere

LEMMA IngestStep ==
    ASSUME ClaimAssumption, TypeOK, \A i \in Ids : IngestInv(i), [Next]_vars
    PROVE  \A i \in Ids : IngestInv(i)'
<1>1. CASE UNCHANGED vars
  BY <1>1 DEF vars, disk, histories, IngestInv, Ingesting
<1>2. ASSUME NEW p \in Procs, NEW f \in Files, NEW d \in Docs, OpenFile(p, f, d)
      PROVE \A i \in Ids : IngestInv(i)'
  <2>1. JobStep(p) /\ job[p].pc = "idle" /\ job'[p].pc = "fill"
    <3>1. job'[p] = [op |-> "submit", pc |-> "fill", file |-> f, doc |-> d, into |-> "file"]
      BY <1>2, Opening
    <3>2. JobStep(p)
      BY <1>2, Beginnings
    <3> QED BY <1>2, <3>1, <3>2 DEF OpenFile
  <2>2. \A i \in Ids : ~ Ingesting(p, i) /\ ~ Ingesting(p, i)'
    BY <2>1 DEF Ingesting, Storing
  <2> QED BY <1>2, <2>1, <2>2, Aside DEF OpenFile
<1>3. ASSUME NEW p \in Procs, NEW f \in Files, Examine(p, f)
      PROVE \A i \in Ids : IngestInv(i)'
  <2>1. JobStep(p) /\ job[p].pc = "idle" /\ job'[p].pc = "read"
    <3>1. job'[p] = [Idle EXCEPT !.op = "approve", !.pc = "read", !.file = f]
      BY <1>3, Beginnings
    <3>2. job'[p].pc = "read"
      BY <3>1, IdleJob DEF Job
    <3> QED BY <1>3, <3>2, Beginnings DEF Examine
  <2>2. \A i \in Ids : ~ Ingesting(p, i) /\ ~ Ingesting(p, i)'
    BY <2>1 DEF Ingesting, Storing
  <2> QED BY <1>3, <2>1, <2>2, Aside DEF Examine, disk
<1>4. ASSUME NEW p \in Procs, NEW f \in Files, BeginReject(p, f)
      PROVE \A i \in Ids : IngestInv(i)'
  <2>1. JobStep(p) /\ job[p].pc = "idle" /\ job'[p].pc = "copy"
    <3>1. job'[p] = [Idle EXCEPT !.op = "reject", !.pc = "copy", !.file = f, !.doc = quarantine[f]]
      BY <1>4, Beginnings
    <3>2. job'[p].pc = "copy"
      BY <3>1, IdleJob DEF Job
    <3> QED BY <1>4, <3>2, Beginnings DEF BeginReject
  <2>2. \A i \in Ids : ~ Ingesting(p, i) /\ ~ Ingesting(p, i)'
    BY <2>1 DEF Ingesting, Storing
  <2> QED BY <1>4, <2>1, <2>2, Aside DEF BeginReject, disk
<1>5. ASSUME NEW p \in Procs, FillFile(p) PROVE \A i \in Ids : IngestInv(i)'
  <2>1. JobStep(p) /\ job[p].pc = "fill" /\ job'[p] = Idle
    BY <1>5, Ingestions DEF FillFile, Ends
  <2>2. \A i \in Ids : ~ Ingesting(p, i) /\ ~ Ingesting(p, i)'
    BY <2>1, NotAnyMore DEF Ingesting, Storing
  <2> QED BY <1>5, <2>1, <2>2, Aside DEF FillFile
<1>6. ASSUME NEW p \in Procs, ReadAgain(p) PROVE \A i \in Ids : IngestInv(i)'
  <2>1. JobStep(p) /\ job[p].pc = "read" /\ (job'[p] = Idle \/ job'[p].pc = "exists")
    <3>1. job[p] \in Job
      BY DEF TypeOK
    <3>2. CASE Ends(p)
      BY <1>6, <3>2 DEF ReadAgain, Ends
    <3>3. CASE ~ Ends(p)
      <4>1. JobStep(p) /\ job'[p] = [job[p] EXCEPT !.pc = "exists", !.doc = quarantine[job[p].file]]
        BY <1>6, <3>3, Ingestions
      <4>2. job'[p].pc = "exists"
        BY <3>1, <4>1 DEF Job
      <4> QED BY <1>6, <4>1, <4>2 DEF ReadAgain
    <3> QED BY <3>2, <3>3
  <2>2. \A i \in Ids : ~ Ingesting(p, i) /\ ~ Ingesting(p, i)'
    BY <2>1, NotAnyMore DEF Ingesting, Storing
  <2>3. \A q \in Procs \ {p} : job'[q] = job[q]
    BY <1>6, Ingestions DEF Ends
  <2> QED BY <1>6, <2>1, <2>2, <2>3, Aside DEF ReadAgain, disk
<1>7. ASSUME NEW p \in Procs, NEW d \in Docs, Ingest(p, d) PROVE \A i \in Ids : IngestInv(i)'
  <2>1. JobStep(p) /\ job[p].pc = "idle" /\ job'[p].pc = "exists"
    <3>1. job'[p] = [Idle EXCEPT !.op = "ingest", !.pc = "exists", !.doc = d]
      BY <1>7, Ingestions
    <3>2. job'[p].pc = "exists"
      BY <3>1, IdleJob DEF Job
    <3> QED BY <1>7, <3>2, Ingestions DEF Ingest
  <2>2. \A i \in Ids : ~ Ingesting(p, i) /\ ~ Ingesting(p, i)'
    BY <2>1 DEF Ingesting, Storing
  <2> QED BY <1>7, <2>1, <2>2, Aside DEF Ingest, disk, histories
<1>8. ASSUME NEW p \in Procs, CheckReplay(p), NEW i \in Ids PROVE IngestInv(i)'
  <2> DEFINE k == IdOf[job[p].doc]
  <2>1. /\ JobStep(p) /\ job[p].pc = "exists" /\ job[p] \in Job /\ IngestInv(i)
        /\ Ends(p) \/ GoesOn(p, "stage", job[p].into)
    BY <1>8, Ingestions DEF CheckReplay, TypeOK, Ends, GoesOn
  <2>2. ~ Ingesting(p, i)
    BY <2>1 DEF Ingesting
  <2>0. \A q \in Procs \ {p} : job'[q] = job[q]
    BY <1>8, Ingestions DEF Ends, GoesOn
  <2>3. \A q \in Procs \ {p} : (Ingesting(q, i)' <=> Ingesting(q, i)) /\ job'[q] = job[q]
    BY <2>0, <2>1, OthersGoOn
  <2>4. UNCHANGED <<stored, index, table, sqlite, succeeded, broken>>
    BY <1>8 DEF CheckReplay, disk
  <2>5. CASE stored[k] # "absent"
    <3>1. job' = [job EXCEPT ![p] = Idle] /\ raced' = raced
      BY <1>8, <2>5 DEF CheckReplay
    <3>2. ~ Ingesting(p, i)'
      BY <3>1, EndJob, NotAnyMore DEF Ends
    <3> QED BY <2>0, <2>1, <2>2, <2>4, <3>1, <3>2, Elsewhere
  <2>6. CASE stored[k] = "absent"
    <3>1. /\ job' = [job EXCEPT ![p].pc = "stage"]
          /\ raced' = IF \E q \in Procs : Ingesting(q, k) THEN raced \cup {k} ELSE raced
      BY <1>8, <2>6 DEF CheckReplay
    <3>2. job'[p].pc = "stage" /\ (Ingesting(p, i)' => i = k)
      BY <2>1, <3>1 DEF Job, Ingesting, TypeOK
    <3>3. CASE i # k
      BY <2>0, <2>1, <2>2, <2>4, <3>1, <3>2, <3>3, Elsewhere
    <3>4. CASE i = k
      <4>1. stored[i] = "absent" /\ index[i] = 0 /\ IngestInv(i)
        BY <2>1, <2>6, <3>4 DEF IngestInv
      <4>2. i \notin raced' => i \notin raced /\ \A q \in Procs : ~ Ingesting(q, i)
        BY <3>1, <3>4
      <4>3. job'[p].into = job[p].into /\ job[p].into # "stored"
        BY <2>1, <3>1 DEF Job, TypeOK, JobFits
      <4>4. \A q \in Procs : q # p => (Ingesting(q, i)' <=> Ingesting(q, i)) /\ job'[q] = job[q]
        BY <2>3
      <4> QED BY <2>4, <3>2, <4>1, <4>2, <4>3, <4>4 DEF IngestInv
    <3> QED BY <3>3, <3>4
  <2> QED BY <2>5, <2>6
<1>9. ASSUME NEW p \in Procs, OpenStaged(p) \/ FillStaged(p), NEW i \in Ids PROVE IngestInv(i)'
  <2>1. /\ JobStep(p) /\ job[p].pc \in {"stage", "fill staged"} /\ job[p] \in Job /\ IngestInv(i)
        /\ GoesOn(p, "fill staged", "staged") \/ GoesOn(p, "replace", "none")
    BY <1>9, Ingestions DEF OpenStaged, FillStaged, TypeOK, GoesOn
  <2>2. (Ingesting(p, i)' <=> Ingesting(p, i)) /\ job'[p].pc \in {"fill staged", "replace"}
    BY <2>1, IngestsOne, ZenonT(40) DEF GoesOn, Ingesting, Job, Storing
  <2>0. \A q \in Procs \ {p} : job'[q] = job[q]
    BY <1>9, Ingestions DEF Ends, GoesOn
  <2>3. \A q \in Procs \ {p} : (Ingesting(q, i)' <=> Ingesting(q, i)) /\ job'[q] = job[q]
    BY <2>0, <2>1, OthersGoOn
  <2>4. UNCHANGED <<index, table, sqlite, succeeded, broken, raced>>
    BY <1>9 DEF OpenStaged, FillStaged, histories
  <2>5. stored'[i] = "absent" <=> stored[i] = "absent"
    <3>1. job[p].doc \in Docs /\ job[p].doc # "absent"
      BY <2>1, IngestsOne, ClaimAssumption DEF Storing, ClaimAssumption
    <3>2. CASE OpenStaged(p)
      BY <3>2 DEF OpenStaged
    <3>3. CASE FillStaged(p) /\ stored' # stored
      <4>1. job[p].into = "stored" /\ stored' = [stored EXCEPT ![IdOf[job[p].doc]] = job[p].doc]
        BY <3>3 DEF FillStaged
      <4>2. Ingesting(p, IdOf[job[p].doc])
        BY <2>1, IngestsOne DEF Storing
      <4>3. stored[IdOf[job[p].doc]] # "absent"
        <5>1. IdOf[job[p].doc] \in Ids
          BY <2>1, IngestsOne DEF Storing
        <5>2. IngestInv(IdOf[job[p].doc])
          BY <5>1
        <5> QED BY <4>1, <4>2, <5>2 DEF IngestInv
      <4> QED BY <3>1, <4>1, <4>3 DEF TypeOK
    <3> QED BY <1>9, <3>2, <3>3
  <2>6. job'[p].into # "stored"
    BY <2>1 DEF GoesOn, Job
  <2> QED BY <2>1, <2>2, <2>3, <2>4, <2>5, <2>6 DEF IngestInv
<1>10. ASSUME NEW p \in Procs, Replace(p), NEW i \in Ids PROVE IngestInv(i)'
  <2> DEFINE k == IdOf[job[p].doc]
  <2>1. job[p].pc = "replace" /\ job[p] \in Job /\ IngestInv(i) /\ k \in Ids /\ JobStep(p)
    BY <1>10, IngestsOne, Replaces DEF Replace, TypeOK, Storing, Ends
  <2>3. \A q \in Procs \ {p} : (Ingesting(q, i)' <=> Ingesting(q, i)) /\ job'[q].pc = job[q].pc
    BY <2>1, OthersGoOn
  <2>4. UNCHANGED <<index, table, sqlite, succeeded, broken, raced>>
    BY <1>10 DEF Replace
  <2>5. Ingesting(p, i) <=> i = k
    BY <2>1, IngestsOne DEF Storing
  <2>6. CASE Ends(p) /\ UNCHANGED <<staged, stored>>
    <3>1. ~ Ingesting(p, i)'
      BY <2>6, NotAnyMore DEF Ends
    <3>2. \A q \in Procs \ {p} : job'[q] = job[q]
      BY <2>6 DEF Ends
    <3> QED BY <3>2, <2>1, <2>3, <2>4, <2>6, <3>1 DEF IngestInv
  <2>7. CASE staged[k] # "absent" /\ job'[p] = [job[p] EXCEPT !.pc = "index"]
    <3>1. stored' = [stored EXCEPT ![k] = staged[k]]
      BY <1>10, <2>7 DEF Replace
    <3>2. job'[p].pc = "index" /\ (Ingesting(p, i)' <=> i = k)
      BY <2>1, <2>5, <2>7 DEF Job, Ingesting, Storing
    <3>3. CASE i # k
      <4>1. \A q \in Procs \ {p} : Ingesting(q, i) => job'[q].into = job[q].into
        BY <1>10, <2>7, <3>3, Replaces DEF Moved, Ingesting
      <4> QED BY <2>1, <2>4, <2>5, <3>1, <3>2, <3>3, <4>1, Elsewhere
    <3>4. CASE i = k
      <4>1. stored'[i] # "absent"
        BY <2>1, <2>7, <3>1, <3>4 DEF TypeOK
      <4> QED BY <2>1, <2>3, <2>4, <2>5, <3>2, <3>4, <4>1 DEF IngestInv
    <3> QED BY <3>3, <3>4
  <2> QED BY <1>10, <2>6, <2>7, Replaces
<1>11. ASSUME NEW p \in Procs, AppendRows(p), NEW i \in Ids PROVE IngestInv(i)'
  <2> DEFINE k == IdOf[job[p].doc]
  <2>1. job[p].pc = "index" /\ job[p] \in Job /\ IngestInv(i) /\ k \in Ids /\ JobStep(p)
    BY <1>11, IngestsOne, Ingestions DEF AppendRows, TypeOK, Storing, Ends, GoesOn
  <2>2. Ingesting(p, i) <=> i = k
    BY <2>1, IngestsOne DEF Storing
  <2>0. \A q \in Procs \ {p} : job'[q] = job[q]
    BY <1>11, Ingestions DEF Ends, GoesOn
  <2>3. \A q \in Procs \ {p} : (Ingesting(q, i)' <=> Ingesting(q, i)) /\ job'[q] = job[q]
    BY <2>0, <2>1, OthersGoOn
  <2>4. /\ UNCHANGED <<stored, table, sqlite, broken, raced>>
        /\ index'[i] = IF i = k THEN index[i] + 1 ELSE index[i]
        /\ index[i] \in Nat
    BY <1>11, <2>1 DEF AppendRows, TypeOK
  <2>5. CASE sqlite
    <3>1. GoesOn(p, "table", job[p].into) /\ succeeded' = succeeded
      BY <1>11, <2>5, Ingestions DEF AppendRows
    <3>2. job'[p].pc = "table" /\ (Ingesting(p, i)' <=> Ingesting(p, i))
      BY <2>1, <2>2, <3>1 DEF GoesOn, Job, Ingesting, Storing
    <3> QED BY <2>1, <2>2, <2>3, <2>4, <2>5, <3>1, <3>2 DEF IngestInv
  <2>6. CASE ~ sqlite
    <3>1. Ends(p) \/ GoesOn(p, "unlink", job[p].into)
      BY <1>11, <2>6, Ingestions
    <3>2. ~ Ingesting(p, i)'
      BY <2>1, <3>1, NotAnyMore DEF GoesOn, Ends, Job, Ingesting, Storing
    <3> QED BY <2>1, <2>2, <2>3, <2>4, <2>6, <3>2 DEF IngestInv
  <2> QED BY <2>5, <2>6
<1>12. ASSUME NEW p \in Procs, InsertRows(p), NEW i \in Ids PROVE IngestInv(i)'
  <2> DEFINE k == IdOf[job[p].doc]
  <2>1. job[p].pc = "table" /\ job[p] \in Job /\ IngestInv(i) /\ k \in Ids /\ JobStep(p)
    BY <1>12, IngestsOne, Ingestions DEF InsertRows, TypeOK, Storing, Ends, GoesOn
  <2>2. Ingesting(p, i) <=> i = k
    BY <2>1, IngestsOne DEF Storing
  <2>0. \A q \in Procs \ {p} : job'[q] = job[q]
    BY <1>12, Ingestions DEF Ends, GoesOn
  <2>3. \A q \in Procs \ {p} : (Ingesting(q, i)' <=> Ingesting(q, i)) /\ job'[q] = job[q]
    BY <2>0, <2>1, OthersGoOn
  <2>4. UNCHANGED <<stored, index, sqlite, broken, raced>> /\ index[i] \in Nat /\ succeeded[i] \in Nat
    BY <1>12 DEF InsertRows, TypeOK
  <2>5. ~ Ingesting(p, i)'
    <3>1. Ends(p) \/ GoesOn(p, "unlink", job[p].into)
      BY <1>12, Ingestions
    <3>2. job'[p] = Idle \/ job'[p].pc = "unlink"
      BY <2>1, <3>1 DEF Ends, GoesOn, Job
    <3> QED BY <3>2, NotAnyMore DEF Storing
  <2>6. CASE i # k
    <3>1. succeeded'[i] = succeeded[i] /\ (i \in table' <=> i \in table)
      BY <1>12, <2>1, <2>6 DEF InsertRows, Counted, TypeOK
    <3> QED BY <2>0, <2>1, <2>2, <2>4, <2>5, <2>6, <3>1, Elsewhere
  <2>7. CASE i = k
    <3>1. \/ i \in table /\ table' = table /\ succeeded'[i] = succeeded[i]
          \/ i \notin table /\ i \in table' /\ succeeded'[i] = succeeded[i] + 1
      BY <1>12, <2>1, <2>7 DEF InsertRows, Counted, TypeOK
    <3>2. Ingesting(p, i) /\ sqlite /\ index[i] > 0 /\ stored[i] # "absent"
      BY <2>1, <2>2, <2>7 DEF IngestInv
    <3>3. i \in table' /\ sqlite' => succeeded'[i] <= 1
      BY <2>1, <2>4, <3>1, <3>2 DEF IngestInv
    <3>4. \A q \in Procs : Ingesting(q, i)' => q # p /\ Ingesting(q, i) /\ job'[q] = job[q]
      BY <2>3, <2>5
    <3> QED BY <2>1, <2>4, <3>1, <3>2, <3>3, <3>4 DEF IngestInv
  <2> QED BY <2>6, <2>7
<1>13. ASSUME NEW p \in Procs, InsertFails(p) \/ Die(p), NEW i \in Ids PROVE IngestInv(i)'
  <2>1. JobStep(p) /\ Ends(p) /\ IngestInv(i)
    BY <1>13, Ingestions DEF Ends
  <2>2. ~ Ingesting(p, i)'
    BY <2>1, NotAnyMore DEF Ends
  <2>0. \A q \in Procs \ {p} : job'[q] = job[q]
    BY <1>13, Ingestions DEF Ends, GoesOn
  <2>3. \A q \in Procs \ {p} : (Ingesting(q, i)' <=> Ingesting(q, i)) /\ job'[q] = job[q]
    BY <2>0, <2>1, OthersGoOn
  <2>4. UNCHANGED <<stored, index, table, sqlite, succeeded, raced>>
    BY <1>13 DEF InsertFails, Die, disk
  <2>5. i \in broken => i \in broken'
    BY <1>13 DEF InsertFails, Die
  <2>6. Ingesting(p, i) /\ job[p].pc \in {"index", "table"} => i \in broken'
    BY <1>13 DEF InsertFails, Die, Ingesting
  <2> QED BY <2>1, <2>2, <2>3, <2>4, <2>5, <2>6 DEF IngestInv
<1>14. ASSUME NEW p \in Procs, OpenCopy(p) \/ FillCopy(p) \/ Unlink(p)
       PROVE \A i \in Ids : IngestInv(i)'
  <2>1. /\ JobStep(p) /\ job[p].pc \in {"copy", "fill copy", "unlink"}
        /\ job'[p] = Idle \/ job'[p].pc \in {"fill copy", "unlink"}
    <3>1. job[p] \in Job
      BY DEF TypeOK
    <3>2. CASE OpenCopy(p) \/ FillCopy(p)
      <4>1. GoesOn(p, "fill copy", job[p].into) \/ GoesOn(p, "unlink", job[p].into)
        BY <3>2, Ingestions
      <4> QED BY <3>1, <3>2, <4>1 DEF OpenCopy, FillCopy, GoesOn, Job
    <3>3. CASE Unlink(p)
      BY <3>3, Unlinks DEF Unlink
    <3> QED BY <1>14, <3>2, <3>3
  <2>2. \A i \in Ids : ~ Ingesting(p, i) /\ ~ Ingesting(p, i)'
    BY <2>1, NotAnyMore DEF Ingesting, Storing
  <2>3. \A q \in Procs \ {p} : \A i \in Ids : Ingesting(q, i) => job'[q].into = job[q].into
    <3>1. \A q \in Procs \ {p} : job'[q] = job[q] \/ job[q].into = "file"
      BY <1>14, Ingestions, Unlinks DEF GoesOn
    <3>2. \A q \in Procs : \A i \in Ids : Ingesting(q, i) => job[q].into # "file"
      BY DEF TypeOK, JobFits, Ingesting, Storing
    <3> QED BY <3>1, <3>2
  <2> QED BY <1>14, <2>1, <2>2, <2>3, Aside DEF OpenCopy, FillCopy, Unlink, histories
<1> QED BY <1>1, <1>2, <1>3, <1>4, <1>5, <1>6, <1>7, <1>8, <1>9, <1>10, <1>11, <1>12, <1>13,
          <1>14 DEF Next

LEMMA Ingestion == ClaimAssumption => (Spec => [](TypeOK /\ \A i \in Ids : IngestInv(i)))
<1> SUFFICES ASSUME ClaimAssumption PROVE Spec => [](TypeOK /\ \A i \in Ids : IngestInv(i))
  OBVIOUS
<1> DEFINE Inv == TypeOK /\ \A i \in Ids : IngestInv(i)
<1>1. Init => Inv
  <2>1. Init => TypeOK
    BY IdleJob DEF Init, TypeOK, Content
  <2>2. Init => \A i \in Ids : IngestInv(i)
    BY DEF Init, IngestInv, Ingesting, Idle
  <2> QED BY <2>1, <2>2
<1>2. Inv /\ [Next]_vars => Inv'
  BY TypeStep, IngestStep
<1> QED BY <1>1, <1>2, PTL DEF Spec

\* A stored bundle is indexed, and in SQLite, unless its ingestion is under way or
\* was cut off.
THEOREM StoredBundlesAreIndexed == ClaimAssumption => (Spec => []StoredIsIndexed)
<1>1. TypeOK /\ (\A i \in Ids : IngestInv(i)) => StoredIsIndexed
  BY DEF StoredIsIndexed, IngestInv
<1> QED BY <1>1, Ingestion, PTL

\* No bundle is ingested twice where SQLite is enabled, nor counted twice in the index
\* unless two callers found it missing at the same time.
THEOREM BundlesAreIngestedOnce == ClaimAssumption => (Spec => []IngestedOnce)
<1>1. TypeOK /\ (\A i \in Ids : IngestInv(i)) => IngestedOnce
  BY DEF IngestedOnce, IngestInv
<1> QED BY <1>1, Ingestion, PTL

-----------------------------------------------------------------------------
(* Decisions *)

\* Two callers at one file know of each other, and nobody is at a file that is decided.
DecideInv ==
    /\ \A p, q \in Procs : p # q /\ job[p].file \in Files /\ job[p].file = job[q].file => p \in crowded
    /\ \A f \in Files :
          /\ verdicts[f] # {} => quarantine[f] = "absent" /\ \A p \in Procs : job[p].file # f
          /\ verdicts[f] # {"approve", "reject"}

\* A step of a caller that stays at its file or leaves it.
LEMMA StaysOrLeaves ==
    ASSUME ClaimAssumption, TypeOK, DecideInv, NEW p \in Procs, JobStep(p),
           UNCHANGED <<quarantine, verdicts>>,
           \/ job'[p].file = job[p].file /\ crowded' = crowded
           \/ job'[p].file = None /\ crowded' \in {crowded, crowded \ {p}}
    PROVE  DecideInv'
<1>1. \A q \in Procs \ {p} : job'[q].file = job[q].file
  BY DEF JobStep, SameBut
<1>2. None \notin Files
  BY DEF ClaimAssumption
<1> QED BY <1>1, <1>2 DEF DecideInv

LEMMA IdleFile == Idle.file = None
BY DEF Idle

LEMMA DecideStep ==
    ASSUME ClaimAssumption, TypeOK, DecideInv, [Next]_vars
    PROVE  DecideInv'
<1>0. None \notin Files
  BY DEF ClaimAssumption
<1>1. CASE UNCHANGED vars
  BY <1>1 DEF vars, disk, histories, DecideInv
<1>2. ASSUME NEW p \in Procs, NEW f \in Files, job[p].pc = "idle", JobStep(p), job'[p].file = f,
             crowded' = Crowd(p, f), \A g \in Files \ {f} : quarantine'[g] = quarantine[g] /\ verdicts'[g] = verdicts[g],
             verdicts'[f] = {}
      PROVE  DecideInv'
  <2>1. \A q \in Procs \ {p} : job'[q].file = job[q].file
    BY <1>2 DEF JobStep, SameBut
  <2>2. job[p].file = None
    BY <1>2 DEF TypeOK, JobFits
  <2>3. ASSUME NEW q \in Procs, NEW r \in Procs, q # r, job'[q].file \in Files, job'[q].file = job'[r].file
        PROVE  q \in crowded'
    <3>1. CASE q = p
      <4>1. r \in Others(p, f)
        BY <1>2, <2>1, <2>3, <3>1 DEF Others
      <4> QED BY <1>2, <3>1, <4>1 DEF Crowd
    <3>2. CASE r = p
      <4>1. q \in Others(p, f)
        BY <1>2, <2>1, <2>3, <3>2 DEF Others
      <4> QED BY <1>2, <4>1 DEF Crowd
    <3>3. CASE q # p /\ r # p
      <4>1. q \in crowded
        BY <2>1, <2>3, <3>3 DEF DecideInv
      <4> QED BY <1>2, <4>1 DEF Crowd
    <3> QED BY <3>1, <3>2, <3>3
  <2>4. ASSUME NEW g \in Files
        PROVE  /\ verdicts'[g] # {} => quarantine'[g] = "absent" /\ \A q \in Procs : job'[q].file # g
               /\ verdicts'[g] # {"approve", "reject"}
    BY <1>2, <2>1 DEF DecideInv
  <2> QED BY <2>3, <2>4 DEF DecideInv
<1>3. ASSUME NEW p \in Procs, NEW f \in Files, NEW d \in Docs, OpenFile(p, f, d) PROVE DecideInv'
  <2>1. JobStep(p) /\ job'[p] = [op |-> "submit", pc |-> "fill", file |-> f, doc |-> d, into |-> "file"]
    BY <1>3, Opening
  <2>2. /\ job[p].pc = "idle" /\ crowded' = Crowd(p, f) /\ verdicts'[f] = {}
        /\ \A g \in Files \ {f} : quarantine'[g] = quarantine[g] /\ verdicts'[g] = verdicts[g]
    BY <1>3 DEF OpenFile, TypeOK
  <2> QED BY <1>2, <2>1, <2>2
<1>4. ASSUME NEW p \in Procs, NEW f \in Files, Examine(p, f) \/ BeginReject(p, f) PROVE DecideInv'
  <2>1. JobStep(p)
    BY <1>4, Beginnings
  <2>2. job'[p].file = f
    <3>1. \/ job'[p] = [Idle EXCEPT !.op = "approve", !.pc = "read", !.file = f]
          \/ job'[p] = [Idle EXCEPT !.op = "reject", !.pc = "copy", !.file = f, !.doc = quarantine[f]]
      BY <1>4, Beginnings
    <3> QED BY <3>1, IdleJob DEF Job
  <2>3. quarantine[f] # "absent" /\ job[p].pc = "idle" /\ crowded' = Crowd(p, f)
    BY <1>4 DEF Examine, BeginReject, ClaimAssumption
  <2>4. UNCHANGED <<quarantine, verdicts>>
    BY <1>4 DEF Examine, BeginReject, disk
  <2>5. verdicts[f] = {}
    BY <2>3 DEF DecideInv
  <2> QED BY <1>2, <2>1, <2>2, <2>3, <2>4, <2>5
<1>5. ASSUME NEW p \in Procs, FillFile(p) PROVE DecideInv'
  <2> DEFINE f == job[p].file
  <2>1. JobStep(p) /\ job'[p].file = None /\ f \in Files
    BY <1>5, Ingestions, IdleFile DEF Ends, TypeOK, JobFits, FillFile
  <2>2. \A q \in Procs \ {p} : job'[q].file = job[q].file
    BY <2>1 DEF JobStep, SameBut
  <2>3. crowded' = crowded \ {p} /\ verdicts' = verdicts /\ \A g \in Files \ {f} : quarantine'[g] = quarantine[g]
    BY <1>5 DEF FillFile, TypeOK
  <2>4. verdicts[f] = {}
    BY <2>1 DEF DecideInv
  <2> QED BY <1>0, <2>1, <2>2, <2>3, <2>4 DEF DecideInv
<1>6. ASSUME NEW p \in Procs, Unlink(p) PROVE DecideInv'
  <2> DEFINE f == job[p].file
  <2>1. JobStep(p) /\ job'[p].file = None /\ f \in Files /\ job[p].op \in {"approve", "reject"}
    BY <1>6, Unlinks, IdleFile DEF TypeOK, JobFits, Unlink
  <2>2. \A q \in Procs \ {p} : job'[q].file = job[q].file
    BY <2>1 DEF JobStep, SameBut
  <2>3. /\ crowded' = crowded \ {p} /\ \A g \in Files \ {f} : quarantine'[g] = quarantine[g] /\ verdicts'[g] = verdicts[g]
        /\ quarantine'[f] = "absent"
        /\ verdicts'[f] = IF p \in crowded THEN verdicts[f] ELSE verdicts[f] \cup {job[p].op}
    BY <1>6, <2>1 DEF Unlink, TypeOK
  <2>4. verdicts[f] = {}
    BY <2>1 DEF DecideInv
  <2>5. p \notin crowded => \A q \in Procs \ {p} : job[q].file # f
    BY <2>1 DEF DecideInv
  <2>6. verdicts'[f] # {"approve", "reject"}
    BY <2>1, <2>3, <2>4
  <2>7. verdicts'[f] # {} => \A q \in Procs : job'[q].file # f
    BY <1>0, <2>1, <2>2, <2>3, <2>4, <2>5
  <2>8. \A q, r \in Procs : q # r /\ job'[q].file \in Files /\ job'[q].file = job'[r].file => q \in crowded'
    BY <1>0, <2>1, <2>2, <2>3 DEF DecideInv
  <2>9. \A g \in Files : /\ verdicts'[g] # {} => quarantine'[g] = "absent" /\ \A q \in Procs : job'[q].file # g
                        /\ verdicts'[g] # {"approve", "reject"}
    <3> TAKE g \in Files
    <3>1. CASE g = f
      BY <2>3, <2>6, <2>7, <3>1
    <3>2. CASE g # f
      BY <1>0, <2>1, <2>2, <2>3, <3>2 DEF DecideInv
    <3> QED BY <3>1, <3>2
  <2> QED BY <2>8, <2>9 DEF DecideInv
<1>7. ASSUME NEW p \in Procs,
             \/ ReadAgain(p) \/ CheckReplay(p) \/ OpenStaged(p) \/ FillStaged(p) \/ Replace(p)
             \/ AppendRows(p) \/ InsertRows(p) \/ InsertFails(p) \/ OpenCopy(p) \/ FillCopy(p)
             \/ Die(p) \/ \E d \in Docs : Ingest(p, d)
      PROVE  DecideInv'
  <2>1. UNCHANGED <<quarantine, verdicts>>
    BY <1>7 DEF ReadAgain, CheckReplay, OpenStaged, FillStaged, Replace, AppendRows, InsertRows,
                InsertFails, OpenCopy, FillCopy, Die, Ingest, disk, histories
  <2>2. crowded' \in {crowded, crowded \ {p}}
    BY <1>7 DEF ReadAgain, CheckReplay, OpenStaged, FillStaged, Replace, AppendRows, InsertRows,
                InsertFails, OpenCopy, FillCopy, Die, Ingest, disk, histories
  <2>3. job[p] \in Job
    BY DEF TypeOK
  <2>4. JobStep(p) /\ (job'[p].file = job[p].file \/ job'[p].file = None)
    <3>1. CASE Replace(p)
      <4>1. Ends(p) \/ (JobStep(p) /\ job'[p] = [job[p] EXCEPT !.pc = "index"])
        BY <3>1, Replaces
      <4> QED BY <2>3, <4>1, IdleFile DEF Ends, Job
    <3>2. CASE ReadAgain(p)
      <4>1. \/ Ends(p)
            \/ JobStep(p) /\ job'[p] = [job[p] EXCEPT !.pc = "exists", !.doc = quarantine[job[p].file]]
        BY <3>2, Ingestions
      <4> QED BY <2>3, <4>1, IdleFile DEF Ends, Job
    <3>3. CASE \E d \in Docs : Ingest(p, d)
      <4>1. PICK d \in Docs : Ingest(p, d)
        BY <3>3
      <4>2. JobStep(p) /\ job'[p] = [Idle EXCEPT !.op = "ingest", !.pc = "exists", !.doc = d]
        BY <4>1, Ingestions
      <4> QED BY <4>2, IdleFile, IdleJob DEF Job
    <3>4. CASE \/ CheckReplay(p) \/ OpenStaged(p) \/ FillStaged(p)
               \/ AppendRows(p) \/ InsertRows(p) \/ InsertFails(p) \/ OpenCopy(p) \/ FillCopy(p) \/ Die(p)
      <4>1. \/ Ends(p) \/ GoesOn(p, "stage", job[p].into) \/ GoesOn(p, "fill staged", "staged")
            \/ GoesOn(p, "replace", "none") \/ GoesOn(p, "table", job[p].into)
            \/ GoesOn(p, "unlink", job[p].into) \/ GoesOn(p, "fill copy", job[p].into)
        BY <3>4, Ingestions
      <4> QED BY <2>3, <4>1, IdleFile, ZenonT(40) DEF Ends, GoesOn, Job
    <3> QED BY <1>7, <3>1, <3>2, <3>3, <3>4
  <2>5. crowded' # crowded => job'[p].file = None
    <3>1. CASE crowded' # crowded
      <4>1. job'[p] = Idle
        BY <1>7, <3>1, IdleJob DEF ReadAgain, CheckReplay, OpenStaged, FillStaged, Replace, AppendRows, InsertRows,
                InsertFails, OpenCopy, FillCopy, Die, Ingest, histories, TypeOK
      <4> QED BY <4>1, IdleFile
    <3> QED BY <3>1
  <2> QED BY <2>1, <2>2, <2>4, <2>5, StaysOrLeaves
<1> QED BY <1>1, <1>3, <1>4, <1>5, <1>6, <1>7 DEF Next

LEMMA Decisions == ClaimAssumption => (Spec => [](TypeOK /\ DecideInv))
<1> SUFFICES ASSUME ClaimAssumption PROVE Spec => [](TypeOK /\ DecideInv)
  OBVIOUS
<1>1. Init => TypeOK /\ DecideInv
  <2>1. Init => TypeOK
    BY IdleJob DEF Init, TypeOK, Content
  <2>2. Init => DecideInv
    BY IdleFile DEF Init, DecideInv, ClaimAssumption
  <2> QED BY <2>1, <2>2
<1>2. (TypeOK /\ DecideInv) /\ [Next]_vars => (TypeOK /\ DecideInv)'
  BY TypeStep, DecideStep
<1> QED BY <1>1, <1>2, PTL DEF Spec

\* A submission is not both approved and rejected, but by decisions that overlap.
THEOREM SubmissionsAreDecidedOnce == ClaimAssumption => (Spec => []DecidedOnce)
<1>1. DecideInv => DecidedOnce
  BY DEF DecideInv, DecidedOnce
<1> QED BY <1>1, Decisions, PTL

-----------------------------------------------------------------------------
(* What is stored *)

Good(i) == {d \in Genuine : IdOf[d] = i}
Holds(p, i, into) == Ingesting(p, i) /\ job[p].into = into

\* The texts of a bundle's files, and that an open file is moved by another ingestion only.
StoreInv(i) ==
    /\ stored[i] \in {"absent", "empty"} \cup Good(i)
    /\ staged[i] \in {"absent", "empty"} \cup Good(i)
    /\ \A p \in Procs : Holds(p, i, "stored") \/ Holds(p, i, "gone") => i \in raced

\* Somebody will fill the stored file, if it is empty; and somebody the staging file,
\* if it is empty when a caller is past it, with its own text written.
Past(p, i) == \/ Ingesting(p, i) /\ job[p].pc = "replace"
              \/ Holds(p, i, "stored") \/ Holds(p, i, "gone")
Filled(i) == stored[i] = "empty" => \E p \in Procs : Holds(p, i, "stored")
Follows(p, i) == Past(p, i) /\ staged[i] = "empty" => \E q \in Procs : Holds(q, i, "staged")

WholeInv(i) ==
    /\ StoreInv(i)
    /\ i \notin halved => Filled(i) /\ \A p \in Procs : Follows(p, i)

\* What a step leaves true of a bundle's files, unless a caller that shares them dies.
StoreStays(i) ==
    /\ StoreInv(i)'
    /\ stored[i] # "absent" => stored'[i] # "absent"
    /\ \A p \in Procs : Follows(p, i) => Follows(p, i)'
    /\ Filled(i) /\ (\A p \in Procs : Follows(p, i)) => Filled(i)'
Halves(p, i) == Die(p) /\ i \in raced /\ Ingesting(p, i)

\* A step that leaves a bundle's files and the open files on it alone.
LEMMA FilesRest ==
    ASSUME NEW i \in Ids, StoreInv(i), stored'[i] = stored[i], staged'[i] = staged[i],
           i \in raced => i \in raced',
           \A q \in Procs : /\ Holds(q, i, "staged")' <=> Holds(q, i, "staged")
                            /\ Holds(q, i, "stored")' <=> Holds(q, i, "stored")
                            /\ Holds(q, i, "gone")' <=> Holds(q, i, "gone")
                            /\ (Ingesting(q, i) /\ job[q].pc = "replace")'
                               => Ingesting(q, i) /\ job[q].pc = "replace"
    PROVE  StoreStays(i)
BY DEF StoreInv, StoreStays, Follows, Past, Filled, Good

\* A step of a caller that ingests another bundle, or none.
LEMMA NotThis ==
    ASSUME TypeOK, NEW p \in Procs, JobStep(p), NEW i \in Ids, StoreInv(i),
           ~ Ingesting(p, i), ~ Ingesting(p, i)',
           stored'[i] = stored[i], staged'[i] = staged[i], i \in raced => i \in raced',
           \A q \in Procs \ {p} : Ingesting(q, i) => job'[q].into = job[q].into
    PROVE  StoreStays(i)
<1>1. \A q \in Procs : /\ Ingesting(q, i)' <=> Ingesting(q, i)
                       /\ Ingesting(q, i) => job'[q].pc = job[q].pc /\ job'[q].into = job[q].into
  BY OthersGoOn
<1> QED BY <1>1, FilesRest DEF Holds

\* A step that leaves every file of the store, every ingestion and every open file alone.
LEMMA NoneOfThese ==
    ASSUME TypeOK, NEW p \in Procs, JobStep(p), NEW i \in Ids, StoreInv(i),
           ~ Ingesting(p, i) /\ ~ Ingesting(p, i)',
           UNCHANGED <<stored, staged, raced>>,
           \A q \in Procs \ {p} : job'[q] = job[q]
    PROVE  StoreStays(i)
BY NotThis

\* A step of a caller that has no file open, before or after, and leaves the files of
\* the bundle alone.
LEMMA NoHandle ==
    ASSUME TypeOK, NEW p \in Procs, JobStep(p), NEW i \in Ids, StoreInv(i),
           job[p].into = "none", job'[p].into = "none", job'[p].pc # "replace",
           stored'[i] = stored[i], staged'[i] = staged[i], i \in raced => i \in raced',
           \A q \in Procs \ {p} : Ingesting(q, i) => job'[q].into = job[q].into
    PROVE  StoreStays(i)
<1>1. \A q \in Procs \ {p} : /\ Ingesting(q, i)' <=> Ingesting(q, i)
                             /\ Ingesting(q, i) => job'[q].pc = job[q].pc /\ job'[q].into = job[q].into
  BY OthersGoOn
<1> QED BY <1>1, FilesRest DEF Holds

\* os.replace, for the bundle it stores: the open files follow.
LEMMA Renames ==
    ASSUME ClaimAssumption, TypeOK, NEW p \in Procs, Replace(p), NEW i \in Ids,
           i = IdOf[job[p].doc], staged[i] # "absent"
    PROVE  /\ Ingesting(p, i) /\ job[p].pc = "replace"
           /\ stored'[i] = staged[i] /\ staged'[i] = "absent" /\ stored'[i] # "absent"
           /\ \A q \in Procs : Holds(q, i, "staged") => Holds(q, i, "stored")' /\ q # p
           /\ Follows(p, i) => Filled(i)'
           /\ \A q \in Procs : Follows(q, i)'
<1>1. job[p].pc = "replace" /\ job[p].into = "none" /\ Ingesting(p, i)
  BY IngestsOne DEF Replace, TypeOK, JobFits, Storing
<1>2. JobStep(p) /\ \A q \in Procs \ {p} : job'[q] = Moved(job[q], i)
  BY Replaces, EndJob, IdleJob DEF Ends, Replace, TypeOK
<1>3. stored'[i] = staged[i] /\ staged'[i] = "absent" /\ stored'[i] # "absent"
  BY DEF Replace, TypeOK, ClaimAssumption
<1>4. ASSUME NEW q \in Procs, Holds(q, i, "staged") PROVE Holds(q, i, "stored")' /\ q # p
  <2>1. q # p
    BY <1>1, <1>4 DEF Holds
  <2>2. job[q] \in Job /\ job[q].doc \in Docs /\ IdOf[job[q].doc] = i /\ job[q].into = "staged"
    BY <1>4 DEF TypeOK, Holds, Ingesting
  <2>3. job'[q].into = "stored"
    BY <1>2, <2>1, <2>2 DEF Moved, Job
  <2>4. Ingesting(q, i)'
    BY <1>2, <1>4, <2>1, OthersGoOn DEF Holds
  <2> QED BY <2>1, <2>3, <2>4 DEF Holds
<1>5. Follows(p, i) => Filled(i)'
  <2>1. Follows(p, i) /\ staged[i] = "empty" => \E q \in Procs : Holds(q, i, "staged")
    BY <1>1 DEF Follows, Past
  <2> QED BY <1>3, <1>4, <2>1 DEF Filled
<1>6. \A q \in Procs : Follows(q, i)'
  BY <1>3 DEF Follows
<1> QED BY <1>1, <1>3, <1>4, <1>5, <1>6

LEMMA StoreStep ==
    ASSUME ClaimAssumption, TypeOK, NEW i \in Ids, IngestInv(i), StoreInv(i), [Next]_vars
    PROVE  \/ StoreStays(i)
           \/ \E p \in Procs : Halves(p, i) /\ UNCHANGED <<stored, staged>> /\ StoreInv(i)'
<1>1. CASE UNCHANGED vars
  BY <1>1, FilesRest DEF vars, disk, histories, Ingesting, Holds
<1>2. ASSUME NEW p \in Procs, NEW f \in Files,
             Examine(p, f) \/ BeginReject(p, f) \/ \E d \in Docs : OpenFile(p, f, d)
      PROVE  StoreStays(i)
  <2>1. /\ JobStep(p) /\ \A q \in Procs \ {p} : job'[q] = job[q]
        /\ job'[p].pc \in {"read", "copy", "fill"}
    <3>1. CASE Examine(p, f)
      <4>1. job'[p] = [Idle EXCEPT !.op = "approve", !.pc = "read", !.file = f]
        BY <3>1, Beginnings
      <4> QED BY <3>1, <4>1, Beginnings, IdleJob DEF Job
    <3>2. CASE BeginReject(p, f)
      <4>1. job'[p] = [Idle EXCEPT !.op = "reject", !.pc = "copy", !.file = f, !.doc = quarantine[f]]
        BY <3>2, Beginnings
      <4> QED BY <3>2, <4>1, Beginnings, IdleJob DEF Job
    <3>3. CASE \E d \in Docs : OpenFile(p, f, d)
      <4>1. PICK d \in Docs : OpenFile(p, f, d)
        BY <3>3
      <4>2. job'[p] = [op |-> "submit", pc |-> "fill", file |-> f, doc |-> d, into |-> "file"]
        BY <4>1, Opening
      <4>3. JobStep(p) /\ \A q \in Procs \ {p} : job'[q] = job[q]
        BY <4>1, Opening
      <4> QED BY <4>2, <4>3
    <3> QED BY <1>2, <3>1, <3>2, <3>3
  <2>2. job[p].pc = "idle" /\ UNCHANGED <<stored, staged, raced>>
    BY <1>2 DEF Examine, BeginReject, OpenFile, disk
  <2>3. ~ Ingesting(p, i) /\ ~ Ingesting(p, i)'
    BY <2>1, <2>2 DEF Ingesting, Storing
  <2> QED BY <2>1, <2>2, <2>3, NoneOfThese
<1>3. ASSUME NEW p \in Procs, FillFile(p) \/ OpenCopy(p) \/ FillCopy(p)
      PROVE  StoreStays(i)
  <2>1. \/ Ends(p) \/ GoesOn(p, "fill copy", job[p].into) \/ GoesOn(p, "unlink", job[p].into)
    BY <1>3, Ingestions
  <2>2. /\ JobStep(p) /\ \A q \in Procs \ {p} : job'[q] = job[q]
        /\ job'[p].pc \in {"idle", "fill copy", "unlink"}
    <3>1. job[p] \in Job
      BY DEF TypeOK
    <3> QED BY <2>1, <3>1, IdlePc DEF Ends, GoesOn, Job
  <2>3. job[p].pc \in {"fill", "copy", "fill copy"} /\ UNCHANGED <<stored, staged, raced>>
    BY <1>3 DEF FillFile, OpenCopy, FillCopy, histories
  <2>4. ~ Ingesting(p, i) /\ ~ Ingesting(p, i)'
    BY <2>2, <2>3 DEF Ingesting, Storing
  <2> QED BY <2>2, <2>3, <2>4, NoneOfThese
<1>4. ASSUME NEW p \in Procs, ReadAgain(p) \/ \E d \in Docs : Ingest(p, d)
      PROVE  StoreStays(i)
  <2>1. \/ Ends(p)
        \/ /\ JobStep(p) /\ \A q \in Procs \ {p} : job'[q] = job[q]
           /\ \/ job'[p] = [job[p] EXCEPT !.pc = "exists", !.doc = quarantine[job[p].file]]
              \/ \E d \in Docs : job'[p] = [Idle EXCEPT !.op = "ingest", !.pc = "exists", !.doc = d]
    BY <1>4, Ingestions
  <2>2. /\ JobStep(p) /\ \A q \in Procs \ {p} : job'[q] = job[q]
        /\ job'[p].pc \in {"idle", "exists"}
    <3>1. job[p] \in Job
      BY DEF TypeOK
    <3> QED BY <2>1, <3>1, IdlePc, IdleJob DEF Ends, Job
  <2>3. job[p].pc \in {"idle", "read"} /\ UNCHANGED <<stored, staged, raced>>
    BY <1>4 DEF ReadAgain, Ingest, disk, histories
  <2>4. ~ Ingesting(p, i) /\ ~ Ingesting(p, i)'
    BY <2>2, <2>3 DEF Ingesting, Storing
  <2> QED BY <2>2, <2>3, <2>4, NoneOfThese
<1>5. ASSUME NEW p \in Procs, CheckReplay(p) PROVE StoreStays(i)
  <2>1. Ends(p) \/ GoesOn(p, "stage", job[p].into)
    BY <1>5, Ingestions
  <2>2. /\ JobStep(p) /\ \A q \in Procs \ {p} : job'[q] = job[q]
        /\ job'[p].pc # "replace" /\ job'[p].into = "none"
    <3>1. job[p] \in Job /\ job[p].into = "none" /\ Idle.into = "none"
      BY <1>5 DEF TypeOK, CheckReplay, JobFits, Job, Idle
    <3> QED BY <2>1, <3>1, IdlePc DEF Ends, GoesOn, Job
  <2>3. /\ job[p].pc = "exists" /\ UNCHANGED <<stored, staged>>
        /\ i \in raced => i \in raced'
    BY <1>5 DEF CheckReplay, disk
  <2>4. ~ Ingesting(p, i)
    BY <2>3 DEF Ingesting
  <2>5. \A q \in Procs : /\ Holds(q, i, "staged")' <=> Holds(q, i, "staged")
                         /\ Holds(q, i, "stored")' <=> Holds(q, i, "stored")
                         /\ Holds(q, i, "gone")' <=> Holds(q, i, "gone")
    BY <2>2, <2>4 DEF Holds, Ingesting
  <2>6. \A q \in Procs : (Ingesting(q, i) /\ job[q].pc = "replace")' <=> (Ingesting(q, i) /\ job[q].pc = "replace")
    BY <2>2, <2>4 DEF Ingesting
  <2> QED BY <2>3, <2>5, <2>6, FilesRest
<1>6. ASSUME NEW p \in Procs, OpenStaged(p) PROVE StoreStays(i)
  <2> DEFINE k == IdOf[job[p].doc]
  <2>0. job[p] \in Job /\ job[p].pc = "stage" /\ job[p].into = "none"
    BY <1>6 DEF TypeOK, OpenStaged, JobFits
  <2>1. GoesOn(p, "fill staged", "staged")
    BY <1>6, Ingestions
  <2>2. /\ JobStep(p) /\ \A q \in Procs \ {p} : job'[q] = job[q]
        /\ job'[p].pc = "fill staged" /\ job'[p].into = "staged" /\ job'[p].doc = job[p].doc
        /\ job'[p].op = job[p].op
    BY <2>0, <2>1 DEF GoesOn, Job
  <2>3. \A n \in Ids : Ingesting(p, n) <=> n = k
    BY <2>0, IngestsOne DEF Storing
  <2>4. \A n \in Ids : Ingesting(p, n)' <=> Ingesting(p, n)
    BY <2>0, <2>2 DEF Ingesting, Storing
  <2>5. UNCHANGED <<stored, raced>> /\ staged' = [staged EXCEPT ![k] = "empty"] /\ staged \in [Ids -> Content]
    BY <1>6 DEF OpenStaged, histories, TypeOK
  <2>6. CASE i # k
    <3>1. stored'[i] = stored[i] /\ staged'[i] = staged[i] /\ ~ Ingesting(p, i) /\ ~ Ingesting(p, i)'
      BY <2>3, <2>4, <2>5, <2>6
    <3> QED BY <2>2, <2>5, <3>1, NotThis
  <2>7. CASE i = k
    <3>1. staged'[i] = "empty" /\ Holds(p, i, "staged")'
      BY <2>2, <2>3, <2>4, <2>5, <2>7 DEF Holds
    <3>2. \A q \in Procs : /\ Holds(q, i, "stored")' <=> Holds(q, i, "stored")
                           /\ Holds(q, i, "gone")' <=> Holds(q, i, "gone")
      BY <2>0, <2>2 DEF Holds, Ingesting
    <3> QED BY <2>5, <3>1, <3>2 DEF StoreInv, StoreStays, Filled, Follows, Good
  <2> QED BY <2>6, <2>7
<1>7. ASSUME NEW p \in Procs, FillStaged(p) PROVE StoreStays(i)
  <2> DEFINE k == IdOf[job[p].doc]
  <2>0. job[p] \in Job /\ job[p].pc = "fill staged" /\ JobFits(job[p]) /\ job[p].into \in {"staged", "stored", "gone"}
    BY <1>7 DEF TypeOK, FillStaged, JobFits
  <2>1. GoesOn(p, "replace", "none")
    BY <1>7, Ingestions
  <2>2. /\ JobStep(p) /\ \A q \in Procs \ {p} : job'[q] = job[q]
        /\ job'[p].pc = "replace" /\ job'[p].into = "none" /\ job'[p].doc = job[p].doc
        /\ job'[p].op = job[p].op
    BY <2>0, <2>1 DEF GoesOn, Job
  <2>3. (\A n \in Ids : Ingesting(p, n) <=> n = k) /\ k \in Ids /\ job[p].doc \in Good(k)
    BY <2>0, IngestsOne DEF Storing, Good
  <2>4. \A n \in Ids : Ingesting(p, n)' <=> Ingesting(p, n)
    BY <2>0, <2>2 DEF Ingesting, Storing
  <2>5. raced' = raced /\ staged \in [Ids -> Content] /\ stored \in [Ids -> Content]
    BY <1>7 DEF FillStaged, histories, TypeOK
  <2>6. \/ job[p].into = "staged" /\ staged' = [staged EXCEPT ![k] = job[p].doc] /\ stored' = stored
        \/ job[p].into = "stored" /\ stored' = [stored EXCEPT ![k] = job[p].doc] /\ staged' = staged
        \/ job[p].into = "gone" /\ staged' = staged /\ stored' = stored
    BY <1>7 DEF FillStaged
  <2>7. CASE i # k
    <3>1. stored'[i] = stored[i] /\ staged'[i] = staged[i] /\ ~ Ingesting(p, i) /\ ~ Ingesting(p, i)'
      BY <2>3, <2>4, <2>5, <2>6, <2>7
    <3> QED BY <2>2, <2>5, <3>1, NotThis
  <2>8. CASE i = k
    <3>1. \A q \in Procs : /\ Holds(q, i, "stored")' <=> q # p /\ Holds(q, i, "stored")
                           /\ Holds(q, i, "gone")' <=> q # p /\ Holds(q, i, "gone")
                           /\ Holds(q, i, "staged")' <=> q # p /\ Holds(q, i, "staged")
      BY <2>2 DEF Holds, Ingesting
    <3>2. Holds(p, i, job[p].into)
      BY <2>3, <2>8 DEF Holds
    <3>3. \A q \in Procs \ {p} : (Ingesting(q, i) /\ job[q].pc = "replace")' <=> (Ingesting(q, i) /\ job[q].pc = "replace")
      BY <2>2 DEF Ingesting
    <3>4. job[p].doc # "empty"
      BY <2>3 DEF Good, ClaimAssumption
    <3>5. CASE job[p].into = "staged"
      <4>1. staged'[i] = job[p].doc /\ stored'[i] = stored[i]
        BY <2>5, <2>6, <2>8, <3>5
      <4>2. \A q \in Procs : Holds(q, i, "stored") => q # p
        BY <3>5 DEF Holds
      <4> QED BY <2>3, <2>5, <2>8, <3>1, <3>3, <3>4, <4>1, <4>2
          DEF StoreInv, StoreStays, Filled, Follows, Past, Good, ClaimAssumption
    <3>6. CASE job[p].into = "stored"
      <4>1. stored'[i] = job[p].doc /\ staged'[i] = staged[i]
        BY <2>5, <2>6, <2>8, <3>6
      <4>2. Follows(p, i) /\ staged[i] = "empty" => \E q \in Procs : q # p /\ Holds(q, i, "staged")
        BY <3>2, <3>6 DEF Follows, Past, Holds
      <4> QED BY <2>3, <2>5, <2>8, <3>1, <3>3, <3>4, <4>1, <4>2
          DEF StoreInv, StoreStays, Filled, Follows, Past, Good, ClaimAssumption
    <3>7. CASE job[p].into = "gone"
      <4>1. stored' = stored /\ staged' = staged
        BY <2>6, <3>7
      <4>2. Follows(p, i) /\ staged[i] = "empty" => \E q \in Procs : q # p /\ Holds(q, i, "staged")
        BY <3>2, <3>7 DEF Follows, Past, Holds
      <4>3. \A q \in Procs : Holds(q, i, "stored") => q # p
        BY <3>7 DEF Holds
      <4> QED BY <2>5, <3>1, <3>3, <4>1, <4>2, <4>3 DEF StoreInv, StoreStays, Filled, Follows, Past, Good
    <3> QED BY <2>0, <3>5, <3>6, <3>7
  <2> QED BY <2>7, <2>8
<1>8. ASSUME NEW p \in Procs, Replace(p) PROVE StoreStays(i)
  <2> DEFINE k == IdOf[job[p].doc]
  <2>0. job[p] \in Job /\ job[p].pc = "replace" /\ JobFits(job[p]) /\ job[p].into = "none"
    BY <1>8 DEF TypeOK, Replace, JobFits
  <2>1. (\A n \in Ids : Ingesting(p, n) <=> n = k) /\ k \in Ids
    BY <2>0, IngestsOne DEF Storing
  <2>2. raced' = raced /\ staged \in [Ids -> Content] /\ stored \in [Ids -> Content]
    BY <1>8 DEF Replace, TypeOK
  <2>3. CASE Ends(p) /\ UNCHANGED <<staged, stored>>
    <3>1. JobStep(p) /\ job'[p].into = "none" /\ job'[p].pc # "replace" /\ \A q \in Procs \ {p} : job'[q] = job[q]
      BY <2>3 DEF Ends, Idle
    <3> QED BY <2>0, <2>2, <2>3, <3>1, NoHandle
  <2>4. CASE /\ JobStep(p) /\ staged[k] # "absent"
             /\ job'[p] = [job[p] EXCEPT !.pc = "index"]
             /\ \A q \in Procs \ {p} : job'[q] = Moved(job[q], k)
    <3>1. stored' = [stored EXCEPT ![k] = staged[k]] /\ staged' = [staged EXCEPT ![k] = "absent"]
      BY <1>8, <2>4 DEF Replace
    <3>2. job'[p].pc = "index" /\ job'[p].into = "none"
      BY <2>0, <2>4 DEF Job
    <3>3. \A n \in Ids : Ingesting(p, n)' <=> Ingesting(p, n)
      BY <2>0, <2>4 DEF Ingesting, Storing, Job
    <3>4. CASE i # k
      <4>1. ASSUME NEW q \in Procs \ {p}, Ingesting(q, i) PROVE job'[q].into = job[q].into
        <5>1. IdOf[job[q].doc] # k
          BY <3>4, <4>1 DEF Ingesting
        <5> QED BY <2>4, <5>1 DEF Moved
      <4>2. stored'[i] = stored[i] /\ staged'[i] = staged[i] /\ ~ Ingesting(p, i) /\ ~ Ingesting(p, i)'
        BY <2>1, <2>2, <3>1, <3>3, <3>4
      <4> QED BY <2>2, <2>4, <4>1, <4>2, NotThis
    <3>5. CASE i = k
      <4>1. /\ stored'[i] = staged[i] /\ stored'[i] # "absent"
            /\ Follows(p, i) => Filled(i)'
            /\ \A q \in Procs : Follows(q, i)'
        BY <1>8, <2>4, <3>5, Renames
      <4>3. ASSUME NEW q \in Procs, Holds(q, i, "stored")' \/ Holds(q, i, "gone")'
            PROVE  i \in raced'
        <5>1. q # p
          BY <3>2, <4>3 DEF Holds
        <5>2. Ingesting(q, i)
          BY <2>4, <4>3, <5>1, OthersGoOn DEF Holds
        <5>3. Ingesting(p, i)
          BY <2>1, <3>5
        <5> QED BY <2>2, <5>1, <5>2, <5>3 DEF IngestInv
      <4>4. /\ stored'[i] \in {"absent", "empty"} \cup Good(i)
            /\ staged'[i] \in {"absent", "empty"} \cup Good(i)
        BY <2>2, <3>1, <3>5, <4>1 DEF StoreInv
      <4> QED BY <4>1, <4>3, <4>4 DEF StoreInv, StoreStays, Good
    <3> QED BY <3>4, <3>5
  <2> QED BY <1>8, <2>3, <2>4, Replaces
<1>9. ASSUME NEW p \in Procs, AppendRows(p) \/ InsertRows(p) \/ InsertFails(p)
      PROVE  StoreStays(i)
  <2>0. job[p] \in Job /\ JobFits(job[p]) /\ job[p].pc \in {"index", "table"}
    BY <1>9 DEF TypeOK, AppendRows, InsertRows, InsertFails
  <2>1. job[p].into = "none"
    BY <2>0 DEF JobFits
  <2>2. Ends(p) \/ GoesOn(p, "table", job[p].into) \/ GoesOn(p, "unlink", job[p].into)
    BY <1>9, Ingestions
  <2>3. /\ JobStep(p) /\ \A q \in Procs \ {p} : job'[q] = job[q]
        /\ job'[p].into = "none" /\ job'[p].pc # "replace"
    <3>1. CASE Ends(p)
      BY <3>1, IdlePc DEF Ends, Idle
    <3>2. CASE GoesOn(p, "table", job[p].into) \/ GoesOn(p, "unlink", job[p].into)
      BY <2>0, <2>1, <3>2 DEF GoesOn, Job
    <3> QED BY <2>2, <3>1, <3>2
  <2>4. UNCHANGED <<stored, staged, raced>>
    BY <1>9 DEF AppendRows, InsertRows, InsertFails, disk
  <2> QED BY <2>1, <2>3, <2>4, NoHandle
<1>10. ASSUME NEW p \in Procs, Unlink(p) PROVE StoreStays(i)
  <2>1. JobStep(p) /\ job'[p] = Idle
    BY <1>10, Unlinks
  <2>2. ASSUME NEW q \in Procs \ {p}, Ingesting(q, i) PROVE job'[q].into = job[q].into
    <3>1. job[q].into # "file"
      BY <2>2 DEF TypeOK, JobFits, Ingesting, Storing
    <3> QED BY <1>10, <3>1, Unlinks
  <2>3. ~ Ingesting(p, i) /\ ~ Ingesting(p, i)'
    BY <1>10, <2>1, NotAnyMore DEF Unlink, Ingesting, Storing
  <2>4. UNCHANGED <<stored, staged, raced>>
    BY <1>10 DEF Unlink
  <2> QED BY <2>1, <2>2, <2>3, <2>4, NotThis
<1>11. ASSUME NEW p \in Procs, Die(p)
      PROVE  StoreStays(i) \/ (Halves(p, i) /\ UNCHANGED <<stored, staged>> /\ StoreInv(i)')
  <2>1. Ends(p)
    BY <1>11, Ingestions
  <2>2. JobStep(p) /\ ~ Ingesting(p, i)' /\ \A q \in Procs \ {p} : job'[q] = job[q]
    BY <2>1, NotAnyMore DEF Ends
  <2>3. UNCHANGED <<stored, staged, raced>>
    BY <1>11 DEF Die, disk
  <2>4. CASE ~ Ingesting(p, i)
    BY <2>2, <2>3, <2>4, NotThis
  <2>5. CASE Ingesting(p, i) /\ i \in raced
    <3>1. StoreInv(i)'
      <4>1. \A q \in Procs : Ingesting(q, i)' => Ingesting(q, i) /\ job'[q] = job[q]
        BY <2>2, OthersGoOn
      <4>2. \A q \in Procs : Holds(q, i, "stored")' \/ Holds(q, i, "gone")'
                               => Holds(q, i, "stored") \/ Holds(q, i, "gone")
        BY <4>1 DEF Holds
      <4> QED BY <2>3, <4>2 DEF StoreInv, Good
    <3>2. Halves(p, i)
      BY <1>11, <2>5 DEF Halves
    <3> QED BY <2>3, <3>1, <3>2
  <2>6. CASE Ingesting(p, i) /\ i \notin raced
    <3>1. \A q \in Procs : ~ Ingesting(q, i)'
      <4>1. \A q \in Procs \ {p} : ~ Ingesting(q, i)
        BY <2>6 DEF IngestInv
      <4>2. \A q \in Procs \ {p} : ~ Ingesting(q, i)'
        BY <2>2, <4>1, OthersGoOn
      <4> QED BY <2>2, <4>2
    <3>2. \A q \in Procs : ~ Holds(q, i, "stored")
      BY <2>6 DEF StoreInv
    <3> QED BY <2>3, <3>1, <3>2 DEF StoreInv, StoreStays, Filled, Follows, Past, Good, Holds
  <2> QED BY <2>4, <2>5, <2>6
<1> QED BY <1>1, <1>2, <1>3, <1>4, <1>5, <1>6, <1>7, <1>8, <1>9, <1>10, <1>11 DEF Next

LEMMA WholeStep ==
    ASSUME ClaimAssumption, TypeOK, \A i \in Ids : IngestInv(i) /\ WholeInv(i), [Next]_vars
    PROVE  \A i \in Ids : WholeInv(i)'
<1> TAKE i \in Ids
<1>1. IngestInv(i) /\ StoreInv(i)
  BY DEF WholeInv
<1>2. halved \subseteq halved'
  BY ZenonT(40) DEF Next, vars, disk, histories, OpenFile, FillFile, Examine, ReadAgain, Ingest, CheckReplay,
         OpenStaged, FillStaged, Replace, AppendRows, InsertRows, InsertFails, BeginReject,
         OpenCopy, FillCopy, Unlink, Die
<1>3. CASE StoreStays(i)
  BY <1>2, <1>3 DEF StoreStays, WholeInv
<1>4. ASSUME NEW p \in Procs, Halves(p, i), StoreInv(i)' PROVE WholeInv(i)'
  <2>1. i \in halved'
    BY <1>4 DEF Halves, Die
  <2> QED BY <1>4, <2>1 DEF WholeInv
<1> QED BY <1>1, <1>3, <1>4, StoreStep

LEMMA Wholeness ==
    ClaimAssumption => (Spec => [](TypeOK /\ \A i \in Ids : IngestInv(i) /\ WholeInv(i)))
<1> SUFFICES ASSUME ClaimAssumption
             PROVE  Spec => [](TypeOK /\ \A i \in Ids : IngestInv(i) /\ WholeInv(i))
  OBVIOUS
<1>1. Init => \A i \in Ids : WholeInv(i)
  BY IdleJob DEF Init, WholeInv, StoreInv, Filled, Follows, Past, Holds, Ingesting, Idle
<1>2. /\ TypeOK /\ (\A i \in Ids : IngestInv(i)) /\ (\A i \in Ids : WholeInv(i))
      /\ [Next]_vars
      => (\A i \in Ids : WholeInv(i))'
  BY WholeStep
<1>3. (\A i \in Ids : IngestInv(i)) /\ (\A i \in Ids : WholeInv(i))
      <=> \A i \in Ids : IngestInv(i) /\ WholeInv(i)
  OBVIOUS
<1> QED BY <1>1, <1>2, <1>3, Ingestion, PTL DEF Spec

\* What is stored under an id is a whole genuine bundle of it.
THEOREM StoredBundlesAreWhole == ClaimAssumption => (Spec => []StoredIsWhole)
<1>1. (\A i \in Ids : IngestInv(i) /\ WholeInv(i)) => StoredIsWhole
  BY DEF WholeInv, StoreInv, Filled, StoredIsWhole, Good, Holds
<1> QED BY <1>1, Wholeness, PTL

-----------------------------------------------------------------------------
(* What is kept *)

\* The bundle of a document is stored, or somebody will fill its file.
Relied(i) == stored[i] # "absent" /\ Filled(i) /\ \A p \in Procs : Follows(p, i)
\* Its copy is in rejected/, or somebody is writing it.
At(p, f) == job[p].file = f
Copied(f, k) == rejected[f] = k \/ \E p \in Procs : At(p, f) /\ job[p].pc = "fill copy"

\* A caller at a file that was given the document k has come for k, and removes the file
\* only when k is elsewhere.
WorkOK(p, f, k) ==
    /\ job[p].op # "submit"
    /\ job[p].op = "reject" => job[p].doc = k
    /\ job[p].op = "approve" /\ job[p].pc # "read" => job[p].doc = k
    /\ p \notin crowded => quarantine[f] = k
    /\ job[p].pc = "fill copy" => rejected[f] \in {"empty", k}
    /\ job[p].op = "reject" /\ job[p].pc = "unlink" => Copied(f, k) \/ Relied(IdOf[k])
    /\ job[p].op = "approve" /\ job[p].pc \in {"fill staged", "replace"} => Follows(p, IdOf[k])
    /\ job[p].op = "approve" /\ job[p].pc \in {"index", "table", "unlink"} => Relied(IdOf[k])
KeptOK(f, k) ==
    /\ quarantine[f] \in {k, "absent"}
    /\ quarantine[f] = k \/ Copied(f, k) \/ Relied(IdOf[k])
    /\ \A p \in Procs : At(p, f) => WorkOK(p, f, k)

\* A caller that is alone with the file it submits finds it as it emptied it.
FillOK(p) == job[p].pc = "fill" /\ p \notin crowded =>
               job[p].into = "file" /\ quarantine[job[p].file] = "empty"
KeptInv == /\ \A f \in Files, k \in Docs : kept[f] = k => KeptOK(f, k)
           /\ \A p \in Procs : FillOK(p)

\* What the store holds of a document that is kept stays: nobody died who shared it.
LEMMA ReliedStays ==
    ASSUME ClaimAssumption, TypeOK, \A i \in Ids : IngestInv(i) /\ WholeInv(i), [Next]_vars,
           NEW f \in Files, NEW k \in Docs, kept'[f] = k \/ k \notin spoilt'[f]
    PROVE  /\ Relied(IdOf[k]) => Relied(IdOf[k])'
           /\ \A q \in Procs : Follows(q, IdOf[k]) => Follows(q, IdOf[k])'
<1>1. PICK i \in Ids : i = IdOf[k]
  BY DEF ClaimAssumption
<1>2. ASSUME NEW p \in Procs, Halves(p, i) PROVE FALSE
  <2>1. PICK d \in Docs : job[p].doc = d /\ IdOf[d] = i /\ i \in raced
    BY <1>2 DEF Halves, Ingesting
  <2>2. k \in Endangered(p, f)
    BY <1>1, <2>1 DEF Endangered
  <2>3. kept'[f] # k /\ k \in spoilt'[f]
    <3>1. Die(p) /\ k # None
      BY <1>2 DEF Halves, ClaimAssumption
    <3> QED BY <2>2, <3>1 DEF Die
  <2> QED BY <2>3
<1>3. StoreStays(i)
  BY <1>2, StoreStep DEF WholeInv
<1>4. (Relied(i) => Relied(i)') /\ \A q \in Procs : Follows(q, i) => Follows(q, i)'
  BY <1>3 DEF StoreStays, Relied
<1> QED BY <1>1, <1>4

\* What a step of a caller does about a file that keeps its document.
KeptMoves(p, f, k) ==
    /\ JobStep(p) /\ crowded \ {p} \subseteq crowded'
    /\ \/ quarantine'[f] = quarantine[f]
       \/ At(p, f) /\ job[p].pc = "unlink" /\ quarantine'[f] = "absent"
    /\ rejected'[f] \in {rejected[f], "empty", k}
    /\ \/ Copied(f, k) => Copied(f, k)'
       \/ At(p, f) /\ p \notin crowded /\ quarantine'[f] = quarantine[f] /\ ~ At(p, f)'
    /\ At(p, f)' => WorkOK(p, f, k)'

LEMMA KeptOn ==
    ASSUME ClaimAssumption, TypeOK, DecideInv, NEW p \in Procs, NEW f \in Files, NEW k \in Docs,
           KeptOK(f, k), KeptMoves(p, f, k),
           Relied(IdOf[k]) => Relied(IdOf[k])',
           \A q \in Procs : Follows(q, IdOf[k]) => Follows(q, IdOf[k])'
    PROVE  KeptOK(f, k)'
<1>1. \A q \in Procs \ {p} : /\ job'[q].pc = job[q].pc /\ job'[q].op = job[q].op
                             /\ job'[q].doc = job[q].doc /\ job'[q].file = job[q].file
                             /\ At(q, f)' <=> At(q, f)
                             /\ q \notin crowded' => q \notin crowded
  BY OthersGoOn DEF At, KeptMoves
<1>2. At(p, f) => WorkOK(p, f, k)
  BY DEF KeptOK
<1>3. ASSUME At(p, f), NEW q \in Procs \ {p}, At(q, f) PROVE p \in crowded /\ q \in crowded'
  BY <1>3 DEF At, DecideInv, KeptMoves
<1>4. CASE Copied(f, k) => Copied(f, k)'
  <2>1. At(p, f) /\ job[p].pc = "unlink" => Copied(f, k) \/ Relied(IdOf[k])
    BY <1>2 DEF WorkOK, TypeOK, JobFits
  <2>2. quarantine'[f] = k \/ Copied(f, k)' \/ Relied(IdOf[k])'
    BY <1>4, <2>1 DEF KeptOK, KeptMoves
  <2>3. ASSUME NEW q \in Procs \ {p}, At(q, f)' PROVE WorkOK(q, f, k)'
    <3>1. At(q, f) /\ WorkOK(q, f, k)
      BY <1>1, <2>3 DEF KeptOK
    <3>2. q \notin crowded' => quarantine'[f] = k
      BY <1>1, <1>3, <3>1 DEF KeptMoves, WorkOK
    <3> QED BY <1>1, <1>4, <3>1, <3>2 DEF WorkOK, KeptMoves
  <2>4. quarantine'[f] \in {k, "absent"}
    BY DEF KeptOK, KeptMoves
  <2> QED BY <2>2, <2>3, <2>4 DEF KeptOK, KeptMoves
<1>5. CASE At(p, f) /\ p \notin crowded /\ quarantine'[f] = quarantine[f] /\ ~ At(p, f)'
  <2>1. quarantine'[f] = k
    BY <1>2, <1>5 DEF WorkOK
  <2>2. \A q \in Procs : ~ At(q, f)'
    BY <1>1, <1>3, <1>5
  <2> QED BY <2>1, <2>2 DEF KeptOK
<1> QED BY <1>4, <1>5 DEF KeptMoves

\* A caller that goes on, or ends, and touches neither quarantine/ nor rejected/.
LEMMA KeptAside ==
    ASSUME NEW p \in Procs, NEW f, NEW k, JobStep(p), crowded \ {p} \subseteq crowded',
           quarantine'[f] = quarantine[f], rejected'[f] = rejected[f],
           At(p, f) => job[p].pc # "fill copy",
           At(p, f)' => WorkOK(p, f, k)'
    PROVE  KeptMoves(p, f, k)
<1>1. Copied(f, k) => Copied(f, k)'
  <2>1. \A q \in Procs \ {p} : job'[q].pc = job[q].pc /\ job'[q].file = job[q].file
    BY DEF JobStep, SameBut
  <2> QED BY <2>1 DEF Copied, At
<1> QED BY <1>1 DEF KeptMoves

LEMMA OnFields ==
    ASSUME TypeOK, NEW p \in Procs, NEW pc, NEW into, GoesOn(p, pc, into)
    PROVE  /\ JobStep(p) /\ job'[p].op = job[p].op /\ job'[p].pc = pc
           /\ job'[p].file = job[p].file /\ job'[p].doc = job[p].doc /\ job'[p].into = into
<1>1. job[p] \in Job
  BY DEF TypeOK
<1> QED BY <1>1 DEF GoesOn, Job

LEMMA EndFields ==
    ASSUME ClaimAssumption, NEW p \in Procs, Ends(p), NEW f \in Files
    PROVE  JobStep(p) /\ job'[p].pc = "idle" /\ ~ At(p, f)'
BY DEF Ends, Idle, At, ClaimAssumption

\* The first steps of a caller at a file, and those of a submission.
LEMMA KeptBegins ==
    ASSUME ClaimAssumption, TypeOK, DecideInv, NEW p \in Procs, NEW f \in Files, NEW k \in Docs,
           KeptOK(f, k), kept[f] = k, kept'[f] = k,
           \/ \E g \in Files : (\E d \in Docs : OpenFile(p, g, d)) \/ Examine(p, g) \/ BeginReject(p, g)
           \/ FillFile(p) /\ job[p].file # f
           \/ \E d \in Docs : Ingest(p, d)
    PROVE  KeptMoves(p, f, k)
<1>0. /\ quarantine[f] \in {k, "absent"} /\ k # None /\ None \notin Files
      /\ "absent" \notin Docs /\ Genuine \subseteq Docs
  BY DEF KeptOK, ClaimAssumption
<1>1. ASSUME NEW g \in Files, NEW d \in Docs, OpenFile(p, g, d) PROVE KeptMoves(p, f, k)
  <2>1. JobStep(p) /\ job'[p] = [op |-> "submit", pc |-> "fill", file |-> g, doc |-> d, into |-> "file"]
    BY <1>1, Opening
  <2>2. g # f
    BY <1>0, <1>1 DEF OpenFile, TypeOK
  <2>3. ~ At(p, f)' /\ job[p].pc = "idle"
    BY <1>1, <2>1, <2>2 DEF At, OpenFile
  <2>4. quarantine'[f] = quarantine[f] /\ rejected'[f] = rejected[f] /\ crowded \ {p} \subseteq crowded'
    BY <1>1, <2>2 DEF OpenFile, TypeOK, Crowd
  <2> QED BY <2>1, <2>3, <2>4, KeptAside
<1>2. ASSUME NEW g \in Files, Examine(p, g) \/ BeginReject(p, g) PROVE KeptMoves(p, f, k)
  <2>1. \/ job'[p] = [Idle EXCEPT !.op = "approve", !.pc = "read", !.file = g]
        \/ /\ job'[p] = [Idle EXCEPT !.op = "reject", !.pc = "copy", !.file = g, !.doc = quarantine[g]]
    BY <1>2, Beginnings
  <2>2. JobStep(p)
    BY <1>2, Beginnings
  <2>3. /\ job'[p].file = g
        /\ \/ job'[p].op = "approve" /\ job'[p].pc = "read"
           \/ job'[p].op = "reject" /\ job'[p].pc = "copy" /\ job'[p].doc = quarantine[g]
    BY <2>1, IdleJob DEF Job
  <2>4. /\ job[p].pc = "idle" /\ quarantine[g] # "absent" /\ crowded \ {p} \subseteq crowded'
        /\ quarantine' = quarantine /\ rejected' = rejected
    BY <1>0, <1>2 DEF Examine, BeginReject, disk, Crowd
  <2>5. At(p, f)' => WorkOK(p, f, k)'
    <3>1. SUFFICES ASSUME g = f PROVE WorkOK(p, f, k)'
      BY <2>3 DEF At
    <3> QED BY <1>0, <2>3, <2>4, <3>1 DEF WorkOK
  <2> QED BY <2>2, <2>4, <2>5, KeptAside
<1>3. CASE FillFile(p) /\ job[p].file # f
  <2>1. Ends(p)
    BY <1>3, Ingestions
  <2>2. /\ quarantine'[f] = quarantine[f] /\ rejected'[f] = rejected[f]
        /\ crowded \ {p} \subseteq crowded' /\ job[p].pc = "fill"
    BY <1>3 DEF FillFile, TypeOK
  <2> QED BY <2>1, <2>2, EndFields, KeptAside
<1>4. ASSUME NEW d \in Docs, Ingest(p, d) PROVE KeptMoves(p, f, k)
  <2>1. JobStep(p) /\ job'[p] = [Idle EXCEPT !.op = "ingest", !.pc = "exists", !.doc = d]
    BY <1>4, Ingestions
  <2>2. job'[p].file = None
    BY <2>1, IdleJob, IdleFile DEF Job
  <2>3. job[p].pc = "idle" /\ quarantine' = quarantine /\ rejected' = rejected /\ crowded' = crowded
    BY <1>4 DEF Ingest, disk, histories
  <2> QED BY <1>0, <2>1, <2>2, <2>3, KeptAside DEF At
<1> QED BY <1>1, <1>2, <1>3, <1>4

\* The steps of an approval.
LEMMA KeptApproves ==
    ASSUME ClaimAssumption, TypeOK, DecideInv, \A i \in Ids : IngestInv(i) /\ WholeInv(i),
           NEW p \in Procs, NEW f \in Files, NEW k \in Docs,
           KeptOK(f, k), kept[f] = k, kept'[f] = k,
           Relied(IdOf[k]) => Relied(IdOf[k])',
           \A q \in Procs : Follows(q, IdOf[k]) => Follows(q, IdOf[k])',
           \/ ReadAgain(p) \/ CheckReplay(p) \/ OpenStaged(p) \/ FillStaged(p) \/ Replace(p)
           \/ AppendRows(p) \/ InsertRows(p) \/ InsertFails(p)
    PROVE  KeptMoves(p, f, k)
<1>0. /\ quarantine[f] \in {k, "absent"} /\ "absent" \notin Docs /\ Genuine \subseteq Docs
      /\ job[p] \in Job /\ JobFits(job[p]) /\ None \notin Files
  BY DEF KeptOK, ClaimAssumption, TypeOK
<1>1. /\ job[p].pc \in Storing \cup {"read"}
      /\ quarantine' = quarantine /\ rejected' = rejected /\ crowded \ {p} \subseteq crowded'
  BY DEF ReadAgain, CheckReplay, OpenStaged, FillStaged, Replace, AppendRows, InsertRows,
         InsertFails, Storing, disk, histories
<1>2. job[p].pc # "fill copy" /\ (At(p, f) => job[p].op = "approve")
  BY <1>0, <1>1 DEF Storing, JobFits, At
<1>3. ASSUME Ends(p) PROVE KeptMoves(p, f, k)
  BY <1>1, <1>2, <1>3, EndFields, KeptAside
<1>4. At(p, f) => WorkOK(p, f, k)
  BY DEF KeptOK
<1>5. ASSUME NEW pc, NEW into, GoesOn(p, pc, into), job[p].pc # "read",
             crowded' = crowded, pc # "fill copy",
             At(p, f) => /\ pc \in {"fill staged", "replace"} => Follows(p, IdOf[k])'
                         /\ pc \in {"index", "table", "unlink"} => Relied(IdOf[k])'
      PROVE  KeptMoves(p, f, k)
  <2>1. /\ JobStep(p) /\ job'[p].op = job[p].op /\ job'[p].pc = pc
        /\ job'[p].file = job[p].file /\ job'[p].doc = job[p].doc
    BY <1>5, OnFields
  <2>2. At(p, f)' => WorkOK(p, f, k)'
    <3>1. SUFFICES ASSUME At(p, f) PROVE WorkOK(p, f, k)'
      BY <2>1 DEF At
    <3> QED BY <1>1, <1>2, <1>4, <1>5, <2>1, <3>1 DEF WorkOK
  <2> QED BY <1>1, <1>2, <2>1, <2>2, KeptAside
<1>6. CASE ReadAgain(p)
  <2>1. CASE /\ JobStep(p)
             /\ quarantine[job[p].file] \in Genuine
             /\ job'[p] = [job[p] EXCEPT !.pc = "exists", !.doc = quarantine[job[p].file]]
    <3>1. /\ job'[p].op = job[p].op /\ job'[p].pc = "exists" /\ job'[p].file = job[p].file
          /\ job'[p].doc = quarantine[job[p].file]
      BY <1>0, <2>1 DEF Job
    <3>2. At(p, f)' => WorkOK(p, f, k)'
      <4>1. SUFFICES ASSUME At(p, f) PROVE WorkOK(p, f, k)'
        BY <3>1 DEF At
      <4>2. quarantine[f] = k /\ job'[p].doc = k /\ job'[p].op = "approve"
        BY <1>0, <1>2, <2>1, <3>1, <4>1 DEF At
      <4> QED BY <1>1, <3>1, <4>2 DEF WorkOK
    <3> QED BY <1>1, <1>2, <2>1, <3>2, KeptAside
  <2> QED BY <1>3, <1>6, <2>1, Ingestions
<1>7. CASE CheckReplay(p)
  <2>1. ~ Ends(p) => GoesOn(p, "stage", job[p].into) /\ crowded' = crowded /\ job[p].pc # "read"
    BY <1>7, Ingestions, EndJob DEF CheckReplay
  <2> QED BY <1>3, <1>5, <2>1
<1>8. CASE OpenStaged(p)
  <2>1. GoesOn(p, "fill staged", "staged") /\ crowded' = crowded /\ job[p].pc # "read"
    BY <1>8, Ingestions DEF OpenStaged, histories
  <2>2. job'[p].pc = "fill staged" /\ job'[p].into = "staged"
    BY <2>1, OnFields
  <2>3. PICK i \in Ids : i = IdOf[k]
    BY DEF ClaimAssumption
  <2>4. Follows(p, i)'
    BY <2>2 DEF Follows, Past, Holds
  <2> QED BY <1>5, <2>1, <2>3, <2>4
<1>9. CASE FillStaged(p)
  <2>1. GoesOn(p, "replace", "none") /\ crowded' = crowded /\ job[p].pc = "fill staged"
    BY <1>9, Ingestions DEF FillStaged, histories
  <2>2. At(p, f) => Follows(p, IdOf[k])'
    BY <1>2, <1>4, <2>1 DEF WorkOK
  <2> QED BY <1>5, <2>1, <2>2
<1>10. CASE Replace(p)
  <2>1. CASE /\ JobStep(p) /\ staged[IdOf[job[p].doc]] # "absent"
             /\ job'[p] = [job[p] EXCEPT !.pc = "index"]
    <3>1. /\ job'[p].op = job[p].op /\ job'[p].pc = "index" /\ job'[p].file = job[p].file
          /\ job'[p].doc = job[p].doc /\ job[p].pc = "replace"
      BY <1>0, <1>10, <2>1 DEF Job, Replace
    <3>2. At(p, f)' => WorkOK(p, f, k)'
      <4>1. SUFFICES ASSUME At(p, f) PROVE WorkOK(p, f, k)'
        BY <3>1 DEF At
      <4>2. job[p].doc = k /\ Follows(p, IdOf[k]) /\ job[p].op = "approve"
        BY <1>2, <1>4, <3>1, <4>1 DEF WorkOK
      <4>3. PICK i \in Ids : i = IdOf[k]
        BY DEF ClaimAssumption
      <4>4. Relied(i)'
        BY <1>10, <2>1, <4>2, <4>3, Renames DEF Relied
      <4>5. crowded' = crowded
        BY <1>10, <2>1 DEF Replace
      <4> QED BY <1>1, <1>4, <3>1, <4>1, <4>2, <4>3, <4>4, <4>5 DEF WorkOK
    <3> QED BY <1>1, <1>2, <2>1, <3>2, KeptAside
  <2> QED BY <1>3, <1>10, <2>1, Replaces
<1>11. CASE AppendRows(p) \/ InsertRows(p) \/ InsertFails(p)
  <2>1. job[p].pc \in {"index", "table"}
    BY <1>11 DEF AppendRows, InsertRows, InsertFails
  <2>2. At(p, f) => Relied(IdOf[k])'
    BY <1>2, <1>4, <2>1 DEF WorkOK
  <2>3. \/ Ends(p)
        \/ GoesOn(p, "table", job[p].into) \/ GoesOn(p, "unlink", job[p].into)
    BY <1>11, Ingestions
  <2>4. crowded' = crowded \/ job' = [job EXCEPT ![p] = Idle]
    BY <1>11 DEF AppendRows, InsertRows, InsertFails
  <2> QED BY <1>3, <1>5, <2>1, <2>2, <2>3, <2>4, EndJob
<1> QED BY <1>6, <1>7, <1>8, <1>9, <1>10, <1>11

\* The steps of a rejection, the removal of a file, and a death.
LEMMA KeptRejects ==
    ASSUME ClaimAssumption, TypeOK, DecideInv,
           NEW p \in Procs, NEW f \in Files, NEW k \in Docs,
           KeptOK(f, k), kept[f] = k, kept'[f] = k,
           OpenCopy(p) \/ FillCopy(p) \/ Unlink(p) \/ Die(p)
    PROVE  KeptMoves(p, f, k)
<1>0. /\ "absent" \notin Docs /\ "empty" \notin Docs /\ k # None
      /\ job[p] \in Job /\ JobFits(job[p]) /\ None \notin Files
  BY DEF ClaimAssumption, TypeOK
<1>1. At(p, f) => WorkOK(p, f, k)
  BY DEF KeptOK
<1>2. ASSUME JobStep(p), At(p, f) /\ job[p].pc = "fill copy" => At(p, f)' /\ job'[p].pc = "fill copy",
             rejected'[f] = rejected[f]
      PROVE  Copied(f, k) => Copied(f, k)'
  <2>1. \A q \in Procs \ {p} : job'[q].pc = job[q].pc /\ job'[q].file = job[q].file
    BY <1>2 DEF JobStep, SameBut
  <2> QED BY <1>2, <2>1 DEF Copied, At
<1>3. CASE OpenCopy(p)
  <2>1. GoesOn(p, "fill copy", job[p].into)
    BY <1>3, Ingestions
  <2>2. /\ JobStep(p) /\ job'[p].op = job[p].op /\ job'[p].pc = "fill copy"
        /\ job'[p].file = job[p].file /\ job'[p].doc = job[p].doc
    BY <2>1, OnFields
  <2>3. /\ job[p].pc = "copy" /\ job[p].op = "reject" /\ quarantine' = quarantine /\ crowded' = crowded
        /\ rejected'[f] = IF At(p, f) THEN "empty" ELSE rejected[f]
    BY <1>0, <1>3 DEF OpenCopy, JobFits, TypeOK, At
  <2>4. Copied(f, k) => Copied(f, k)'
    <3>1. CASE At(p, f)
      BY <2>2, <3>1 DEF Copied, At
    <3>2. CASE ~ At(p, f)
      BY <1>2, <2>2, <2>3, <3>2
    <3> QED BY <3>1, <3>2
  <2>5. At(p, f)' => WorkOK(p, f, k)'
    BY <1>1, <2>2, <2>3 DEF WorkOK, At
  <2> QED BY <2>2, <2>3, <2>4, <2>5 DEF KeptMoves
<1>4. CASE FillCopy(p)
  <2>1. GoesOn(p, "unlink", job[p].into)
    BY <1>4, Ingestions
  <2>2. /\ JobStep(p) /\ job'[p].op = job[p].op /\ job'[p].pc = "unlink"
        /\ job'[p].file = job[p].file /\ job'[p].doc = job[p].doc
    BY <2>1, OnFields
  <2>3. job[p].pc = "fill copy" /\ job[p].op = "reject" /\ quarantine' = quarantine /\ crowded' = crowded
    BY <1>0, <1>4 DEF FillCopy, histories, JobFits
  <2>4. ~ At(p, f) => rejected'[f] = rejected[f]
    BY <1>4 DEF FillCopy, At, TypeOK
  <2>5. At(p, f) => rejected'[f] = k /\ job[p].doc = k
    <3>1. SUFFICES ASSUME At(p, f) PROVE rejected'[f] = k /\ job[p].doc = k
      OBVIOUS
    <3>2. job[p].doc = k /\ rejected[f] \in {"empty", k} /\ job[p].file = f
      BY <1>1, <2>3, <3>1 DEF WorkOK, At
    <3>3. Written(rejected[f], k) = {k}
      BY <1>0, <3>2 DEF Written
    <3>4. \E c \in Written(rejected[f], k) : rejected' = [rejected EXCEPT ![f] = c]
      BY <1>0, <1>4, <3>2 DEF FillCopy
    <3> QED BY <3>2, <3>3, <3>4 DEF TypeOK
  <2>6. Copied(f, k) => Copied(f, k)'
    <3>1. CASE At(p, f)
      BY <2>5, <3>1 DEF Copied
    <3>2. CASE ~ At(p, f)
      BY <1>2, <2>2, <2>4, <3>2
    <3> QED BY <3>1, <3>2
  <2>7. At(p, f)' => WorkOK(p, f, k)'
    <3>1. SUFFICES ASSUME At(p, f) PROVE WorkOK(p, f, k)'
      BY <2>2 DEF At
    <3>2. Copied(f, k)'
      BY <2>5, <3>1 DEF Copied
    <3> QED BY <1>1, <2>2, <2>3, <2>5, <3>1, <3>2 DEF WorkOK
  <2> QED BY <2>2, <2>3, <2>4, <2>5, <2>6, <2>7 DEF KeptMoves
<1>5. CASE Unlink(p)
  <2>1. JobStep(p) /\ job'[p] = Idle
    BY <1>5, Unlinks
  <2>2. ~ At(p, f)' /\ job[p].pc = "unlink" /\ rejected' = rejected /\ crowded' = crowded \ {p}
    BY <1>0, <1>5, <2>1, IdleFile DEF At, Unlink
  <2>3. quarantine'[f] = IF At(p, f) THEN "absent" ELSE quarantine[f]
    BY <1>5 DEF Unlink, At, TypeOK
  <2>4. Copied(f, k) => Copied(f, k)'
    BY <1>2, <2>1, <2>2
  <2> QED BY <2>1, <2>2, <2>3, <2>4 DEF KeptMoves
<1>6. CASE Die(p)
  <2>1. JobStep(p) /\ ~ At(p, f)'
    BY <1>6, Ingestions, EndFields
  <2>2. quarantine' = quarantine /\ rejected' = rejected /\ crowded' = crowded \ {p}
    BY <1>6 DEF Die, disk
  <2>3. ~ (p \in crowded /\ At(p, f))
    BY <1>0, <1>6 DEF Die, At, Endangered
  <2>4. ~ At(p, f) => (Copied(f, k) => Copied(f, k)')
    BY <1>2, <2>1, <2>2
  <2> QED BY <2>1, <2>2, <2>3, <2>4 DEF KeptMoves
<1> QED BY <1>3, <1>4, <1>5, <1>6

\* What a caller that is not alone may write is not taken for kept.
LEMMA KeptFills ==
    ASSUME ClaimAssumption, TypeOK, DecideInv, NEW p \in Procs, FillFile(p), FillOK(p),
           NEW f \in Files, f = job[p].file, NEW k \in Docs, kept'[f] = k
    PROVE  KeptOK(f, k)'
<1>1. p \notin crowded /\ job[p].doc = k
  BY DEF FillFile, TypeOK, ClaimAssumption
<1>2. job[p].into = "file" /\ quarantine[f] = "empty"
  BY <1>1 DEF FillOK, FillFile
<1>3. quarantine'[f] = k
  BY <1>1, <1>2 DEF FillFile, Written, TypeOK
<1>4. \A q \in Procs : ~ At(q, f)'
  <2>1. Ends(p)
    BY Ingestions
  <2>2. \A q \in Procs \ {p} : ~ At(q, f) /\ job'[q] = job[q]
    BY <1>1, <2>1 DEF At, DecideInv, Ends
  <2>3. ~ At(p, f)'
    BY <2>1, EndFields
  <2> QED BY <2>2, <2>3 DEF At
<1> QED BY <1>3, <1>4 DEF KeptOK

LEMMA FillStep ==
    ASSUME ClaimAssumption, TypeOK, DecideInv, \A q \in Procs : FillOK(q),
           NEW p \in Procs, JobStep(p), crowded \ {p} \subseteq crowded',
           job'[p].pc = "fill" => FillOK(p)',
           \A q \in Procs \ {p} : /\ job'[q].into = job[q].into \/ job[q].into # "file" \/ q \in crowded
                                  /\ \/ quarantine'[job[q].file] = quarantine[job[q].file]
                                     \/ job[q].pc # "fill" \/ q \in crowded \/ q \in crowded'
    PROVE  \A q \in Procs : FillOK(q)'
<1> SUFFICES ASSUME NEW q \in Procs, job'[q].pc = "fill", q \notin crowded'
             PROVE  job'[q].into = "file" /\ quarantine'[job'[q].file] = "empty"
  BY DEF FillOK
<1>1. CASE q = p
  BY <1>1 DEF FillOK
<1>2. CASE q # p
  <2>1. job[q].pc = "fill" /\ job'[q].file = job[q].file /\ q \notin crowded
    BY <1>2 DEF JobStep, SameBut
  <2> QED BY <1>2, <2>1 DEF FillOK
<1> QED BY <1>1, <1>2

\* How each step treats the files of other callers.
LEMMA FillSteps ==
    ASSUME ClaimAssumption, TypeOK, DecideInv, \A q \in Procs : FillOK(q), [Next]_vars
    PROVE  \A q \in Procs : FillOK(q)'
<1>1. CASE UNCHANGED vars
  BY <1>1 DEF vars, disk, histories, FillOK
<1>2. ASSUME NEW p \in Procs, NEW f \in Files, NEW d \in Docs, OpenFile(p, f, d)
      PROVE  \A q \in Procs : FillOK(q)'
  <2>1. /\ JobStep(p) /\ \A q \in Procs \ {p} : job'[q] = job[q]
        /\ job'[p] = [op |-> "submit", pc |-> "fill", file |-> f, doc |-> d, into |-> "file"]
    BY <1>2, Opening
  <2>2. quarantine' = [quarantine EXCEPT ![f] = "empty"] /\ crowded' = Crowd(p, f)
        /\ quarantine \in [Files -> Content]
    BY <1>2 DEF OpenFile, TypeOK
  <2>3. FillOK(p)'
    BY <2>1, <2>2 DEF FillOK
  <2>4. ASSUME NEW q \in Procs \ {p}, job[q].file = f PROVE q \in crowded'
    BY <2>2, <2>4 DEF Crowd, Others
  <2>5. ASSUME NEW q \in Procs \ {p}
        PROVE  \/ quarantine'[job[q].file] = quarantine[job[q].file]
               \/ job[q].pc # "fill" \/ q \in crowded'
    <3>1. job[q].pc = "fill" => job[q].file \in Files
      BY DEF TypeOK, JobFits
    <3> QED BY <2>2, <2>4, <3>1
  <2> QED BY <2>1, <2>2, <2>3, <2>5, FillStep DEF Crowd
<1>3. ASSUME NEW p \in Procs, NEW f \in Files, Examine(p, f) \/ BeginReject(p, f)
      PROVE  \A q \in Procs : FillOK(q)'
  <2>1. JobStep(p) /\ (\A q \in Procs \ {p} : job'[q] = job[q]) /\ job'[p].pc \in {"read", "copy"}
    <3>1. \/ job'[p] = [Idle EXCEPT !.op = "approve", !.pc = "read", !.file = f]
          \/ job'[p] = [Idle EXCEPT !.op = "reject", !.pc = "copy", !.file = f, !.doc = quarantine[f]]
      BY <1>3, Beginnings
    <3>2. job'[p].pc \in {"read", "copy"}
      BY <3>1, IdleJob DEF Job
    <3> QED BY <1>3, <3>2, Beginnings
  <2>2. quarantine' = quarantine /\ crowded \ {p} \subseteq crowded'
    BY <1>3 DEF Examine, BeginReject, disk, Crowd
  <2> QED BY <2>1, <2>2, FillStep
<1>4. ASSUME NEW p \in Procs, FillFile(p) \/ Unlink(p) PROVE \A q \in Procs : FillOK(q)'
  <2>1. /\ JobStep(p) /\ job'[p].pc = "idle" /\ crowded' = crowded \ {p} /\ job[p].file \in Files
        /\ \A q \in Procs \ {p} : job'[q] = job[q] \/ job[q].file = job[p].file
    <3>1. CASE FillFile(p)
      BY <3>1, Ingestions, IdlePc DEF Ends, FillFile, TypeOK, JobFits
    <3>2. CASE Unlink(p)
      BY <3>2, Unlinks, IdlePc DEF Unlink, TypeOK, JobFits
    <3> QED BY <1>4, <3>1, <3>2
  <2>2. \A g \in Files \ {job[p].file} : quarantine'[g] = quarantine[g]
    BY <1>4 DEF FillFile, Unlink, TypeOK
  <2>3. \A q \in Procs \ {p} : job[q].file = job[p].file => q \in crowded
    BY <2>1 DEF DecideInv
  <2>4. \A q \in Procs \ {p} : job[q].pc = "fill" => job[q].file \in Files
    BY DEF TypeOK, JobFits
  <2> QED BY <2>1, <2>2, <2>3, <2>4, FillStep
<1>5. ASSUME NEW p \in Procs, Replace(p) PROVE \A q \in Procs : FillOK(q)'
  <2>1. JobStep(p) /\ job'[p].pc # "fill"
    <3>1. job[p] \in Job
      BY DEF TypeOK
    <3>2. Ends(p) \/ (JobStep(p) /\ job'[p] = [job[p] EXCEPT !.pc = "index"])
      BY <1>5, Replaces
    <3> QED BY <3>1, <3>2, IdlePc DEF Ends, Job
  <2>2. \A q \in Procs \ {p} : job[q].into = "file" => job'[q].into = job[q].into
    <3> SUFFICES ASSUME NEW q \in Procs \ {p}, job[q].into = "file" PROVE job'[q].into = job[q].into
      OBVIOUS
    <3>1. job[q] \in Job
      BY DEF TypeOK
    <3>2. PICK i : i = IdOf[job[p].doc]
      OBVIOUS
    <3>3. job'[q] = job[q] \/ job'[q] = Moved(job[q], i)
      BY <1>5, <3>2, Replaces DEF Ends
    <3>4. Moved(job[q], i) = job[q]
      BY <3>1 DEF Moved, Job
    <3> QED BY <3>3, <3>4
  <2>3. quarantine' = quarantine /\ crowded \ {p} \subseteq crowded'
    BY <1>5 DEF Replace
  <2> QED BY <2>1, <2>2, <2>3, FillStep
<1>6. ASSUME NEW p \in Procs,
             \/ ReadAgain(p) \/ CheckReplay(p) \/ OpenStaged(p) \/ FillStaged(p)
             \/ AppendRows(p) \/ InsertRows(p) \/ InsertFails(p) \/ OpenCopy(p) \/ FillCopy(p)
             \/ Die(p) \/ \E d \in Docs : Ingest(p, d)
      PROVE  \A q \in Procs : FillOK(q)'
  <2>1. quarantine' = quarantine /\ crowded \ {p} \subseteq crowded'
    BY <1>6 DEF ReadAgain, CheckReplay, OpenStaged, FillStaged, AppendRows, InsertRows,
                InsertFails, OpenCopy, FillCopy, Die, Ingest, disk, histories
  <2>2. /\ JobStep(p) /\ \A q \in Procs \ {p} : job'[q] = job[q]
        /\ \/ job'[p] = Idle
           \/ \E into : \E pc \in {"stage", "fill staged", "replace", "table", "unlink", "fill copy"} :
                 job'[p] = [job[p] EXCEPT !.pc = pc, !.into = into]
           \/ job'[p] = [job[p] EXCEPT !.pc = "exists", !.doc = quarantine[job[p].file]]
           \/ \E d \in Docs : job'[p] = [Idle EXCEPT !.op = "ingest", !.pc = "exists", !.doc = d]
    BY <1>6, Ingestions DEF Ends, GoesOn
  <2>3. job'[p].pc # "fill"
    <3>1. job[p] \in Job
      BY DEF TypeOK
    <3> QED BY <2>2, <3>1, IdlePc, IdleJob DEF Job
  <2> QED BY <2>1, <2>2, <2>3, FillStep
<1> QED BY <1>1, <1>2, <1>3, <1>4, <1>5, <1>6 DEF Next

LEMMA KeptStep ==
    ASSUME ClaimAssumption, TypeOK, DecideInv, \A i \in Ids : IngestInv(i) /\ WholeInv(i),
           KeptInv, [Next]_vars
    PROVE  KeptInv'
<1>1. \A q \in Procs : FillOK(q)'
  BY FillSteps DEF KeptInv
<1>2. ASSUME NEW f \in Files, NEW k \in Docs, kept'[f] = k PROVE KeptOK(f, k)'
  <2>0. k # None
    BY DEF ClaimAssumption
  <2>1. CASE UNCHANGED vars
    <3>1. KeptOK(f, k)
      BY <1>2, <2>1 DEF KeptInv, vars, histories
    <3>2. UNCHANGED <<quarantine, rejected, staged, stored, job, crowded>>
      BY <2>1 DEF vars, disk, histories
    <3>3. PICK i : i = IdOf[k]
      OBVIOUS
    <3>4. \A q \in Procs : \A into : Holds(q, i, into)' <=> Holds(q, i, into)
      BY <3>2 DEF Holds, Ingesting
    <3>5. (Relied(i)' <=> Relied(i)) /\ \A q \in Procs : Follows(q, i)' <=> Follows(q, i)
      BY <3>2, <3>4 DEF Relied, Filled, Follows, Past, Ingesting
    <3>6. Copied(f, k)' <=> Copied(f, k)
      BY <3>2 DEF Copied, At
    <3> QED BY <3>1, <3>2, <3>3, <3>5, <3>6 DEF KeptOK, WorkOK, At
  <2>2. ASSUME NEW p \in Procs, FillFile(p), job[p].file = f PROVE KeptOK(f, k)'
    BY <1>2, <2>2, KeptFills DEF KeptInv
  <2>3. CASE \A p \in Procs : ~ (FillFile(p) /\ job[p].file = f)
    <3>1. kept[f] = k \/ UNCHANGED vars
      <4>1. ASSUME NEW p \in Procs, FillFile(p) PROVE kept[f] = k
        BY <1>2, <2>3, <4>1 DEF FillFile, TypeOK
      <4>2. ASSUME NEW p \in Procs, NEW g \in Files, NEW d \in Docs, OpenFile(p, g, d)
            PROVE  kept[f] = k
        BY <1>2, <2>0, <4>2 DEF OpenFile, TypeOK
      <4>3. ASSUME NEW p \in Procs, Die(p) PROVE kept[f] = k
        BY <1>2, <2>0, <4>3 DEF Die
      <4>4. ASSUME NEW p \in Procs, NEW g \in Files, Examine(p, g) \/ BeginReject(p, g)
            PROVE  kept[f] = k
        BY <1>2, <4>4 DEF Examine, BeginReject
      <4>5. ASSUME NEW p \in Procs, NEW d \in Docs, Ingest(p, d) PROVE kept[f] = k
        BY <1>2, <4>5 DEF Ingest, histories
      <4>6. ASSUME NEW p \in Procs,
                   \/ ReadAgain(p) \/ CheckReplay(p) \/ OpenStaged(p) \/ FillStaged(p)
                   \/ Replace(p) \/ AppendRows(p) \/ InsertRows(p) \/ InsertFails(p)
                   \/ OpenCopy(p) \/ FillCopy(p) \/ Unlink(p)
            PROVE  kept[f] = k
        <5>1. kept' = kept
          BY <4>6 DEF ReadAgain, CheckReplay, OpenStaged, FillStaged, Replace, AppendRows,
             InsertRows, InsertFails, OpenCopy, FillCopy, Unlink, histories
        <5> QED BY <1>2, <5>1
      <4> QED BY <4>1, <4>2, <4>3, <4>4, <4>5, <4>6 DEF Next
    <3>2. CASE kept[f] = k
      <4>1. KeptOK(f, k)
        BY <3>2 DEF KeptInv
      <4>2. /\ Relied(IdOf[k]) => Relied(IdOf[k])'
            /\ \A q \in Procs : Follows(q, IdOf[k]) => Follows(q, IdOf[k])'
        BY <1>2, <3>2, ReliedStays
      <4>3. ASSUME NEW p \in Procs, KeptMoves(p, f, k) PROVE KeptOK(f, k)'
        BY <4>1, <4>2, <4>3, KeptOn
      <4>4. UNCHANGED vars \/ \E p \in Procs : KeptMoves(p, f, k)
        BY <1>2, <2>3, <3>2, <4>1, <4>2, KeptBegins, KeptApproves, KeptRejects DEF Next
      <4> QED BY <2>1, <4>3, <4>4
    <3> QED BY <2>1, <3>1, <3>2
  <2> QED BY <2>2, <2>3
<1> QED BY <1>1, <1>2 DEF KeptInv

-----------------------------------------------------------------------------
(* What was kept before *)

\* An earlier document of a file is stored, or has its copy in rejected/: who is
\* writing that copy has lost the file to a later one, and so is not alone with it.
CopyOK(f, k) ==
    /\ Copied(f, k)
    /\ \A p \in Procs : At(p, f) /\ job[p].pc = "fill copy" =>
          p \in crowded /\ job[p].doc = k /\ rejected[f] \in {"empty", k}
Earlier(f, k) == Relied(IdOf[k]) \/ CopyOK(f, k)
EarlierInv == \A f \in Files : \A k \in given[f] \ spoilt[f] : kept[f] = k \/ Earlier(f, k)

\* A step that touches neither the copy nor who writes it.
LEMMA CopyAside ==
    ASSUME NEW p \in Procs, NEW f, NEW k, JobStep(p), crowded \ {p} \subseteq crowded',
           rejected'[f] = rejected[f], CopyOK(f, k),
           ~ (At(p, f) /\ job[p].pc = "fill copy"), ~ (At(p, f)' /\ job'[p].pc = "fill copy")
    PROVE  CopyOK(f, k)'
<1>1. \A q \in Procs \ {p} : /\ job'[q].pc = job[q].pc /\ job'[q].doc = job[q].doc
                             /\ At(q, f)' <=> At(q, f)
  BY DEF JobStep, SameBut, At
<1> QED BY <1>1 DEF CopyOK, Copied

\* The steps of a rejection, at this file or another.
LEMMA CopyRejects ==
    ASSUME ClaimAssumption, TypeOK, NEW p \in Procs, NEW f \in Files, NEW k \in Docs,
           CopyOK(f, k), kept'[f] # k, k \notin spoilt'[f],
           OpenCopy(p) \/ FillCopy(p) \/ Die(p)
    PROVE  CopyOK(f, k)'
<1>0. job[p] \in Job /\ JobFits(job[p]) /\ None \notin Files
  BY DEF ClaimAssumption, TypeOK
<1>1. CASE OpenCopy(p)
  <2>1. GoesOn(p, "fill copy", job[p].into)
    BY <1>1, Ingestions
  <2>2. JobStep(p) /\ job'[p].pc = "fill copy" /\ job'[p].file = job[p].file
    BY <2>1, OnFields
  <2>3. ~ At(p, f)
    <3>1. SUFFICES ASSUME At(p, f) PROVE FALSE
      OBVIOUS
    <3>2. k \in Copies(f)
      BY DEF Copies, CopyOK, Copied, At
    <3>3. spoilt'[f] = spoilt[f] \cup (Copies(f) \ {kept[f]}) /\ kept' = kept
      BY <1>1, <3>1 DEF OpenCopy, At, TypeOK
    <3> QED BY <3>2, <3>3
  <2>4. rejected'[f] = rejected[f] /\ crowded' = crowded
    BY <1>1, <2>3 DEF OpenCopy, At, TypeOK
  <2> QED BY <2>2, <2>3, <2>4, CopyAside DEF At
<1>2. CASE FillCopy(p)
  <2>1. GoesOn(p, "unlink", job[p].into)
    BY <1>2, Ingestions
  <2>2. JobStep(p) /\ job'[p].pc = "unlink"
    BY <2>1, OnFields
  <2>3. crowded' = crowded /\ job[p].pc = "fill copy"
    BY <1>2 DEF FillCopy, histories
  <2>4. CASE ~ At(p, f)
    <3>1. rejected'[f] = rejected[f]
      BY <1>2, <2>4 DEF FillCopy, At, TypeOK
    <3> QED BY <2>2, <2>3, <2>4, <3>1, CopyAside
  <2>5. CASE At(p, f)
    <3>1. job[p].doc = k /\ rejected[f] \in {"empty", k} /\ job[p].file = f
      BY <2>3, <2>5 DEF CopyOK, At
    <3>2. Written(rejected[f], k) = {k} /\ k # "empty"
      BY <3>1 DEF Written, ClaimAssumption
    <3>3. \E c \in Written(rejected[f], k) : rejected' = [rejected EXCEPT ![f] = c]
      BY <1>2, <3>1, <3>2 DEF FillCopy
    <3>4. rejected'[f] = k
      BY <3>2, <3>3 DEF TypeOK
    <3>5. \A q \in Procs \ {p} : /\ job'[q].pc = job[q].pc /\ job'[q].doc = job[q].doc
                                 /\ At(q, f)' <=> At(q, f)
      BY <2>2 DEF JobStep, SameBut, At
    <3> QED BY <2>2, <2>3, <3>4, <3>5 DEF CopyOK, Copied
  <2> QED BY <2>4, <2>5
<1>3. CASE Die(p)
  <2>1. JobStep(p) /\ ~ At(p, f)'
    BY <1>3, Ingestions, EndFields
  <2>2. rejected' = rejected /\ crowded' = crowded \ {p}
    BY <1>3 DEF Die, disk
  <2>3. ~ (At(p, f) /\ job[p].pc = "fill copy")
    <3>1. SUFFICES ASSUME At(p, f), job[p].pc = "fill copy" PROVE FALSE
      OBVIOUS
    <3>2. k \in Endangered(p, f)
      BY <3>1 DEF CopyOK, Endangered, At
    <3> QED BY <1>3, <3>2 DEF Die
  <2> QED BY <2>1, <2>2, <2>3, CopyAside
<1> QED BY <1>1, <1>2, <1>3

\* Every other step leaves the copy of an earlier document alone.
LEMMA CopyStays ==
    ASSUME ClaimAssumption, TypeOK, NEW p \in Procs, NEW f \in Files, NEW k \in Docs, CopyOK(f, k),
           \/ \E g \in Files : (\E d \in Docs : OpenFile(p, g, d)) \/ Examine(p, g) \/ BeginReject(p, g)
           \/ FillFile(p) \/ ReadAgain(p) \/ CheckReplay(p) \/ OpenStaged(p) \/ FillStaged(p)
           \/ Replace(p) \/ AppendRows(p) \/ InsertRows(p) \/ InsertFails(p) \/ Unlink(p)
           \/ \E d \in Docs : Ingest(p, d)
    PROVE  CopyOK(f, k)'
<1>0. job[p] \in Job
  BY DEF TypeOK
<1>1. /\ job[p].pc # "fill copy" /\ rejected' = rejected /\ crowded \ {p} \subseteq crowded'
  BY DEF OpenFile, Examine, BeginReject, FillFile, ReadAgain, CheckReplay, OpenStaged, FillStaged,
         Replace, AppendRows, InsertRows, InsertFails, Unlink, Ingest, Crowd, disk, histories
<1>2. JobStep(p) /\ job'[p].pc # "fill copy"
  <2>1. ASSUME NEW g \in Files, NEW d \in Docs, OpenFile(p, g, d) PROVE JobStep(p) /\ job'[p].pc # "fill copy"
    <3>1. /\ JobStep(p)
          /\ job'[p] = [op |-> "submit", pc |-> "fill", file |-> g, doc |-> d, into |-> "file"]
      BY <2>1, Opening
    <3> QED BY <3>1
  <2>2. ASSUME NEW g \in Files, Examine(p, g) \/ BeginReject(p, g) PROVE JobStep(p) /\ job'[p].pc # "fill copy"
    <3>1. \/ job'[p] = [Idle EXCEPT !.op = "approve", !.pc = "read", !.file = g]
          \/ job'[p] = [Idle EXCEPT !.op = "reject", !.pc = "copy", !.file = g, !.doc = quarantine[g]]
      BY <2>2, Beginnings
    <3>2. job'[p].pc \in {"read", "copy"}
      BY <3>1, IdleJob DEF Job
    <3> QED BY <2>2, <3>2, Beginnings
  <2>3. CASE Unlink(p)
    BY <2>3, Unlinks, IdlePc
  <2>4. CASE Replace(p)
    <3>1. Ends(p) \/ (JobStep(p) /\ job'[p] = [job[p] EXCEPT !.pc = "index"])
      BY <2>4, Replaces
    <3> QED BY <1>0, <3>1, IdlePc DEF Ends, Job
  <2>5. CASE \/ FillFile(p) \/ ReadAgain(p) \/ CheckReplay(p) \/ OpenStaged(p) \/ FillStaged(p)
             \/ AppendRows(p) \/ InsertRows(p) \/ InsertFails(p) \/ \E d \in Docs : Ingest(p, d)
    <3>1. /\ JobStep(p)
          /\ \/ job'[p] = Idle
             \/ \E into : \E pc \in {"stage", "fill staged", "replace", "table", "unlink"} :
                   job'[p] = [job[p] EXCEPT !.pc = pc, !.into = into]
             \/ job'[p] = [job[p] EXCEPT !.pc = "exists", !.doc = quarantine[job[p].file]]
             \/ \E d \in Docs : job'[p] = [Idle EXCEPT !.op = "ingest", !.pc = "exists", !.doc = d]
      BY <2>5, Ingestions DEF Ends, GoesOn
    <3> QED BY <1>0, <3>1, IdlePc, IdleJob DEF Job
  <2> QED BY <2>1, <2>2, <2>3, <2>4, <2>5
<1> QED BY <1>1, <1>2, CopyAside

\* The step that makes the document a file keeps an earlier one: somebody submits
\* another under its name, when this one is no longer in quarantine.
LEMMA BecomesEarlier ==
    ASSUME ClaimAssumption, TypeOK, NEW f \in Files, NEW k \in Docs, KeptOK(f, k),
           kept[f] = k, kept'[f] # k, k \notin spoilt'[f], [Next]_vars
    PROVE  /\ Earlier(f, k)
           /\ \E p \in Procs, d \in Docs : OpenFile(p, f, d)
<1>0. kept \in [Files -> Docs \cup {None}] /\ spoilt \in [Files -> SUBSET Docs]
  BY DEF TypeOK
<1>1. ASSUME NEW p \in Procs, Die(p) PROVE FALSE
  BY <1>0, <1>1 DEF Die
<1>2. ASSUME NEW p \in Procs, FillFile(p) PROVE FALSE
  <2>1. job[p].file # f
    <3>1. SUFFICES ASSUME At(p, f) PROVE FALSE
      BY DEF At
    <3>2. job[p].op # "submit"
      BY <3>1 DEF KeptOK, WorkOK
    <3> QED BY <1>2, <3>2 DEF TypeOK, JobFits, FillFile
  <2> QED BY <1>0, <1>2, <2>1 DEF FillFile
<1>3. \E p \in Procs, d \in Docs : OpenFile(p, f, d)
  <2>1. PICK p \in Procs : \E g \in Files, d \in Docs : OpenFile(p, g, d)
    BY <1>1, <1>2 DEF Next, vars, Examine, BeginReject, ReadAgain, Ingest, CheckReplay, OpenStaged,
       FillStaged, Replace, AppendRows, InsertRows, InsertFails, OpenCopy, FillCopy, Unlink, histories
  <2>2. PICK g \in Files, d \in Docs : OpenFile(p, g, d)
    BY <2>1
  <2>3. g = f
    BY <1>0, <2>2 DEF OpenFile
  <2> QED BY <2>2, <2>3
<1>4. quarantine[f] # k
  BY <1>0, <1>3 DEF OpenFile
<1>5. Copied(f, k) \/ Relied(IdOf[k])
  BY <1>4 DEF KeptOK
<1>6. ASSUME NEW p \in Procs, At(p, f), job[p].pc = "fill copy"
      PROVE  p \in crowded /\ job[p].doc = k /\ rejected[f] \in {"empty", k}
  <2>1. job[p].op = "reject"
    BY <1>6 DEF TypeOK, JobFits
  <2> QED BY <1>4, <1>6, <2>1 DEF KeptOK, WorkOK
<1> QED BY <1>3, <1>5, <1>6 DEF Earlier, CopyOK

LEMMA EarlierStep ==
    ASSUME ClaimAssumption, TypeOK, \A i \in Ids : IngestInv(i) /\ WholeInv(i),
           KeptInv, EarlierInv, [Next]_vars
    PROVE  EarlierInv'
<1> SUFFICES ASSUME NEW f \in Files, NEW k \in Docs, k \in given'[f], k \notin spoilt'[f], kept'[f] # k
             PROVE  Earlier(f, k)'
  <2>1. TypeOK'
    BY TypeStep
  <2> QED BY <2>1 DEF EarlierInv, TypeOK
<1>1. k \in given[f] /\ k \notin spoilt[f]
  <2>1. CASE UNCHANGED vars
    BY <2>1 DEF vars, histories
  <2>2. ASSUME NEW p \in Procs, FillFile(p) PROVE k \in given[f] /\ k \notin spoilt[f]
    BY <2>2 DEF FillFile, TypeOK
  <2>3. ASSUME NEW p \in Procs, NEW g \in Files, NEW d \in Docs, OpenFile(p, g, d) PROVE k \in given[f] /\ k \notin spoilt[f]
    BY <2>3 DEF OpenFile, TypeOK
  <2>4. ASSUME NEW p \in Procs, OpenCopy(p) PROVE k \in given[f] /\ k \notin spoilt[f]
    BY <2>4 DEF OpenCopy, TypeOK
  <2>5. ASSUME NEW p \in Procs, Die(p) PROVE k \in given[f] /\ k \notin spoilt[f]
    BY <2>5 DEF Die
  <2> QED BY <2>1, <2>2, <2>3, <2>4, <2>5 DEF Next, Examine, BeginReject, ReadAgain, Ingest,
             CheckReplay, OpenStaged, FillStaged, Replace, AppendRows, InsertRows, InsertFails,
             FillCopy, Unlink, histories
<1>2. Earlier(f, k)
  <2>1. CASE kept[f] = k
    <3>1. KeptOK(f, k)
      BY <2>1 DEF KeptInv
    <3> QED BY <2>1, <3>1, BecomesEarlier
  <2> QED BY <1>1, <2>1 DEF EarlierInv
<1>3. CASE Relied(IdOf[k])
  BY <1>3, ReliedStays DEF Earlier
<1>4. CASE CopyOK(f, k)
  <2>1. CASE UNCHANGED vars
    <3>1. UNCHANGED <<rejected, job, crowded>>
      BY <2>1 DEF vars, disk, histories
    <3> QED BY <1>4, <3>1 DEF Earlier, CopyOK, Copied, At
  <2>2. ASSUME NEW p \in Procs, OpenCopy(p) \/ FillCopy(p) \/ Die(p) PROVE CopyOK(f, k)'
    BY <1>4, <2>2, CopyRejects
  <2>3. CopyOK(f, k)' \/ UNCHANGED vars
    BY <1>4, <2>2, CopyStays DEF Next
  <2> QED BY <2>1, <2>3 DEF Earlier
<1> QED BY <1>2, <1>3, <1>4 DEF Earlier

\* A document that was put in quarantine by a caller that had the file to itself is not
\* lost, for any number of callers, files and bundles, whoever dies between two steps
\* and however often the name is used again, but to a later document that overwrites
\* the file or the rejected copy, or to a death that shared the file or the bundle.
THEOREM NoDocumentVanishes == ClaimAssumption => (Spec => []NothingVanishes)
<1> SUFFICES ASSUME ClaimAssumption PROVE Spec => []NothingVanishes
  OBVIOUS
<1>1. Init => KeptInv /\ EarlierInv
  BY IdlePc DEF Init, KeptInv, EarlierInv, FillOK, ClaimAssumption
<1>2. /\ TypeOK /\ DecideInv /\ (\A i \in Ids : IngestInv(i) /\ WholeInv(i))
      /\ KeptInv /\ EarlierInv /\ [Next]_vars
      => KeptInv' /\ EarlierInv'
  BY KeptStep, EarlierStep
<1>3. (\A i \in Ids : IngestInv(i) /\ WholeInv(i)) /\ KeptInv /\ EarlierInv /\ TypeOK => NothingVanishes
  <2>1. SUFFICES ASSUME \A i \in Ids : WholeInv(i), KeptInv, EarlierInv, TypeOK,
                        NEW f \in Files, NEW k \in given[f] \ spoilt[f],
                        k \notin {quarantine[f], rejected[f]},
                        stored[IdOf[k]] \notin {e \in Docs : IdOf[e] = IdOf[k]}
                 PROVE  \E p \in Procs : \/ job[p].doc = k /\ job[p].file = f /\ job[p].pc = "fill copy"
                                         \/ IdOf[k] \in raced /\ Ingesting(p, IdOf[k])
    BY DEF NothingVanishes
  <2>2. k \in Docs /\ IdOf[k] \in Ids /\ Genuine \subseteq Docs
    BY <2>1 DEF TypeOK, ClaimAssumption
  <2>3. (kept[f] = k /\ KeptOK(f, k)) \/ Earlier(f, k)
    BY <2>1, <2>2 DEF KeptInv, EarlierInv
  <2>4. CASE \E p \in Procs : At(p, f) /\ job[p].pc = "fill copy" /\ ~ Relied(IdOf[k])
    <3>1. PICK p \in Procs : At(p, f) /\ job[p].pc = "fill copy" /\ ~ Relied(IdOf[k])
      BY <2>4
    <3>2. job[p].op = "reject"
      BY <2>1, <3>1 DEF TypeOK, JobFits
    <3>3. job[p].doc = k
      BY <2>3, <3>1, <3>2 DEF KeptOK, WorkOK, Earlier, CopyOK
    <3> QED BY <3>1, <3>3 DEF At
  <2>5. CASE Relied(IdOf[k])
    <3>1. stored[IdOf[k]] = "empty"
      BY <2>1, <2>2, <2>5 DEF WholeInv, StoreInv, Good, Relied
    <3>2. \E p \in Procs : Holds(p, IdOf[k], "stored")
      BY <2>5, <3>1 DEF Relied, Filled
    <3>3. \E p \in Procs : Ingesting(p, IdOf[k]) /\ IdOf[k] \in raced
      BY <2>1, <2>2, <3>2 DEF WholeInv, StoreInv, Holds
    <3> QED BY <3>3
  <2> QED BY <2>1, <2>3, <2>4, <2>5 DEF KeptOK, Copied, Earlier, CopyOK
<1> QED BY <1>1, <1>2, <1>3, Wholeness, Decisions, PTL DEF Spec

=============================================================================
