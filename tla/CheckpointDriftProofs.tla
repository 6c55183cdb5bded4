------------------------ MODULE CheckpointDriftProofs ------------------------
(***************************************************************************)
(* What checkpoints and their comparison guarantee, for any number of      *)
(* operators, policies and faults: the entries of a checkpoint are the     *)
(* first of its node, now and later; what verified says what the log said; *)
(* and a class tells the truth of nodes whose logs were up to date.        *)
(***************************************************************************)
EXTENDS CheckpointDrift, TLAPS

-----------------------------------------------------------------------------
(* Types *)

Entry == [n : Nat, policy : Policies]
Maybe == Policies \cup {None}
BodyOf == [node : Nodes, entries : Seq(Entry), latest : Maybe]
Sealed == [by : Nodes, of : BodyOf] \cup {None}
Point == [body : BodyOf, signature : Sealed, truth : Maybe]
File == {NoFile, Part, Mixed} \cup [state : {"whole"}, is : Point]
Moment == 0..MaxSeconds
Classes == {"unknown", "policy_divergence", "publication_lag", "aligned"}

PublishJob == [pc : {"publish"}, local : Point]
FillJob == [pc : {"fill"}, at : Moment, local : Point]
FetchJob == [pc : {"fetch"}, local : Point, verified : BOOLEAN]
CompareJob == [pc : {"compare"}, local : Point, verified : BOOLEAN, peer : Point]
ReportJob == [pc : {"reported"}, local : Point, peer : Point, verified : BOOLEAN, class : Classes]
Job == {Idle} \cup PublishJob \cup FillJob \cup FetchJob \cup CompareJob \cup ReportJob

NodesOK ==
    /\ active \in [Nodes -> Policies]
    /\ pending \in [Nodes -> Seq(Entry)]
    /\ log \in [Nodes -> [entries : Seq(Entry), half : BOOLEAN]]
    /\ replaced \in [Nodes -> Nat]

TypeOK ==
    /\ NodesOK
    /\ published \in [Moment -> File]
    /\ job \in [Operators -> Job]
    /\ seconds \in Moment

-----------------------------------------------------------------------------
(* The invariant *)

\* A node is up to date when its last entry is of its policy, and about to be when
\* that entry is the only one that is still to be appended.
UpToDate ==
    \A n \in tidy :
        /\ n \in Nodes
        /\ \/ /\ pending[n] = <<>> /\ Entries(n) # <<>>
              /\ Last(Entries(n)).policy = active[n]
           \/ Len(pending[n]) = 1 /\ pending[n][1].policy = active[n]

\* A checkpoint has the first entries of its node, and so has what its signature is of.
Honest(c) ==
    /\ IsPrefix(c.body.entries, Entries(c.body.node))
    /\ c.signature # None =>
          /\ c.signature.of = Body(c.signature.by, c.signature.of.entries)
          /\ IsPrefix(c.signature.of.entries, Entries(c.signature.by))
    /\ c.truth # None => c.body.latest = c.truth

FileHonest(f) == f.state = "whole" => Honest(f.is)

JobHonest(j) ==
    /\ j.pc # "idle" => Honest(j.local)
    /\ j.pc \in {"fetch", "compare", "reported"} /\ j.verified => Verifies(j.local, Local)
    /\ j.pc \in {"compare", "reported"} => Honest(j.peer)
    /\ j.pc = "reported" => j.class = Class(j.local.body, j.peer.body)

PointsInv ==
    /\ UpToDate
    /\ \A t \in Moment : FileHonest(published[t])
    /\ \A o \in Operators : JobHonest(job[o])

-----------------------------------------------------------------------------
(* Prefixes *)

\* A sequence is a prefix of itself and of what is appended to it.
LEMMA PrefixGrows ==
  ASSUME NEW S, NEW s \in Seq(S), NEW t \in Seq(S), IsPrefix(s, t), NEW e \in S
  PROVE  IsPrefix(s, Append(t, e))
  BY DEF IsPrefix

LEMMA PrefixOfItself ==
  ASSUME NEW S, NEW s \in Seq(S)
  PROVE  IsPrefix(s, s)
  BY DEF IsPrefix

LEMMA LastAppended ==
  ASSUME NEW S, NEW s \in Seq(S), NEW e \in S
  PROVE  Append(s, e) # <<>> /\ Last(Append(s, e)) = e
  BY DEF Last

LEMMA RemovedType ==
  ASSUME NEW S, NEW s \in Seq(S), NEW i \in 1..Len(s)
  PROVE  /\ RemoveAt(s, i) \in Seq(S)
         /\ Len(s) = 1 => RemoveAt(s, i) = <<>>
  <1>1. SubSeq(s, 1, i - 1) \in Seq(S) /\ SubSeq(s, i + 1, Len(s)) \in Seq(S)
    OBVIOUS
  <1>2. RemoveAt(s, i) \in Seq(S)
    BY <1>1 DEF RemoveAt
  <1>3. ASSUME Len(s) = 1 PROVE RemoveAt(s, i) = <<>>
    <2>1. i = 1 /\ Len(SubSeq(s, 1, i - 1)) = 0 /\ Len(SubSeq(s, i + 1, Len(s))) = 0
      BY <1>3
    <2>2. SubSeq(s, 1, i - 1) = <<>> /\ SubSeq(s, i + 1, Len(s)) = <<>>
      BY <1>1, <2>1
    <2> QED
      BY <2>2 DEF RemoveAt
  <1> QED
    BY <1>2, <1>3

-----------------------------------------------------------------------------
(* Types are kept *)

LEMMA BodyType ==
  ASSUME NEW n \in Nodes, NEW s \in Seq(Entry)
  PROVE  /\ Body(n, s) \in BodyOf
         /\ Body(n, s).node = n /\ Body(n, s).entries = s
  <1>1. s = <<>> \/ Last(s) \in Entry
    BY DEF Last
  <1>2. (IF s = <<>> THEN None ELSE Last(s).policy) \in Maybe
    BY <1>1 DEF Maybe, Entry
  <1> QED
    BY <1>2 DEF Body, BodyOf

LEMMA CheckpointType ==
  ASSUME NodesOK, NEW n \in Nodes
  PROVE  /\ Checkpoint(n) \in Point
         /\ Checkpoint(n).body = Body(n, Entries(n))
         /\ Checkpoint(n).signature = Signature(n, Body(n, Entries(n)))
         /\ Checkpoint(n).truth = Truth(n)
         /\ Entries(n) \in Seq(Entry)
  <1>1. Entries(n) \in Seq(Entry)
    BY DEF NodesOK, Entries
  <1>2. PICK b : b = Body(n, Entries(n))
    OBVIOUS
  <1>3. b \in BodyOf
    BY <1>1, <1>2, BodyType
  <1>4. Signature(n, b) \in Sealed
    BY <1>3 DEF Signature, Sealed
  <1>5. Truth(n) \in Maybe
    BY DEF Truth, Maybe, NodesOK
  <1>6. PICK g, t : g = Signature(n, b) /\ t = Truth(n)
    OBVIOUS
  <1>7. Checkpoint(n) = [body |-> b, signature |-> g, truth |-> t]
    BY <1>2, <1>6 DEF Checkpoint
  <1>8. Checkpoint(n) \in Point
    BY <1>3, <1>4, <1>5, <1>6, <1>7 DEF Point
  <1> QED
    BY <1>1, <1>2, <1>6, <1>7, <1>8

LEMMA AppendedType ==
  ASSUME NEW s \in [entries : Seq(Entry), half : BOOLEAN], NEW e \in Entry
  PROVE  /\ Appended(s, e) \in [entries : Seq(Entry), half : BOOLEAN]
         /\ Appended(s, e).entries = IF s.half THEN s.entries ELSE Append(s.entries, e)
  <1>1. CASE s.half
    BY <1>1 DEF Appended
  <1>2. CASE ~ s.half
    <2>1. Appended(s, e) = [s EXCEPT !.entries = Append(s.entries, e)]
      BY <1>2 DEF Appended
    <2>2. Append(s.entries, e) \in Seq(Entry)
      OBVIOUS
    <2> QED
      BY <1>2, <2>1, <2>2
  <1> QED
    BY <1>1, <1>2

-----------------------------------------------------------------------------
(* The nodes *)

NodeStep(n) ==
    \/ \E policy \in Policies : Replace(n, policy) \/ Edit(n, policy)
    \/ LogEntry(n) \/ LogFails(n) \/ Crash(n)

\* A step of a node leaves the other node alone, and whatever it does to its own log
\* leaves the entries or appends one to them.
LEMMA NodesMove ==
  ASSUME NodesOK, UpToDate, NEW n \in Nodes, NodeStep(n)
  PROVE  /\ NodesOK' /\ UpToDate'
         /\ \A m \in Nodes : \/ Entries(m)' = Entries(m)
                             \/ \E e \in Entry : Entries(m)' = Append(Entries(m), e)
         /\ UNCHANGED <<published, job, seconds>>
  <1> USE DEF NodesOK
  <1>1. ASSUME NEW policy \in Policies, Replace(n, policy)
        PROVE  /\ NodesOK' /\ UpToDate' /\ log' = log
               /\ UNCHANGED <<published, job, seconds>>
    <2>1. PICK e \in Entry : e = [n |-> replaced[n] + 1, policy |-> policy]
      <3>1. PICK k \in Nat : k = replaced[n] + 1
        OBVIOUS
      <3>2. [n |-> k, policy |-> policy] \in Entry
        BY DEF Entry
      <3> QED
        BY <3>1, <3>2
    <2>2. /\ replaced' = [replaced EXCEPT ![n] = replaced[n] + 1]
          /\ active' = [active EXCEPT ![n] = policy]
          /\ pending' = [pending EXCEPT ![n] = Append(pending[n], e)]
          /\ tidy' = IF pending[n] = <<>> THEN tidy \cup {n} ELSE tidy \ {n}
          /\ UNCHANGED <<log, published, job, seconds>>
      BY <1>1, <2>1 DEF Replace
    <2>3. Append(pending[n], e) \in Seq(Entry) /\ e.policy = policy
      BY <2>1
    <2>4. NodesOK'
      BY <2>2, <2>3
    <2>5. ASSUME NEW m \in tidy'
          PROVE  /\ m \in Nodes
                 /\ \/ /\ pending'[m] = <<>> /\ Entries(m)' # <<>>
                       /\ Last(Entries(m)').policy = active'[m]
                    \/ Len(pending'[m]) = 1 /\ pending'[m][1].policy = active'[m]
      <3>1. CASE m = n
        <4>1. pending[n] = <<>>
          BY <2>2, <2>5, <3>1
        <4>2. pending'[n] = Append(<<>>, e) /\ active'[n] = policy
          BY <2>2, <4>1
        <4>3. Len(pending'[n]) = 1 /\ pending'[n][1] = e
          BY <4>2
        <4> QED
          BY <3>1, <4>2, <4>3, <2>3
      <3>2. CASE m # n
        <4>1. m \in tidy /\ m \in Nodes
          BY <2>2, <2>5, <3>2 DEF UpToDate
        <4>2. pending'[m] = pending[m] /\ active'[m] = active[m] /\ Entries(m)' = Entries(m)
          BY <2>2, <3>2, <4>1 DEF Entries
        <4> QED
          BY <4>1, <4>2 DEF UpToDate
      <3> QED
        BY <3>1, <3>2
    <2> QED
      BY <2>2, <2>4, <2>5 DEF UpToDate
  <1>2. ASSUME NEW policy \in Policies, Edit(n, policy)
        PROVE  /\ NodesOK' /\ UpToDate' /\ log' = log
               /\ UNCHANGED <<published, job, seconds>>
    <2>1. /\ active' = [active EXCEPT ![n] = policy] /\ tidy' = tidy \ {n}
          /\ UNCHANGED <<pending, log, replaced, published, job, seconds>>
      BY <1>2 DEF Edit
    <2>2. \A m \in tidy' : m \in tidy /\ m # n
      BY <2>1
    <2>3. \A m \in tidy' : m \in Nodes /\ active'[m] = active[m] /\ Entries(m)' = Entries(m)
      BY <2>1, <2>2 DEF UpToDate, Entries
    <2> QED
      BY <2>1, <2>2, <2>3 DEF UpToDate
  <1>3. ASSUME LogEntry(n)
        PROVE  /\ NodesOK' /\ UpToDate'
               /\ \A m \in Nodes : \/ Entries(m)' = Entries(m)
                                   \/ \E e \in Entry : Entries(m)' = Append(Entries(m), e)
               /\ UNCHANGED <<published, job, seconds>>
    <2>1. PICK i \in 1..Len(pending[n]) :
            /\ log' = [log EXCEPT ![n] = Appended(log[n], pending[n][i])]
            /\ pending' = [pending EXCEPT ![n] = RemoveAt(pending[n], i)]
            /\ tidy' = IF log[n].half THEN tidy \ {n} ELSE tidy
            /\ UNCHANGED <<active, replaced, published, job, seconds>>
      BY <1>3 DEF LogEntry
    <2>2. PICK e \in Entry : e = pending[n][i]
      OBVIOUS
    <2>3. PICK r \in Seq(Entry) : r = RemoveAt(pending[n], i) /\ (Len(pending[n]) = 1 => r = <<>>)
      BY RemovedType
    <2>4. PICK a \in [entries : Seq(Entry), half : BOOLEAN] :
             /\ a = Appended(log[n], e)
             /\ a.entries = IF log[n].half THEN log[n].entries ELSE Append(log[n].entries, e)
      BY AppendedType
    <2>5. /\ log' = [log EXCEPT ![n] = a] /\ pending' = [pending EXCEPT ![n] = r]
      BY <2>1, <2>2, <2>3, <2>4
    <2>6. NodesOK'
      BY <2>1, <2>5
    <2>7. \A m \in Nodes : m # n => Entries(m)' = Entries(m) /\ pending'[m] = pending[m]
      BY <2>5 DEF Entries
    <2>8. Entries(n)' = IF log[n].half THEN Entries(n) ELSE Append(Entries(n), e)
      BY <2>4, <2>5 DEF Entries
    <2>9. UpToDate'
      <3>1. ASSUME NEW m \in tidy'
            PROVE  /\ m \in Nodes
                   /\ \/ /\ pending'[m] = <<>> /\ Entries(m)' # <<>>
                         /\ Last(Entries(m)').policy = active'[m]
                      \/ Len(pending'[m]) = 1 /\ pending'[m][1].policy = active'[m]
        <4>1. m \in tidy /\ m \in Nodes /\ active' = active
          BY <2>1, <3>1 DEF UpToDate
        <4>2. CASE m # n
          BY <4>1, <4>2, <2>7 DEF UpToDate
        <4>3. CASE m = n
          <5>1. ~ log[n].half
            BY <2>1, <3>1, <4>3
          <5>2. Len(pending[n]) = 1 /\ pending[n][1].policy = active[n]
            BY <4>1, <4>3 DEF UpToDate
          <5>3. i = 1 /\ r = <<>> /\ e.policy = active[n]
            BY <5>2, <2>2, <2>3
          <5>4. PICK s \in Seq(Entry) : s = Entries(n)
            BY DEF Entries
          <5>5. Entries(n)' = Append(s, e)
            BY <5>1, <5>4, <2>8
          <5>6. Append(s, e) # <<>> /\ Last(Append(s, e)) = e
            BY LastAppended
          <5>7. pending'[n] = <<>>
            BY <2>5, <5>3
          <5> QED
            BY <4>1, <4>3, <5>3, <5>5, <5>6, <5>7
        <4> QED
          BY <4>2, <4>3
      <3> QED
        BY <3>1 DEF UpToDate
    <2> QED
      BY <2>1, <2>6, <2>7, <2>8, <2>9
  <1>4. ASSUME LogFails(n)
        PROVE  /\ NodesOK' /\ UpToDate' /\ \A m \in Nodes : Entries(m)' = Entries(m)
               /\ UNCHANGED <<published, job, seconds>>
    <2>1. PICK i \in 1..Len(pending[n]) :
            pending' = [pending EXCEPT ![n] = RemoveAt(pending[n], i)]
      BY <1>4 DEF LogFails
    <2>2. /\ log' = [log EXCEPT ![n] = [log[n] EXCEPT !.half = TRUE]] /\ tidy' = tidy \ {n}
          /\ UNCHANGED <<active, replaced, published, job, seconds>>
      BY <1>4 DEF LogFails
    <2>3. RemoveAt(pending[n], i) \in Seq(Entry)
      BY RemovedType
    <2>4. [log[n] EXCEPT !.half = TRUE] \in [entries : Seq(Entry), half : BOOLEAN]
      OBVIOUS
    <2>5. NodesOK'
      BY <2>1, <2>2, <2>3, <2>4
    <2>6. \A m \in Nodes : Entries(m)' = Entries(m)
      BY <2>2 DEF Entries
    <2>7. \A m \in tidy' : m \in tidy /\ m # n /\ m \in Nodes /\ pending'[m] = pending[m]
      BY <2>1, <2>2 DEF UpToDate
    <2> QED
      BY <2>2, <2>5, <2>6, <2>7 DEF UpToDate
  <1>5. ASSUME Crash(n)
        PROVE  /\ NodesOK' /\ UpToDate' /\ log' = log
               /\ UNCHANGED <<published, job, seconds>>
    <2>1. /\ pending' = [pending EXCEPT ![n] = <<>>] /\ tidy' = tidy \ {n}
          /\ UNCHANGED <<active, log, replaced, published, job, seconds>>
      BY <1>5 DEF Crash
    <2>2. NodesOK'
      BY <2>1
    <2>3. \A m \in tidy' : /\ m \in tidy /\ m # n /\ m \in Nodes /\ pending'[m] = pending[m]
                           /\ Entries(m)' = Entries(m)
      BY <2>1 DEF UpToDate, Entries
    <2> QED
      BY <2>1, <2>2, <2>3 DEF UpToDate
  <1> QED
    BY <1>1, <1>2, <1>3, <1>4, <1>5 DEF NodeStep, Entries

-----------------------------------------------------------------------------
(* Checkpoints *)

\* A checkpoint stays true when the logs grow.
LEMMA HonestStays ==
  ASSUME NodesOK, NEW c \in Point, Honest(c),
         \A m \in Nodes : \/ Entries(m)' = Entries(m)
                          \/ \E e \in Entry : Entries(m)' = Append(Entries(m), e)
  PROVE  Honest(c)'
  <1>1. ASSUME NEW m \in Nodes, NEW s \in Seq(Entry), IsPrefix(s, Entries(m))
        PROVE  IsPrefix(s, Entries(m)')
    <2>1. PICK t \in Seq(Entry) : t = Entries(m)
      BY DEF NodesOK, Entries
    <2>2. CASE Entries(m)' = Entries(m)
      BY <1>1, <2>2
    <2>3. ASSUME NEW e \in Entry, Entries(m)' = Append(Entries(m), e)
          PROVE  IsPrefix(s, Entries(m)')
      BY <1>1, <2>1, <2>3, PrefixGrows
    <2> QED
      BY <2>2, <2>3
  <1>2. /\ c.body \in BodyOf /\ c.signature \in Sealed
        /\ c.body.node \in Nodes /\ c.body.entries \in Seq(Entry)
    BY DEF Point, BodyOf
  <1>3. IsPrefix(c.body.entries, Entries(c.body.node)')
    BY <1>1, <1>2 DEF Honest
  <1>4. ASSUME c.signature # None
        PROVE  /\ c.signature.of = Body(c.signature.by, c.signature.of.entries)
               /\ IsPrefix(c.signature.of.entries, Entries(c.signature.by)')
    <2>1. c.signature \in [by : Nodes, of : BodyOf]
      BY <1>2, <1>4 DEF Sealed
    <2>2. c.signature.by \in Nodes /\ c.signature.of.entries \in Seq(Entry)
      BY <2>1 DEF BodyOf
    <2> QED
      BY <1>1, <1>4, <2>2 DEF Honest
  <1> QED
    BY <1>3, <1>4 DEF Honest

\* The one that a node makes now is true.
LEMMA FreshIsHonest ==
  ASSUME NodesOK, UpToDate, NEW n \in Nodes, NEW c, c = Checkpoint(n)
  PROVE  c \in Point /\ Honest(c) /\ c.body = Body(n, Entries(n))
  <1>1. PICK s \in Seq(Entry) : s = Entries(n)
    BY CheckpointType
  <1>2. PICK b : b = Body(n, s)
    OBVIOUS
  <1>3. b \in BodyOf /\ b.node = n /\ b.entries = s
    BY <1>2, BodyType
  <1>4. /\ c \in Point /\ c.body = b /\ c.truth = Truth(n)
        /\ c.signature = Signature(n, b)
    BY <1>1, <1>2, CheckpointType
  <1>5. IsPrefix(s, Entries(n))
    BY <1>1, PrefixOfItself
  <1>6. ASSUME c.signature # None
        PROVE  c.signature.by = n /\ c.signature.of = b
    BY <1>4, <1>6 DEF Signature
  <1>7. ASSUME c.truth # None
        PROVE  c.body.latest = c.truth
    <2>1. pending[n] = <<>> /\ n \in tidy /\ c.truth = active[n]
      BY <1>4, <1>7 DEF Truth
    <2>2. s # <<>> /\ Last(s).policy = active[n]
      BY <1>1, <2>1 DEF UpToDate
    <2> QED
      BY <1>2, <1>4, <2>1, <2>2 DEF Body
  <1> QED
    BY <1>1, <1>2, <1>3, <1>4, <1>5, <1>6, <1>7 DEF Honest

\* What the operators have been told stays true.
LEMMA PointsStay ==
  ASSUME TypeOK, PointsInv,
         UpToDate', UNCHANGED <<published, job>>,
         \A m \in Nodes : \/ Entries(m)' = Entries(m)
                          \/ \E e \in Entry : Entries(m)' = Append(Entries(m), e)
  PROVE  PointsInv'
  <1>1. ASSUME NEW t \in Moment, published[t].state = "whole"
        PROVE  Honest(published[t].is)'
    <2>1. PICK f : f = published[t]
      OBVIOUS
    <2>2. f \in File /\ f.state = "whole"
      BY <1>1, <2>1 DEF TypeOK
    <2>3. f.is \in Point
      BY <2>2 DEF File, NoFile, Part, Mixed
    <2>4. Honest(f.is)
      BY <1>1, <2>1 DEF PointsInv, FileHonest
    <2>5. Honest(f.is)'
      BY <2>3, <2>4, HonestStays DEF TypeOK
    <2> QED
      BY <2>1, <2>5
  <1>2. ASSUME NEW o \in Operators
        PROVE  JobHonest(job[o])'
    <2>1. PICK j : j = job[o]
      OBVIOUS
    <2>2. j \in Job /\ JobHonest(j)
      BY <2>1 DEF TypeOK, PointsInv
    <2>3. j.pc # "idle" => j.local \in Point
      BY <2>2 DEF Job, Idle, PublishJob, FillJob, FetchJob, CompareJob, ReportJob
    <2>4. j.pc \in {"compare", "reported"} => j.peer \in Point
      BY <2>2 DEF Job, Idle, PublishJob, FillJob, FetchJob, CompareJob, ReportJob
    <2>5. JobHonest(j)'
      BY <2>2, <2>3, <2>4, HonestStays DEF JobHonest, TypeOK
    <2> QED
      BY <2>1, <2>5
  <1> QED
    BY <1>1, <1>2 DEF PointsInv, FileHonest

-----------------------------------------------------------------------------
(* The operators *)

LEMMA JobFields ==
  ASSUME NEW j \in Job
  PROVE  /\ j.pc = "idle" => j = Idle
         /\ j.pc # "idle" => j.local \in Point
         /\ j.pc = "fill" => j.at \in Moment /\ j \in FillJob
         /\ j.pc = "fetch" => j \in FetchJob
         /\ j.pc = "compare" => j \in CompareJob
         /\ j.pc = "reported" => j \in ReportJob
  BY DEF Job, Idle, PublishJob, FillJob, FetchJob, CompareJob, ReportJob

\* A step of an operator leaves the logs alone.
LEMMA LogsRest ==
  ASSUME TypeOK, PointsInv, UNCHANGED <<node, seconds>>,
         NEW k \in [Operators -> Job], job' = k, \A o \in Operators : JobHonest(k[o]),
         NEW t \in Moment, NEW f \in File, published' = [published EXCEPT ![t] = f],
         FileHonest(f)
  PROVE  TypeOK' /\ PointsInv'
  <1>1. \A n \in Nodes : Entries(n)' = Entries(n)
    BY DEF node, Entries
  <1>2. NodesOK' /\ UpToDate'
    BY DEF node, NodesOK, TypeOK, PointsInv, UpToDate, Entries
  <1>3. TypeOK'
    BY <1>2 DEF TypeOK
  <1>4. ASSUME NEW c, Honest(c)
        PROVE  Honest(c)'
    BY <1>4 DEF node, Honest, Entries
  <1>5. ASSUME NEW s \in Moment
        PROVE  FileHonest(published[s])'
    <2>1. PICK g : g = published'[s]
      OBVIOUS
    <2>2. FileHonest(g)
      BY <2>1 DEF TypeOK, PointsInv
    <2>3. FileHonest(g)'
      BY <2>2, <1>4 DEF FileHonest
    <2> QED
      BY <2>1, <2>3 DEF FileHonest
  <1>6. ASSUME NEW p \in Operators
        PROVE  JobHonest(job[p])'
    <2>1. PICK j : j = k[p]
      OBVIOUS
    <2>2. JobHonest(j)
      BY <2>1
    <2>3. JobHonest(j)'
      BY <2>2, <1>4 DEF JobHonest
    <2> QED
      BY <2>1, <2>3 DEF JobHonest
  <1> QED
    BY <1>2, <1>3, <1>5, <1>6 DEF PointsInv

LEMMA OperatorMoves ==
  ASSUME TypeOK, PointsInv, UNCHANGED <<node, seconds>>,
         NEW o \in Operators, NEW j \in Job, job' = [job EXCEPT ![o] = j],
         JobHonest(j),
         NEW t \in Moment, NEW f \in File, published' = [published EXCEPT ![t] = f],
         FileHonest(f)
  PROVE  TypeOK' /\ PointsInv'
  <1>1. PICK k : k = [job EXCEPT ![o] = j]
    OBVIOUS
  <1>2. k \in [Operators -> Job] /\ \A p \in Operators : JobHonest(k[p])
    BY <1>1 DEF TypeOK, PointsInv
  <1> QED
    BY <1>1, <1>2, LogsRest

\* Most of them leave the files alone too.
LEMMA OperatorGoes ==
  ASSUME TypeOK, PointsInv, UNCHANGED <<node, seconds, published>>,
         NEW o \in Operators, NEW j \in Job, job' = [job EXCEPT ![o] = j],
         JobHonest(j)
  PROVE  TypeOK' /\ PointsInv'
  <1>1. PICK t \in Moment : t = seconds
    BY DEF TypeOK
  <1>2. PICK f \in File : f = published[t]
    BY DEF TypeOK
  <1>3. published' = [published EXCEPT ![t] = f]
    BY <1>2 DEF TypeOK
  <1>4. FileHonest(f)
    BY <1>2 DEF PointsInv
  <1> QED
    BY <1>3, <1>4, OperatorMoves

LEMMA IdleIsHonest == Idle \in Job /\ JobHonest(Idle)
  BY DEF Job, Idle, JobHonest

LEMMA PublishKept ==
  ASSUME TypeOK, PointsInv, NEW o \in Operators, Publish(o)
  PROVE  TypeOK' /\ PointsInv'
  <1>1. PICK c \in Point : c = Checkpoint(Local) /\ Honest(c)
    BY FreshIsHonest DEF TypeOK, PointsInv, Nodes
  <1>2. PICK j : j = [pc |-> "publish", local |-> c]
    OBVIOUS
  <1>3. j \in Job /\ JobHonest(j)
    BY <1>1, <1>2 DEF Job, PublishJob, JobHonest
  <1>4. job' = [job EXCEPT ![o] = j] /\ UNCHANGED <<node, seconds, published>>
    BY <1>1, <1>2 DEF Publish
  <1> QED
    BY <1>3, <1>4, OperatorGoes

LEMMA OpenKept ==
  ASSUME TypeOK, PointsInv, NEW o \in Operators, OpenPublished(o)
  PROVE  TypeOK' /\ PointsInv'
  <1>1. PICK t \in Moment, k \in Job : t = seconds /\ k = job[o]
    BY DEF TypeOK
  <1>2. k.pc = "publish" /\ JobHonest(k)
    BY <1>1 DEF OpenPublished, PointsInv
  <1>3. k.local \in Point /\ Honest(k.local)
    BY <1>2, JobFields DEF JobHonest
  <1>4. PICK j : j = [pc |-> "fill", at |-> t, local |-> k.local]
    OBVIOUS
  <1>5. j \in Job /\ JobHonest(j)
    BY <1>3, <1>4 DEF Job, FillJob, JobHonest
  <1>6. Part \in File /\ FileHonest(Part)
    BY DEF File, Part, FileHonest
  <1>7. /\ job' = [job EXCEPT ![o] = j] /\ published' = [published EXCEPT ![t] = Part]
        /\ UNCHANGED <<node, seconds>>
    BY <1>1, <1>4 DEF OpenPublished
  <1> QED
    BY <1>5, <1>6, <1>7, OperatorMoves

LEMMA FillKept ==
  ASSUME TypeOK, PointsInv, NEW o \in Operators, FillPublished(o) \/ FillFails(o)
  PROVE  TypeOK' /\ PointsInv'
  <1>1. PICK j \in Job : j = job[o]
    BY DEF TypeOK
  <1>2. j.pc = "fill" /\ JobHonest(j)
    BY <1>1 DEF FillPublished, FillFails, PointsInv
  <1>3. j.at \in Moment /\ j.local \in Point
    BY <1>2, JobFields
  <1>4. Honest(j.local)
    BY <1>2 DEF JobHonest
  <1>5. PICK g \in File : g = published[j.at] /\ FileHonest(g)
    BY <1>3 DEF TypeOK, PointsInv
  <1>6. PICK f \in {Whole(j.local), Mixed, g} :
           published' = [published EXCEPT ![j.at] = f]
    BY <1>1, <1>5 DEF FillPublished, FillFails, Onto
  <1>7. f \in File /\ FileHonest(f)
    BY <1>3, <1>4, <1>5 DEF File, FileHonest, Whole, Mixed
  <1>8. job' = [job EXCEPT ![o] = Idle] /\ UNCHANGED <<node, seconds>>
    BY DEF FillPublished, FillFails
  <1> QED
    BY <1>3, <1>6, <1>7, <1>8, IdleIsHonest, OperatorMoves

LEMMA TakeKept ==
  ASSUME TypeOK, PointsInv, NEW o \in Operators, TakeLocal(o)
  PROVE  TypeOK' /\ PointsInv'
  <1>1. PICK c \in {Checkpoint(Local)} \cup Readable :
          job' = [job EXCEPT ![o] = [pc |-> "fetch", local |-> c, verified |-> FALSE]]
    BY DEF TakeLocal
  <1>2. c \in Point /\ Honest(c)
    <2>1. CASE c = Checkpoint(Local)
      BY <2>1, FreshIsHonest DEF TypeOK, PointsInv, Nodes
    <2>2. CASE c \in Readable
      <3>1. PICK t \in Moment : published[t].state = "whole" /\ c = published[t].is
        BY <2>2 DEF Readable, Moment
      <3>2. PICK f \in File : f = published[t]
        BY DEF TypeOK
      <3>3. f.state = "whole" /\ c = f.is /\ FileHonest(f)
        BY <3>1, <3>2 DEF PointsInv
      <3> QED
        BY <3>3 DEF File, NoFile, Part, Mixed, FileHonest
    <2> QED
      BY <2>1, <2>2
  <1>3. PICK j : j = [pc |-> "fetch", local |-> c, verified |-> FALSE]
    OBVIOUS
  <1>4. j \in Job /\ JobHonest(j)
    BY <1>2, <1>3 DEF Job, FetchJob, JobHonest
  <1>5. UNCHANGED <<node, seconds, published>>
    BY DEF TakeLocal
  <1> QED
    BY <1>1, <1>3, <1>4, <1>5, OperatorGoes

LEMMA VerifyKept ==
  ASSUME TypeOK, PointsInv, NEW o \in Operators, VerifyLocal(o)
  PROVE  TypeOK' /\ PointsInv'
  <1>1. PICK j \in Job : j = job[o]
    BY DEF TypeOK
  <1>2. j.pc = "fetch" /\ JobHonest(j) /\ j \in FetchJob
    BY <1>1, JobFields DEF VerifyLocal, PointsInv
  <1>3. PICK k : k = IF Verifies(j.local, Local) THEN [j EXCEPT !.verified = TRUE] ELSE Idle
    OBVIOUS
  <1>4. k \in Job /\ JobHonest(k)
    <2>1. CASE Verifies(j.local, Local)
      BY <1>2, <1>3, <2>1 DEF Job, FetchJob, JobHonest
    <2>2. CASE ~ Verifies(j.local, Local)
      BY <1>3, <2>2, IdleIsHonest
    <2> QED
      BY <2>1, <2>2
  <1>5. job' = [job EXCEPT ![o] = k] /\ UNCHANGED <<node, seconds, published>>
    BY <1>1, <1>3 DEF VerifyLocal
  <1> QED
    BY <1>4, <1>5, OperatorGoes

LEMMA FetchKept ==
  ASSUME TypeOK, PointsInv, NEW o \in Operators, Fetch(o)
  PROVE  TypeOK' /\ PointsInv'
  <1>1. PICK j \in Job : j = job[o]
    BY DEF TypeOK
  <1>2. j.pc = "fetch" /\ JobHonest(j) /\ j \in FetchJob
    BY <1>1, JobFields DEF Fetch, PointsInv
  <1>3. PICK c \in Point : c = Checkpoint(Remote) /\ Honest(c)
    BY FreshIsHonest DEF TypeOK, PointsInv, Nodes
  <1>4. PICK k : k = [pc |-> "compare", local |-> j.local, verified |-> j.verified, peer |-> c]
    OBVIOUS
  <1>5. k \in Job /\ JobHonest(k)
    BY <1>2, <1>3, <1>4 DEF Job, FetchJob, CompareJob, JobHonest
  <1>6. job' = [job EXCEPT ![o] = k] /\ UNCHANGED <<node, seconds, published>>
    BY <1>1, <1>3, <1>4 DEF Fetch
  <1> QED
    BY <1>5, <1>6, OperatorGoes

LEMMA CompareKept ==
  ASSUME TypeOK, PointsInv, NEW o \in Operators, Compare(o)
  PROVE  TypeOK' /\ PointsInv'
  <1>1. PICK j \in Job : j = job[o]
    BY DEF TypeOK
  <1>2. j.pc = "compare" /\ JobHonest(j) /\ j \in CompareJob
    BY <1>1, JobFields DEF Compare, PointsInv
  <1>3. PICK d \in Classes : d = Class(j.local.body, j.peer.body)
    BY DEF Class, Classes
  <1>4. PICK k : k = [pc |-> "reported", local |-> j.local, peer |-> j.peer,
                      verified |-> j.verified, class |-> d]
    OBVIOUS
  <1>5. k \in Job /\ JobHonest(k)
    BY <1>2, <1>3, <1>4 DEF Job, CompareJob, ReportJob, JobHonest
  <1>6. job' = [job EXCEPT ![o] = k] /\ UNCHANGED <<node, seconds, published>>
    BY <1>1, <1>3, <1>4 DEF Compare
  <1> QED
    BY <1>5, <1>6, OperatorGoes

LEMMA DamageKept ==
  ASSUME TypeOK, PointsInv, NEW t \in Moment, NEW policy \in Policies, Damage(t, policy)
  PROVE  TypeOK' /\ PointsInv'
  <1>1. PICK f \in File : f = published[t]
    BY DEF TypeOK
  <1>2. f.state = "whole" /\ FileHonest(f) /\ f.is \in Point
    BY <1>1 DEF Damage, PointsInv, File, NoFile, Part, Mixed
  <1>3. PICK b : b = [f.is.body EXCEPT !.latest = policy]
    OBVIOUS
  <1>4. PICK c : c = [f.is EXCEPT !.body = b, !.truth = None]
    OBVIOUS
  <1>5. PICK g : g = [f EXCEPT !.is = c]
    OBVIOUS
  <1>6. /\ b \in BodyOf /\ b.node = f.is.body.node /\ b.entries = f.is.body.entries
    BY <1>2, <1>3 DEF Point, BodyOf, Maybe
  <1>7. /\ c \in Point /\ c.body = b /\ c.signature = f.is.signature /\ c.truth = None
    BY <1>2, <1>4, <1>6 DEF Point, Maybe
  <1>8. Honest(c)
    BY <1>2, <1>6, <1>7 DEF Honest, FileHonest
  <1>9. g \in File /\ FileHonest(g)
    BY <1>1, <1>2, <1>5, <1>7, <1>8 DEF File, NoFile, Part, Mixed, FileHonest
  <1>10. published' = [published EXCEPT ![t] = g]
    BY <1>1, <1>3, <1>4, <1>5 DEF Damage
  <1>11. UNCHANGED <<node, seconds, job>>
    BY DEF Damage
  <1>12. PICK k : k = job
    OBVIOUS
  <1>13. /\ k \in [Operators -> Job] /\ \A o \in Operators : JobHonest(k[o])
         /\ job' = k
    BY <1>11, <1>12 DEF TypeOK, PointsInv
  <1> QED
    BY <1>9, <1>10, <1>11, <1>13, LogsRest

LEMMA DoneKept ==
  ASSUME TypeOK, PointsInv, NEW o \in Operators, Done(o)
  PROVE  TypeOK' /\ PointsInv'
  <1>1. job' = [job EXCEPT ![o] = Idle] /\ UNCHANGED <<node, seconds, published>>
    BY DEF Done
  <1> QED
    BY <1>1, IdleIsHonest, OperatorGoes

LEMMA RestKept ==
  ASSUME TypeOK, PointsInv, UNCHANGED <<node, published, job>>, seconds' \in Moment
  PROVE  TypeOK' /\ PointsInv'
  <1>1. UpToDate' /\ NodesOK' /\ \A m \in Nodes : Entries(m)' = Entries(m)
    BY DEF node, TypeOK, NodesOK, PointsInv, UpToDate, Entries
  <1>2. PointsInv'
    BY <1>1, PointsStay
  <1> QED
    BY <1>1, <1>2 DEF TypeOK

OperatorStep(o) ==
    \/ Publish(o) \/ OpenPublished(o) \/ FillPublished(o) \/ FillFails(o) \/ TakeLocal(o) \/ VerifyLocal(o)
    \/ Fetch(o) \/ Compare(o) \/ Done(o)

LEMMA NextParts ==
  ASSUME [Next]_vars
  PROVE  \/ \E n \in Nodes : NodeStep(n)
         \/ \E o \in Operators : OperatorStep(o)
         \/ \E t \in Moment, policy \in Policies : Damage(t, policy)
         \/ Tick
         \/ UNCHANGED vars
  BY DEF Next, NodeStep, OperatorStep, Moment

LEMMA PointsStep ==
  ASSUME TypeOK, PointsInv, [Next]_vars
  PROVE  TypeOK' /\ PointsInv'
  <1>1. ASSUME NEW n \in Nodes, NodeStep(n) PROVE TypeOK' /\ PointsInv'
    <2>1. /\ NodesOK' /\ UpToDate' /\ UNCHANGED <<published, job, seconds>>
          /\ \A m \in Nodes : \/ Entries(m)' = Entries(m)
                              \/ \E e \in Entry : Entries(m)' = Append(Entries(m), e)
      BY <1>1, NodesMove DEF TypeOK, PointsInv
    <2> QED
      BY <2>1, PointsStay DEF TypeOK
  <1>2. ASSUME NEW o \in Operators, OperatorStep(o) PROVE TypeOK' /\ PointsInv'
    BY <1>2, PublishKept, OpenKept, FillKept, TakeKept, VerifyKept, FetchKept, CompareKept, DoneKept
       DEF OperatorStep
  <1>3. ASSUME NEW t \in Moment, NEW policy \in Policies, Damage(t, policy)
        PROVE  TypeOK' /\ PointsInv'
    BY <1>3, DamageKept
  <1>4. CASE Tick
    <2>1. UNCHANGED <<node, published, job>> /\ seconds' = seconds + 1 /\ seconds < MaxSeconds
      BY <1>4 DEF Tick
    <2>2. seconds' \in Moment
      BY <2>1, DriftAssumption DEF TypeOK, Moment
    <2> QED
      BY <2>1, <2>2, RestKept
  <1>5. CASE UNCHANGED vars
    BY <1>5, RestKept DEF vars, TypeOK
  <1> QED
    BY <1>1, <1>2, <1>3, <1>4, <1>5, NextParts

LEMMA PointsInit == Init => TypeOK /\ PointsInv
  <1> SUFFICES ASSUME Init PROVE TypeOK /\ PointsInv
    OBVIOUS
  <1>1. <<>> \in Seq(Entry) /\ 0 \in Moment /\ NoFile \in File /\ Idle \in Job
    BY DriftAssumption DEF Moment, File, Job
  <1>2. [entries |-> <<>>, half |-> FALSE] \in [entries : Seq(Entry), half : BOOLEAN]
    BY <1>1
  <1>3. NodesOK
    BY <1>1, <1>2 DEF Init, NodesOK
  <1>4. TypeOK
    BY <1>1, <1>3 DEF Init, TypeOK, Moment
  <1>5. UpToDate
    BY DEF Init, UpToDate
  <1>6. \A t \in Moment : FileHonest(published[t])
    BY DEF Init, Moment, FileHonest, NoFile
  <1>7. \A o \in Operators : JobHonest(job[o])
    BY IdleIsHonest DEF Init
  <1> QED
    BY <1>4, <1>5, <1>6, <1>7 DEF PointsInv

\* Nodes, checkpoints, files and jobs are of their kinds; a tidy node ends with the entry
\* of its policy or is about to; and what checkpoints have are first entries of their node.
THEOREM Typed == Spec => [](TypeOK /\ PointsInv)
  <1>1. Init => TypeOK /\ PointsInv
    BY PointsInit
  <1>2. TypeOK /\ PointsInv /\ [Next]_vars => (TypeOK /\ PointsInv)'
    BY PointsStep
  <1> QED
    BY <1>1, <1>2, PTL DEF Spec

-----------------------------------------------------------------------------
(* What follows *)

\* Whatever fails: of two checkpoints of a node the entries of the one begin with those
\* of the other, and what verified is what the log of the node said.
THEOREM CheckpointsAreTrue == Spec => []CheckpointsTrue
  <1>1. ASSUME TypeOK, PointsInv PROVE CheckpointsTrue
    <2>1. ASSUME NEW c \in Locals \cup Peers PROVE Honest(c)
      <3>1. CASE c \in Readable
        <4>1. PICK t \in Moment : published[t].state = "whole" /\ c = published[t].is
          BY <3>1 DEF Readable, Moment
        <4> QED
          BY <1>1, <4>1 DEF PointsInv, FileHonest
      <3>2. CASE c \notin Readable
        <4>1. PICK o \in Operators : \/ job[o].pc # "idle" /\ c = job[o].local
                                     \/ job[o].pc \in {"compare", "reported"} /\ c = job[o].peer
          BY <2>1, <3>2 DEF Locals, Peers
        <4>2. JobHonest(job[o])
          BY <1>1 DEF PointsInv
        <4> QED
          BY <4>1, <4>2 DEF JobHonest
      <3> QED
        BY <3>1, <3>2
    <2>2. CheckpointsExtend
      BY <2>1 DEF CheckpointsExtend, Honest
    <2>3. ASSUME NEW o \in Operators,
                 job[o].pc \in {"fetch", "compare", "reported"}, job[o].verified
          PROVE  /\ job[o].local.body = Body(Local, job[o].local.body.entries)
                 /\ IsPrefix(job[o].local.body.entries, Entries(Local))
      <3>1. PICK c : c = job[o].local
        OBVIOUS
      <3>2. Honest(c) /\ Verifies(c, Local)
        BY <1>1, <2>3, <3>1 DEF PointsInv, JobHonest
      <3> QED
        BY <3>1, <3>2 DEF Honest, Verifies
    <2> QED
      BY <2>2, <2>3 DEF CheckpointsTrue, VerifiedIsTrue
  <1> QED
    BY <1>1, Typed, PTL

\* A report tells nodes that differed from nodes that agreed, for nodes whose logs were
\* up to date when their checkpoints were made.
THEOREM ClassesAreTrue == Spec => []ClassIsTrue
  <1>1. ASSUME TypeOK, PointsInv PROVE ClassIsTrue
    <2>1. ASSUME NEW o \in Operators, job[o].pc = "reported",
                 job[o].local.truth # None, job[o].peer.truth # None
          PROVE  job[o].class \in IF job[o].local.truth = job[o].peer.truth
                                  THEN {"aligned", "publication_lag"} ELSE {"policy_divergence"}
      <3>1. PICK a, b, d : a = job[o].local /\ b = job[o].peer /\ d = job[o].class
        OBVIOUS
      <3>2. Honest(a) /\ Honest(b) /\ d = Class(a.body, b.body)
        BY <1>1, <2>1, <3>1 DEF PointsInv, JobHonest
      <3>3. a.body.latest = a.truth /\ b.body.latest = b.truth /\ a.truth # None /\ b.truth # None
        BY <2>1, <3>1, <3>2 DEF Honest
      <3>4. CASE a.truth = b.truth
        BY <3>1, <3>2, <3>3, <3>4 DEF Class
      <3>5. CASE a.truth # b.truth
        <4>1. d = "policy_divergence"
          BY <3>2, <3>3, <3>5 DEF Class
        <4> QED
          BY <3>1, <3>5, <4>1
      <3> QED
        BY <3>4, <3>5
    <2> QED
      BY <2>1 DEF ClassIsTrue
  <1> QED
    BY <1>1, Typed, PTL
=============================================================================
