-------------------------- MODULE VillageStoreProofs --------------------------
(***************************************************************************)
(* What VillageStore guarantees for any processes, policies, updates and   *)
(* bounds.  First types; then what a save of village.json guarantees as    *)
(* long as no two load-to-save windows overlap: the document always        *)
(* parses, the rows of the history are true, an issuer command loses       *)
(* nothing and an import keeps the promise of its receipt.                 *)
(*                                                                         *)
(* Then the trails: an installed policy reaches all of them or met a       *)
(* fault, each trail repeats the earlier ones, a rollback restores what    *)
(* was recorded; without overlapping requests what was checked is what is  *)
(* replaced and the newest row is the policy in force; and a single        *)
(* process keeps the promise of PolicyLedger.                              *)
(***************************************************************************)
EXTENDS VillageStore, TLAPS

-----------------------------------------------------------------------------
(* Types *)

Before == {"publish", "republish", "load"}

\* A request names what its kind calls for.
RequestOK ==
  \A op \in 1..Len(request) :
    request[op].kind \in IssuerKind => request[op].arg \in Issuer

\* A busy process serves a request that was made, publishes an update, and
\* has a policy in hand from the moment it has loaded the document.
JobOK ==
  \A p \in Proc : Busy(p) =>
    /\ job[p].op \in 1..Len(request)
    /\ pc[p] \in {"publish", "republish"} => request[job[p].op].arg \in Update
    /\ job[p].policy \notin Policy => pc[p] \in Before

TypeInv == TypeOK /\ RequestOK /\ JobOK

\* The document an issuer command saves is a policy again.
LEMMA EditedType ==
  ASSUME NEW r \in Request, NEW target \in Known, NEW loaded \in Policy,
         r.kind \in IssuerKind => r.arg \in Issuer,
         target \notin Policy => r.kind \in IssuerKind
  PROVE  Edited(r, target, loaded) \in Policy
  <1>1. ASSUME r.kind \in IssuerKind PROVE Allowing(loaded, r.arg) \in Policy
    BY <1>1 DEF Allowing, Policy
  <1>2. ASSUME r.kind \in IssuerKind PROVE Blocking(loaded, r.arg) \in Policy
    BY <1>2 DEF Blocking, Policy
  <1>3. CASE r.kind = "allow"
    BY <1>1, <1>3 DEF Edited, IssuerKind
  <1>4. CASE r.kind = "block"
    BY <1>2, <1>4 DEF Edited, IssuerKind
  <1>5. CASE r.kind \notin IssuerKind
    BY <1>5 DEF Edited, IssuerKind
  <1> QED BY <1>3, <1>4, <1>5 DEF IssuerKind

LEMMA InitType == Init => TypeInv
  <1> SUFFICES ASSUME Init PROVE TypeInv
    OBVIOUS
  <1>1. FilesOK
    BY ConstantsAssumption DEF FilesOK, Content, Init
  <1>2. ControlOK
    <2>1. pc \in [Proc -> Step]
      BY DEF Init, Step
    <2>2. job \in [Proc -> [op: Nat, policy: Known, base: Known]]
      BY DEF Init, Idle, Known
    <2>3. request \in Seq(Request)
      BY DEF Init
    <2> QED BY <2>1, <2>2, <2>3 DEF ControlOK
  <1>3. RequestOK /\ JobOK
    <2>1. 1..Len(request) = {}
      BY DEF Init
    <2>2. RequestOK
      BY <2>1, Zenon DEF RequestOK
    <2>3. \A p \in Proc : ~Busy(p)
      BY DEF Init, Busy
    <2> QED BY <2>2, <2>3, Zenon DEF JobOK
  <1>4. TrailsOK
    BY DEF TrailsOK, Init
  <1>5. TablesOK
    BY DEF TablesOK, Known, Init
  <1>6. ObservedOK
    <2>1. /\ installed \in Seq([op: Nat, content: Content, over: Content])
          /\ interrupted \subseteq Nat
      BY DEF Init
    <2>2. overlapped \in BOOLEAN /\ raced \in BOOLEAN
      BY Zenon DEF Init
    <2> QED BY <2>1, <2>2 DEF ObservedOK
  <1> QED BY <1>1, <1>2, <1>3, <1>4, <1>5, <1>6 DEF TypeInv, TypeOK

\* A step of a handler after its start: pc moves on, the job stays.
LEMMA GotoType ==
  ASSUME TypeInv, NEW p \in Proc, Busy(p), NEW at \in Step, Goto(p, at),
         UNCHANGED <<job, request>>,
         at \in {"publish", "republish"} => pc[p] = "publish",
         at # "idle" /\ job[p].policy \notin Policy => at \in Before
  PROVE  (ControlOK /\ RequestOK /\ JobOK)'
  <1>1. ControlOK'
    BY DEF ControlOK, TypeInv, TypeOK, Goto
  <1>2. RequestOK'
    BY DEF RequestOK, TypeInv
  <1>3. ASSUME NEW q \in Proc, pc'[q] # "idle"
        PROVE  /\ job[q].op \in 1..Len(request)
               /\ pc'[q] \in {"publish", "republish"} => request[job[q].op].arg \in Update
               /\ job[q].policy \notin Policy => pc'[q] \in Before
    <2>1. pc'[q] = IF q = p THEN at ELSE pc[q]
      BY DEF TypeInv, TypeOK, ControlOK, Goto
    <2>2. CASE q = p
      BY <1>3, <2>1, <2>2 DEF TypeInv, JobOK, Busy, Kindof
    <2>3. CASE q # p
      BY <1>3, <2>1, <2>3 DEF TypeInv, JobOK, Busy, Kindof
    <2> QED BY <2>2, <2>3
  <1>4. JobOK'
    BY <1>3 DEF JobOK, Busy, Kindof
  <1> QED BY <1>1, <1>2, <1>4

\* The start of a request.
LEMMA BeginType ==
  ASSUME TypeInv, NEW p \in Proc, NEW kind \in Kind,
         NEW arg \in Update \cup Issuer \cup {NoArg}, NEW seen \in Known,
         NEW target \in Known, NEW at \in {"publish", "load"},
         Begin(p, kind, arg, seen, target, at),
         kind \in IssuerKind => arg \in Issuer /\ at = "load",
         at = "publish" => arg \in Update
  PROVE  (FilesOK /\ ControlOK /\ TablesOK /\ ObservedOK /\ RequestOK /\ JobOK)'
  <1> DEFINE r == [kind |-> kind, arg |-> arg, seen |-> seen]
             j == [op |-> Len(request) + 1, policy |-> target, base |-> NoPolicy]
  <1>1. /\ request \in Seq(Request) /\ r \in Request /\ Len(request) \in Nat
        /\ j \in [op: Nat, policy: Known, base: Known]
    BY DEF TypeInv, TypeOK, ControlOK, Request, Known
  <1>2. request' = Append(request, r) /\ job' = [job EXCEPT ![p] = j]
    BY DEF Begin
  <1>3. /\ request' \in Seq(Request)
        /\ Len(request') = Len(request) + 1
        /\ request'[Len(request) + 1] = r
        /\ \A op \in 1..Len(request) : request'[op] = request[op]
    BY <1>1, <1>2
  <1>4. pc' = [pc EXCEPT ![p] = at] /\ pc[p] = "idle"
    BY DEF Begin
  <1>5. ControlOK'
    BY <1>1, <1>2, <1>3, <1>4 DEF ControlOK, TypeInv, TypeOK, Step
  <1>6. RequestOK'
    BY <1>1, <1>3 DEF RequestOK, TypeInv
  <1>7. ASSUME NEW q \in Proc, pc'[q] # "idle"
        PROVE  /\ job'[q].op \in 1..Len(request')
               /\ pc'[q] \in {"publish", "republish"} => request'[job'[q].op].arg \in Update
               /\ job'[q].policy \notin Policy => pc'[q] \in Before
    <2>1. CASE q = p
      <3>1. job'[q] = j /\ pc'[q] = at
        BY <1>2, <1>4, <2>1 DEF TypeInv, TypeOK, ControlOK
      <3>2. request'[job'[q].op] = r /\ job'[q].op \in 1..Len(request')
        BY <1>1, <1>3, <3>1
      <3> QED BY <3>1, <3>2 DEF Before
    <2>2. CASE q # p
      <3>1. job'[q] = job[q] /\ pc'[q] = pc[q]
        BY <1>2, <1>4, <2>2 DEF TypeInv, TypeOK, ControlOK
      <3>2. job[q].op \in 1..Len(request)
        BY <1>7, <3>1 DEF TypeInv, JobOK, Busy
      <3>3. request'[job'[q].op] = request[job[q].op] /\ job'[q].op \in 1..Len(request')
        BY <1>1, <1>3, <3>1, <3>2
      <3> QED BY <1>7, <3>1, <3>3 DEF TypeInv, JobOK, Busy, Kindof
    <2> QED BY <2>1, <2>2
  <1>8. JobOK'
    BY <1>7 DEF JobOK, Busy, Kindof
  <1>9. FilesOK' /\ TablesOK'
    BY DEF Begin, files, tables, FilesOK, TablesOK, TypeInv, TypeOK
  <1>10. ObservedOK'
    <2>1. overlapped' \in BOOLEAN
      BY DEF Begin
    <2> QED BY <2>1 DEF Begin, ObservedOK, TypeInv, TypeOK
  <1> QED BY <1>5, <1>6, <1>8, <1>9, <1>10

LEMMA PolicyOfType == \A u \in Update : PolicyOf[u] \in Known
  BY ConstantsAssumption DEF Known

LEMMA StartType ==
  ASSUME TypeInv, NEW p \in Proc, Start(p)
  PROVE  TypeInv'
  <1>1. \A u \in Update : PolicyOf[u] \in Known
    BY PolicyOfType
  <1>2. SUFFICES TrailsOK' /\ (FilesOK /\ ControlOK /\ TablesOK /\ ObservedOK /\ RequestOK /\ JobOK)'
    BY DEF TypeInv, TypeOK
  <1>3. ASSUME UNCHANGED <<feed, trails>>, receipts' \subseteq Nat
        PROVE  TrailsOK'
    BY <1>3 DEF TrailsOK, trails, TypeInv, TypeOK
  <1>4. receipts \subseteq Nat /\ Len(request) + 1 \in Nat
    BY DEF TypeInv, TypeOK, TrailsOK, ControlOK
  <1>5. CASE \E u \in Update : Post(p, u)
    <2>1. PICK u \in Update : Post(p, u)
      BY <1>5
    <2>2. village \in Known
      BY <2>1 DEF Post, Readable, Known
    <2>3. Begin(p, "post", u, village, PolicyOf[u], "publish") /\ UNCHANGED receipts
      BY <2>1 DEF Post
    <2>4. TrailsOK'
      BY <1>3, <1>4, <2>3 DEF Begin
    <2> QED BY <1>1, <2>2, <2>3, <2>4, BeginType DEF Kind, ApplyKind, IssuerKind
  <1>6. CASE \E u \in Update : Pull(p, u)
    <2>1. PICK u \in Update : Pull(p, u)
      BY <1>6
    <2>2. PICK seen \in Known : Begin(p, "pull", u, seen, PolicyOf[u], "load")
      BY <2>1 DEF Pull, Readable, Known
    <2>3. TrailsOK'
      BY <1>3, <1>4, <2>1, <2>2 DEF Begin, Pull
    <2> QED BY <1>1, <2>2, <2>3, BeginType DEF Kind, ApplyKind, IssuerKind
  <1>7. CASE \E u \in Update : Compiled(p, u)
    <2>1. PICK u \in Update : Compiled(p, u)
      BY <1>7
    <2>2. Begin(p, "compiled", u, NoPolicy, PolicyOf[u], "load")
      BY <2>1 DEF Compiled
    <2>3. TrailsOK'
      BY <1>3, <1>4, <2>1, <2>2 DEF Begin, Compiled
    <2> QED BY <1>1, <2>2, <2>3, BeginType DEF Kind, ApplyKind, IssuerKind, Known
  <1>8. CASE \E u \in Update : Import(p, u)
    <2>1. PICK u \in Update : Import(p, u)
      BY <1>8
    <2>2. Begin(p, "import", u, NoPolicy, PolicyOf[u], "load")
      BY <2>1 DEF Import
    <2>3. TrailsOK'
      BY <1>3, <1>4, <2>1, <2>2 DEF Begin, Import
    <2> QED BY <1>1, <2>2, <2>3, BeginType DEF Kind, ApplyKind, IssuerKind, Known
  <1>9. CASE \E i \in Issuer : AllowIssuer(p, i)
    <2>1. PICK i \in Issuer : AllowIssuer(p, i)
      BY <1>9
    <2>2. Begin(p, "allow", i, NoPolicy, NoPolicy, "load")
      BY <2>1 DEF AllowIssuer
    <2>3. TrailsOK'
      BY <1>3, <1>4, <2>1, <2>2 DEF Begin, AllowIssuer
    <2> QED BY <2>2, <2>3, BeginType DEF Kind, ApplyKind, IssuerKind, Known
  <1>10. CASE \E i \in Issuer : BlockIssuer(p, i)
    <2>1. PICK i \in Issuer : BlockIssuer(p, i)
      BY <1>10
    <2>2. Begin(p, "block", i, NoPolicy, NoPolicy, "load")
      BY <2>1 DEF BlockIssuer
    <2>3. TrailsOK'
      BY <1>3, <1>4, <2>1, <2>2 DEF Begin, BlockIssuer
    <2> QED BY <2>2, <2>3, BeginType DEF Kind, ApplyKind, IssuerKind, Known
  <1>11. CASE Rollback(p)
    <2>1. PICK i \in 1..Len(history) :
            Begin(p, "rollback", NoArg, NoPolicy, history[i].policy, "load")
      BY <1>11 DEF Rollback
    <2>2. history[i].policy \in Policy
      <3>1. history \in Seq(Row)
        BY DEF TypeInv, TypeOK, TrailsOK
      <3>2. history[i] \in Row
        BY <3>1
      <3> QED BY <3>2 DEF Row
    <2>3. TrailsOK'
      BY <1>3, <1>4, <1>11, <2>1 DEF Begin, Rollback
    <2> QED BY <2>1, <2>2, <2>3, BeginType DEF Kind, ApplyKind, IssuerKind, Known
  <1> QED BY <1>5, <1>6, <1>7, <1>8, <1>9, <1>10, <1>11 DEF Start

\* Past the load a handler has a policy in hand, hence a row to append.
LEMMA InHand ==
  ASSUME TypeInv, NEW p \in Proc, Busy(p), pc[p] \notin {"publish", "republish", "load"}
  PROVE  /\ job[p].policy \in Policy
         /\ RowOf(p) \in Row
         /\ job[p].op \in 1..Len(request) /\ job[p].op \in Nat
         /\ request[job[p].op] \in Request
  <1>1. job[p].policy \in Policy /\ job[p].op \in 1..Len(request)
    BY DEF TypeInv, JobOK, Before
  <1>2. job[p].op \in Nat
    BY DEF TypeInv, TypeOK, ControlOK
  <1>3. request[job[p].op] \in Request
    BY <1>1 DEF TypeInv, TypeOK, ControlOK
  <1> QED BY <1>1, <1>2, <1>3 DEF RowOf, Row

LEMMA LoadType ==
  ASSUME TypeInv, NEW p \in Proc, Load(p)
  PROVE  TypeInv'
  <1> DEFINE op == job[p].op
             j == [op |-> op, base |-> village,
                   policy |-> Edited(request[op], job[p].policy, village)]
  <1>1. pc[p] = "load" /\ village \in Policy
    BY DEF Load, Readable
  <1>2. /\ op \in 1..Len(request) /\ op \in Nat
        /\ job[p].policy \in Known
        /\ job[p].policy \notin Policy => request[op].kind \in IssuerKind
    BY <1>1 DEF Load, Applicable, TypeInv, TypeOK, ControlOK, JobOK, Busy
  <1>3. request[op] \in Request /\ (request[op].kind \in IssuerKind => request[op].arg \in Issuer)
    BY <1>2 DEF TypeInv, TypeOK, ControlOK, RequestOK
  <1>4. Edited(request[op], job[p].policy, village) \in Policy
    BY <1>1, <1>2, <1>3, EditedType
  <1>5. j \in [op: Nat, policy: Known, base: Known] /\ j.policy \in Policy /\ j.op = op
    BY <1>1, <1>2, <1>4 DEF Known
  <1>6. job' = [job EXCEPT ![p] = j] /\ pc' = [pc EXCEPT ![p] = "open"] /\ request' = request
    BY DEF Load, Goto
  <1>7. ControlOK' /\ RequestOK'
    BY <1>5, <1>6 DEF TypeInv, TypeOK, ControlOK, RequestOK, Step, Window
  <1>8. ASSUME NEW q \in Proc, pc'[q] # "idle"
        PROVE  /\ job'[q].op \in 1..Len(request')
               /\ pc'[q] \in {"publish", "republish"} => request'[job'[q].op].arg \in Update
               /\ job'[q].policy \notin Policy => pc'[q] \in Before
    <2>1. CASE q = p
      <3>1. job'[q] = j /\ pc'[q] = "open"
        BY <1>6, <2>1 DEF TypeInv, TypeOK, ControlOK
      <3> QED BY <1>2, <1>5, <1>6, <3>1
    <2>2. CASE q # p
      <3>1. job'[q] = job[q] /\ pc'[q] = pc[q]
        BY <1>6, <2>2 DEF TypeInv, TypeOK, ControlOK
      <3> QED BY <1>6, <1>8, <3>1 DEF TypeInv, JobOK, Busy, Kindof
    <2> QED BY <2>1, <2>2
  <1>9. JobOK'
    BY <1>8 DEF JobOK, Busy, Kindof
  <1>10. FilesOK' /\ TablesOK' /\ TrailsOK'
    BY DEF Load, files, tables, trails, FilesOK, TablesOK, TrailsOK, TypeInv, TypeOK
  <1>11. ObservedOK'
    <2>1. raced' \in BOOLEAN
      BY DEF Load
    <2> QED BY <2>1 DEF Load, ObservedOK, TypeInv, TypeOK
  <1> QED BY <1>7, <1>9, <1>10, <1>11 DEF TypeInv, TypeOK

\* What a write through p's handle may leave in the two files.
LEMMA FillType ==
  ASSUME TypeInv, NEW p \in Proc, NEW docs, docs \subseteq Content \cup {Held(p)}, Fill(p, docs)
  PROVE  village' \in Content /\ staged' \in Content \cup {Absent}
  <1>1. village \in Content /\ staged \in Content \cup {Absent}
    BY DEF TypeInv, TypeOK, FilesOK
  <1>2. village' \in Content
    BY <1>1 DEF Fill, Held
  <1>3. staged' \in Content \cup {Absent}
    BY <1>1 DEF Fill, Held
  <1> QED BY <1>2, <1>3

LEMMA SaveType ==
  ASSUME TypeInv, NEW p \in Proc, Save(p)
  PROVE  TypeInv'
  <1>1. CASE OpenArtifact(p)
    <2>1. (ControlOK /\ RequestOK /\ JobOK)'
      BY <1>1, GotoType DEF OpenArtifact, Busy, Step, Window, Before
    <2>2. TrailsOK'
      BY <1>1 DEF OpenArtifact, trails, TrailsOK, TypeInv, TypeOK
    <2>3. FilesOK' /\ TablesOK' /\ ObservedOK'
      BY <1>1 DEF OpenArtifact, files, tables, observed, FilesOK, TablesOK, ObservedOK,
                  TypeInv, TypeOK
    <2> QED BY <2>1, <2>2, <2>3 DEF TypeInv, TypeOK
  <1>2. CASE WriteArtifact(p)
    <2>1. (ControlOK /\ RequestOK /\ JobOK)'
      BY <1>2, GotoType DEF WriteArtifact, Busy, Step, Window, Before
    <2>2. request[job[p].op].arg \in Update
      BY <1>2 DEF WriteArtifact, TypeInv, JobOK, Busy
    <2>3. TrailsOK'
      BY <1>2, <2>2 DEF WriteArtifact, Filed, trails, TrailsOK, TypeInv, TypeOK
    <2>4. FilesOK' /\ TablesOK' /\ ObservedOK'
      BY <1>2 DEF WriteArtifact, files, tables, observed, FilesOK, TablesOK, ObservedOK,
                  TypeInv, TypeOK
    <2> QED BY <2>1, <2>3, <2>4 DEF TypeInv, TypeOK
  <1>3. CASE Load(p)
    BY <1>3, LoadType
  <1>4. CASE LoadFails(p)
    <2>1. (ControlOK /\ RequestOK /\ JobOK)'
      BY <1>4, GotoType DEF LoadFails, Busy, Step, Window
    <2>2. FilesOK' /\ TrailsOK' /\ TablesOK' /\ ObservedOK'
      BY <1>4 DEF LoadFails, files, trails, tables, observed, FilesOK, TrailsOK, TablesOK,
                  ObservedOK, TypeInv, TypeOK
    <2> QED BY <2>1, <2>2 DEF TypeInv, TypeOK
  <1>5. CASE OpenStaged(p)
    <2>1. (ControlOK /\ RequestOK /\ JobOK)'
      BY <1>5, GotoType, InHand DEF OpenStaged, Busy, Step, Window
    <2>2. FilesOK'
      BY <1>5 DEF OpenStaged, FilesOK, Content, TypeInv, TypeOK
    <2>3. TrailsOK' /\ TablesOK' /\ ObservedOK'
      BY <1>5 DEF OpenStaged, trails, tables, observed, TrailsOK, TablesOK, ObservedOK,
                  TypeInv, TypeOK
    <2> QED BY <2>1, <2>2, <2>3 DEF TypeInv, TypeOK
  <1>6. CASE WriteStaged(p)
    <2>1. (ControlOK /\ RequestOK /\ JobOK)'
      BY <1>6, GotoType, InHand DEF WriteStaged, Busy, Step, Window
    <2>2. Overwritten(Held(p), job[p].policy) \subseteq Content
      BY <1>6, InHand DEF WriteStaged, Busy, Overwritten, Content
    <2>3. village' \in Content /\ staged' \in Content \cup {Absent}
      BY <1>6, <2>2, FillType DEF WriteStaged
    <2>4. FilesOK'
      BY <1>6, <2>3 DEF WriteStaged, FilesOK, TypeInv, TypeOK
    <2>5. TrailsOK' /\ TablesOK' /\ ObservedOK'
      BY <1>6 DEF WriteStaged, trails, tables, observed, TrailsOK, TablesOK, ObservedOK,
                  TypeInv, TypeOK
    <2> QED BY <2>1, <2>4, <2>5 DEF TypeInv, TypeOK
  <1>7. CASE ReplaceVillage(p)
    <2>1. Saved(Kindof(job[p].op)) \in {"history", "audit", "idle"}
      BY DEF Saved
    <2>2. (ControlOK /\ RequestOK /\ JobOK)'
      BY <1>7, <2>1, GotoType, InHand DEF ReplaceVillage, Busy, Step, Window
    <2>3. village \in Content /\ staged \in Content /\ job[p].op \in Nat
      BY <1>7, InHand DEF ReplaceVillage, Busy, TypeInv, TypeOK, FilesOK
    <2>4. FilesOK'
      BY <1>7, <2>3 DEF ReplaceVillage, FilesOK, TypeInv, TypeOK
    <2>5. TrailsOK' /\ TablesOK'
      BY <1>7 DEF ReplaceVillage, trails, tables, TrailsOK, TablesOK, TypeInv, TypeOK
    <2>6. installed' \in Seq([op: Nat, content: Content, over: Content])
      BY <1>7, <2>3 DEF ReplaceVillage, ObservedOK, TypeInv, TypeOK
    <2>7. ObservedOK'
      BY <1>7, <2>6 DEF ReplaceVillage, ObservedOK, TypeInv, TypeOK
    <2> QED BY <2>2, <2>4, <2>5, <2>7 DEF TypeInv, TypeOK
  <1>8. CASE ReplaceFails(p)
    <2>1. (ControlOK /\ RequestOK /\ JobOK)'
      BY <1>8, GotoType DEF ReplaceFails, Busy, Step, Window
    <2>2. FilesOK' /\ TrailsOK' /\ TablesOK' /\ ObservedOK'
      BY <1>8 DEF ReplaceFails, files, trails, tables, observed, FilesOK, TrailsOK, TablesOK,
                  ObservedOK, TypeInv, TypeOK
    <2> QED BY <2>1, <2>2 DEF TypeInv, TypeOK
  <1> QED BY <1>1, <1>2, <1>3, <1>4, <1>5, <1>6, <1>7, <1>8 DEF Save

\* A step of Record moves on to a later one of its own.
LEMMA RecordGoto ==
  ASSUME TypeInv, NEW p \in Proc, NEW at \in {"idle", "audit", "auditdb", "log", "logdb", "ledger"},
         pc[p] \notin {"idle", "publish", "republish", "load"}, Goto(p, at),
         UNCHANGED <<job, request>>
  PROVE  (ControlOK /\ RequestOK /\ JobOK)' /\ RowOf(p) \in Row /\ job[p].op \in Nat
                                            /\ job[p].policy \in Policy
  <1>1. /\ job[p].policy \in Policy /\ RowOf(p) \in Row /\ job[p].op \in Nat
    BY InHand DEF Busy
  <1>2. at \in Step
    BY DEF Step
  <1>3. (ControlOK /\ RequestOK /\ JobOK)'
    BY <1>1, <1>2, GotoType DEF Busy
  <1> QED BY <1>1, <1>3

LEMMA RecordType ==
  ASSUME TypeInv, NEW p \in Proc, Record(p)
  PROVE  TypeInv'
  <1>0. /\ history \in Seq(Row) /\ audit \in Seq(Row) /\ log \in Seq(Row)
        /\ dbHistory \in Seq(Row) /\ dbAudit \subseteq Nat /\ dbLog \subseteq Nat
    BY DEF TypeInv, TypeOK, TrailsOK, TablesOK
  <1>1. Audited(Kindof(job[p].op)) \in {"idle", "log", "ledger"}
    BY DEF Audited, Ledgered
  <1>2. ASSUME UNCHANGED <<files, observed>> PROVE FilesOK' /\ ObservedOK'
    BY <1>2 DEF files, observed, FilesOK, ObservedOK, TypeInv, TypeOK
  <1>3. CASE AppendHistory(p)
    <2>1. (ControlOK /\ RequestOK /\ JobOK)' /\ RowOf(p) \in Row
      BY <1>3, RecordGoto DEF AppendHistory
    <2>2. history' \in Seq(Row)
      BY <1>0, <1>3, <2>1 DEF AppendHistory
    <2>3. TrailsOK' /\ TablesOK'
      BY <1>3, <2>2 DEF AppendHistory, tables, TrailsOK, TablesOK, TypeInv, TypeOK
    <2>4. UNCHANGED <<files, observed>>
      BY <1>3 DEF AppendHistory
    <2> QED BY <1>2, <2>1, <2>3, <2>4 DEF TypeInv, TypeOK
  <1>4. CASE AppendAudit(p)
    <2>1. (ControlOK /\ RequestOK /\ JobOK)' /\ RowOf(p) \in Row
      BY <1>1, <1>4, RecordGoto DEF AppendAudit
    <2>2. audit' \in Seq(Row)
      BY <1>0, <1>4, <2>1 DEF AppendAudit
    <2>3. TrailsOK' /\ TablesOK'
      BY <1>4, <2>2 DEF AppendAudit, tables, TrailsOK, TablesOK, TypeInv, TypeOK
    <2>4. UNCHANGED <<files, observed>>
      BY <1>4 DEF AppendAudit
    <2> QED BY <1>2, <2>1, <2>3, <2>4 DEF TypeInv, TypeOK
  <1>5. CASE MirrorAudit(p)
    <2>1. (ControlOK /\ RequestOK /\ JobOK)' /\ job[p].op \in Nat
      BY <1>1, <1>5, RecordGoto DEF MirrorAudit
    <2>2. dbAudit' \subseteq Nat
      BY <1>0, <1>5, <2>1 DEF MirrorAudit
    <2>3. TrailsOK' /\ TablesOK'
      BY <1>5, <2>2 DEF MirrorAudit, trails, TrailsOK, TablesOK, TypeInv, TypeOK
    <2>4. UNCHANGED <<files, observed>>
      BY <1>5 DEF MirrorAudit
    <2> QED BY <1>2, <2>1, <2>3, <2>4 DEF TypeInv, TypeOK
  <1>6. CASE AppendLog(p)
    <2>1. (ControlOK /\ RequestOK /\ JobOK)' /\ RowOf(p) \in Row
      BY <1>6, RecordGoto DEF AppendLog
    <2>2. log' \in Seq(Row)
      BY <1>0, <1>6, <2>1 DEF AppendLog
    <2>3. TrailsOK' /\ TablesOK'
      BY <1>6, <2>2 DEF AppendLog, tables, TrailsOK, TablesOK, TypeInv, TypeOK
    <2>4. UNCHANGED <<files, observed>>
      BY <1>6 DEF AppendLog
    <2> QED BY <1>2, <2>1, <2>3, <2>4 DEF TypeInv, TypeOK
  <1>7. CASE MirrorLog(p)
    <2>1. (ControlOK /\ RequestOK /\ JobOK)' /\ job[p].op \in Nat
      BY <1>7, RecordGoto DEF MirrorLog
    <2>2. dbLog' \subseteq Nat
      BY <1>0, <1>7, <2>1 DEF MirrorLog
    <2>3. TrailsOK' /\ TablesOK'
      BY <1>7, <2>2 DEF MirrorLog, trails, TrailsOK, TablesOK, TypeInv, TypeOK
    <2>4. UNCHANGED <<files, observed>>
      BY <1>7 DEF MirrorLog
    <2> QED BY <1>2, <2>1, <2>3, <2>4 DEF TypeInv, TypeOK
  <1>8. CASE WriteLedger(p)
    <2>1. (ControlOK /\ RequestOK /\ JobOK)' /\ RowOf(p) \in Row /\ job[p].policy \in Policy
      BY <1>8, RecordGoto DEF WriteLedger
    <2>2. dbHistory' \in Seq(Row)
      BY <1>0, <1>8, <2>1 DEF WriteLedger
    <2>3. dbPolicy' \in Known
      BY <1>8, <2>1 DEF WriteLedger, Known
    <2>4. TrailsOK' /\ TablesOK'
      BY <1>8, <2>2, <2>3 DEF WriteLedger, trails, TrailsOK, TablesOK, TypeInv, TypeOK
    <2>5. UNCHANGED <<files, observed>>
      BY <1>8 DEF WriteLedger
    <2> QED BY <1>2, <2>1, <2>4, <2>5 DEF TypeInv, TypeOK
  <1> QED BY <1>3, <1>4, <1>5, <1>6, <1>7, <1>8 DEF Record

LEMMA FaultType ==
  ASSUME TypeInv, NEW p \in Proc, Fault(p)
  PROVE  TypeInv'
  <1>1. ASSUME Interrupt(p), Busy(p) PROVE ObservedOK' /\ TrailsOK' /\ TablesOK'
    <2>1. job[p].op \in Nat
      BY DEF TypeInv, TypeOK, ControlOK
    <2>2. interrupted' \subseteq Nat
      BY <1>1, <2>1 DEF Interrupt, TypeInv, TypeOK, ObservedOK
    <2>3. ObservedOK'
      BY <1>1, <2>2 DEF Interrupt, TypeInv, TypeOK, ObservedOK
    <2>4. TrailsOK' /\ TablesOK'
      BY <1>1 DEF Interrupt, trails, tables, TrailsOK, TablesOK, TypeInv, TypeOK
    <2> QED BY <2>3, <2>4
  <1>2. CASE RecordFails(p)
    <2>1. PICK at \in {"ledger", "idle"} : Goto(p, at)
      BY <1>2 DEF RecordFails, Ledgered
    <2>2. UNCHANGED <<job, request>> /\ Busy(p) /\ pc[p] \notin {"idle", "publish", "republish", "load"}
      BY <1>2 DEF RecordFails, Interrupt, Busy
    <2>3. (ControlOK /\ RequestOK /\ JobOK)'
      BY <2>1, <2>2, RecordGoto
    <2>4. FilesOK'
      BY <1>2 DEF RecordFails, files, FilesOK, TypeInv, TypeOK
    <2> QED BY <1>1, <1>2, <2>2, <2>3, <2>4 DEF RecordFails, TypeInv, TypeOK
  <1>3. CASE Crash(p)
    <2>1. (ControlOK /\ RequestOK /\ JobOK)'
      BY <1>3, GotoType DEF Crash, Interrupt, Step, Window
    <2>2. {Held(p), Mixed} \subseteq Content \cup {Held(p)}
      BY DEF Content
    <2>3. village' \in Content /\ staged' \in Content \cup {Absent}
      BY <1>3, <2>2, FillType DEF Crash
    <2>4. FilesOK'
      BY <1>3, <2>3 DEF Crash, FilesOK, TypeInv, TypeOK
    <2> QED BY <1>1, <1>3, <2>1, <2>4 DEF Crash, TypeInv, TypeOK
  <1> QED BY <1>2, <1>3 DEF Fault

\* A step that changes nothing keeps the types.
LEMMA StutterType == TypeInv /\ UNCHANGED vars => TypeInv'
  <1> SUFFICES ASSUME TypeInv, UNCHANGED vars PROVE TypeInv'
    OBVIOUS
  <1>1. UNCHANGED <<files, trails, tables, observed, pc, job, request, feed, receipts>>
    BY DEF vars
  <1>2. FilesOK' /\ ControlOK' /\ TrailsOK' /\ TablesOK'
    BY <1>1 DEF files, trails, tables, FilesOK, ControlOK, TrailsOK, TablesOK, TypeInv, TypeOK
  <1>3. ObservedOK'
    BY <1>1 DEF observed, ObservedOK, TypeInv, TypeOK
  <1>4. RequestOK' /\ JobOK'
    BY <1>1 DEF RequestOK, JobOK, Busy, Kindof, TypeInv
  <1> QED BY <1>2, <1>3, <1>4 DEF TypeInv, TypeOK

LEMMA TypeInvariant == Spec => []TypeInv
  <1>1. TypeInv /\ [Next]_vars => TypeInv'
    BY StartType, SaveType, RecordType, FaultType, StutterType DEF Next
  <1> QED BY InitType, <1>1, PTL DEF Spec

\* Every variable keeps its type and the markers it may hold, whatever is
\* requested, fails or dies: no handler saves or records a document that is
\* not a policy.
THEOREM TypeCorrect == Spec => []TypeOK
  <1>1. TypeInv => TypeOK
    BY DEF TypeInv
  <1> QED BY TypeInvariant, <1>1, PTL

\* Only a handler about to write holds the staging file open.  Without a race
\* at most one handler is in its window; the document is then the one it
\* loaded, and the staging file is what it has made of it so far.
HandlesOK == \A p \in Proc : pc[p] # "write" => handle[p] = "closed"

Alone == \A p, q \in Proc : pc[p] \in Window /\ pc[q] \in Window => p = q

WindowOK ==
  \A p \in Proc : pc[p] \in Window =>
    /\ job[p].base = village
    /\ Kindof(job[p].op) \in IssuerKind =>
         job[p].policy = Edited(request[job[p].op], NoPolicy, village)
    /\ pc[p] = "write" => handle[p] = "staged" /\ staged = Empty
    /\ pc[p] = "replace" => staged = job[p].policy

SaveInv == HandlesOK /\ (~raced => Readable /\ Alone /\ WindowOK)

\* A handler whose policy took force carries the row that says so.
InstalledRow(row) == \E i \in 1..Len(installed) :
                       installed[i].op = row.op /\ installed[i].content = row.policy

CarriesTruth == \A p \in Proc : pc[p] = "history" => InstalledRow(RowOf(p))

-----------------------------------------------------------------------------
(* The save *)

LEMMA InitSave == Init => SaveInv
  <1> SUFFICES ASSUME Init PROVE SaveInv
    OBVIOUS
  <1>1. HandlesOK
    BY DEF HandlesOK, Init
  <1>2. Readable
    BY ConstantsAssumption DEF Readable, Init
  <1>3. Alone /\ WindowOK
    BY DEF Alone, WindowOK, Init, Window
  <1> QED BY <1>1, <1>2, <1>3 DEF SaveInv

\* A step of p that takes it to a step outside its window, leaves the files
\* alone and does not write.
LEMMA QuietStep ==
  ASSUME TypeInv, SaveInv, NEW p \in Proc, pc[p] # "write", UNCHANGED files,
         pc'[p] \notin Window,
         raced' = raced,
         \A q \in Proc \ {p} : pc'[q] = pc[q] /\ job'[q] = job[q],
         \A op \in 1..Len(request) : request'[op] = request[op]
  PROVE  SaveInv'
  <1>1. village' = village /\ staged' = staged /\ handle' = handle
    BY DEF files
  <1>2. HandlesOK'
    BY <1>1 DEF HandlesOK, SaveInv, Window
  <1>3. ASSUME ~raced PROVE Readable' /\ Alone' /\ WindowOK'
    <2>1. Readable /\ Alone /\ WindowOK
      BY <1>3 DEF SaveInv
    <2>2. Readable'
      BY <1>1, <2>1 DEF Readable
    <2>3. Alone'
      BY <2>1 DEF Alone
    <2>4. ASSUME NEW q \in Proc, pc'[q] \in Window
          PROVE  /\ job'[q].base = village'
                 /\ request'[job'[q].op].kind \in IssuerKind =>
                      job'[q].policy = Edited(request'[job'[q].op], NoPolicy, village')
                 /\ pc'[q] = "write" => handle'[q] = "staged" /\ staged' = Empty
                 /\ pc'[q] = "replace" => staged' = job'[q].policy
      <3>1. q # p /\ pc'[q] = pc[q] /\ job'[q] = job[q]
        BY <2>4
      <3>2. job[q].op \in 1..Len(request)
        BY <2>4, <3>1 DEF TypeInv, JobOK, Busy, Window
      <3>3. request'[job[q].op] = request[job[q].op]
        BY <3>2
      <3> QED BY <1>1, <2>1, <2>4, <3>1, <3>3 DEF WindowOK, Kindof
    <2>5. WindowOK'
      BY <2>4 DEF WindowOK, Kindof
    <2> QED BY <2>2, <2>3, <2>5
  <1> QED BY <1>2, <1>3 DEF SaveInv

\* Every request starts with Begin.
LEMMA StartBegins ==
  ASSUME TypeInv, NEW p \in Proc, Start(p)
  PROVE  \E kind \in Kind, arg \in Update \cup Issuer \cup {NoArg}, seen \in Known,
            target \in Known, at \in {"publish", "load"} :
           Begin(p, kind, arg, seen, target, at)
  <1>1. \A i \in 1..Len(history) : history[i].policy \in Known
    <2>1. history \in Seq(Row)
      BY DEF TypeInv, TypeOK, TrailsOK
    <2>2. \A i \in 1..Len(history) : history[i] \in Row
      BY <2>1
    <2> QED BY <2>2 DEF Row, Known
  <1>2. NoPolicy \in Known /\ \A u \in Update : PolicyOf[u] \in Known
    BY PolicyOfType DEF Known
  <1>3. CASE \E u \in Update : Post(p, u)
    BY <1>2, <1>3 DEF Post, Readable, Kind, ApplyKind, Known
  <1>4. CASE \E u \in Update : Pull(p, u)
    BY <1>2, <1>4 DEF Pull, Readable, Kind, ApplyKind, Known
  <1>5. CASE \E u \in Update : Compiled(p, u)
    BY <1>2, <1>5 DEF Compiled, Kind, ApplyKind
  <1>6. CASE \E u \in Update : Import(p, u)
    BY <1>2, <1>6 DEF Import, Kind
  <1>7. CASE \E i \in Issuer : AllowIssuer(p, i)
    BY <1>2, <1>7 DEF AllowIssuer, Kind, IssuerKind
  <1>8. CASE \E i \in Issuer : BlockIssuer(p, i)
    BY <1>2, <1>8 DEF BlockIssuer, Kind, IssuerKind
  <1>9. CASE Rollback(p)
    BY <1>1, <1>2, <1>9 DEF Rollback, Kind, ApplyKind
  <1> QED BY <1>3, <1>4, <1>5, <1>6, <1>7, <1>8, <1>9 DEF Start

LEMMA StartSave ==
  ASSUME TypeInv, SaveInv, NEW p \in Proc, Start(p)
  PROVE  SaveInv'
  <1>1. PICK kind \in Kind, arg \in Update \cup Issuer \cup {NoArg}, seen \in Known,
             target \in Known, at \in {"publish", "load"} :
               Begin(p, kind, arg, seen, target, at)
    BY StartBegins
  <1>2. /\ pc[p] = "idle" /\ UNCHANGED files /\ raced' = raced
        /\ pc' = [pc EXCEPT ![p] = at]
    BY <1>1 DEF Begin
  <1>3. pc'[p] = at /\ \A q \in Proc \ {p} : pc'[q] = pc[q] /\ job'[q] = job[q]
    BY <1>1, <1>2 DEF Begin, TypeInv, TypeOK, ControlOK
  <1>4. \A op \in 1..Len(request) : request'[op] = request[op]
    BY <1>1 DEF Begin, TypeInv, TypeOK, ControlOK
  <1> QED BY <1>2, <1>3, <1>4, QuietStep DEF Window

\* A step of p's handler that leaves the job, the files and its window alone.
LEMMA GotoQuiet ==
  ASSUME TypeInv, SaveInv, NEW p \in Proc, pc[p] # "write", NEW at, at \notin Window,
         Goto(p, at), UNCHANGED <<files, job, request, raced>>
  PROVE  SaveInv'
  <1>1. pc'[p] = at /\ \A q \in Proc \ {p} : pc'[q] = pc[q]
    BY DEF Goto, TypeInv, TypeOK, ControlOK
  <1> QED BY <1>1, QuietStep

LEMMA RecordSave ==
  ASSUME TypeInv, SaveInv, NEW p \in Proc, Record(p)
  PROVE  SaveInv'
  <1>1. Audited(Kindof(job[p].op)) \in {"idle", "log", "ledger"}
    BY DEF Audited, Ledgered
  <1>2. PICK at \in {"idle", "audit", "auditdb", "log", "logdb", "ledger"} : Goto(p, at)
    BY <1>1 DEF Record, AppendHistory, AppendAudit, MirrorAudit, AppendLog, MirrorLog, WriteLedger
  <1>3. pc[p] # "write" /\ UNCHANGED <<files, job, request, raced>>
    BY DEF Record, AppendHistory, AppendAudit, MirrorAudit, AppendLog, MirrorLog, WriteLedger,
           observed
  <1> QED BY <1>2, <1>3, GotoQuiet DEF Window

LEMMA LoadSave ==
  ASSUME TypeInv, SaveInv, NEW p \in Proc, Load(p)
  PROVE  SaveInv'
  <1> DEFINE op == job[p].op
             j == [op |-> op, base |-> village,
                   policy |-> Edited(request[op], job[p].policy, village)]
  <1>1. /\ pc'[p] = "open" /\ job'[p] = j /\ pc[p] = "load"
        /\ \A q \in Proc \ {p} : pc'[q] = pc[q] /\ job'[q] = job[q]
    BY DEF Load, Goto, TypeInv, TypeOK, ControlOK
  <1>2. UNCHANGED <<village, staged, handle, request>>
    BY DEF Load, files
  <1>3. HandlesOK'
    BY <1>1, <1>2 DEF HandlesOK, SaveInv
  <1>4. ASSUME ~raced' PROVE Readable' /\ Alone' /\ WindowOK'
    <2>1. ~raced /\ \A q \in Proc \ {p} : pc[q] \notin Window
      BY <1>4 DEF Load
    <2>2. Readable'
      BY <1>2 DEF Load, Readable
    <2>3. Alone'
      BY <1>1, <2>1 DEF Alone
    <2>4. ASSUME NEW q \in Proc, pc'[q] \in Window
          PROVE  /\ job'[q].base = village'
                 /\ request'[job'[q].op].kind \in IssuerKind =>
                      job'[q].policy = Edited(request'[job'[q].op], NoPolicy, village')
                 /\ pc'[q] = "write" => handle'[q] = "staged" /\ staged' = Empty
                 /\ pc'[q] = "replace" => staged' = job'[q].policy
      <3>1. q = p
        BY <1>1, <2>1, <2>4
      <3>2. request[op].kind \in IssuerKind =>
              Edited(request[op], job[p].policy, village) = Edited(request[op], NoPolicy, village)
        BY DEF Edited, IssuerKind
      <3> QED BY <1>1, <1>2, <3>1, <3>2
    <2>5. WindowOK'
      BY <2>4 DEF WindowOK, Kindof
    <2> QED BY <2>2, <2>3, <2>5
  <1> QED BY <1>3, <1>4 DEF SaveInv

\* Without a race the other handlers are outside their windows while p is in it.
LEMMA OthersOutside ==
  ASSUME SaveInv, ~raced, NEW p \in Proc, pc[p] \in Window, NEW q \in Proc, q # p
  PROVE  pc[q] \notin Window
  BY DEF SaveInv, Alone

LEMMA StagedSave ==
  ASSUME TypeInv, SaveInv, NEW p \in Proc, OpenStaged(p) \/ WriteStaged(p)
  PROVE  SaveInv'
  <1>1. /\ pc[p] \in {"open", "write"} /\ pc'[p] \in {"write", "replace"}
        /\ pc[p] = "write" => pc'[p] = "replace"
        /\ \A q \in Proc \ {p} : pc'[q] = pc[q] /\ handle'[q] = handle[q]
        /\ pc'[p] # "write" => handle'[p] = "closed"
        /\ UNCHANGED <<job, request, raced>>
    BY DEF OpenStaged, WriteStaged, Goto, observed, TypeInv, TypeOK, ControlOK, FilesOK
  <1>2. HandlesOK'
    BY <1>1 DEF HandlesOK, SaveInv
  <1>3. ASSUME ~raced PROVE Readable' /\ Alone' /\ WindowOK'
    <2>1. Readable /\ Alone /\ WindowOK /\ pc[p] \in Window
      BY <1>1, <1>3 DEF SaveInv, Window
    <2>2. \A q \in Proc \ {p} : pc'[q] \notin Window
      BY <1>1, <1>3, <2>1, OthersOutside
    <2>3. /\ village' = village
          /\ pc'[p] = "write" => handle'[p] = "staged" /\ staged' = Empty
          /\ pc'[p] = "replace" => staged' = job'[p].policy
      <3>1. CASE OpenStaged(p)
        BY <3>1 DEF OpenStaged, Goto, TypeInv, TypeOK, ControlOK, FilesOK
      <3>2. CASE WriteStaged(p)
        <4>1. handle[p] = "staged" /\ staged = Empty /\ pc'[p] = "replace"
          BY <1>1, <2>1, <3>2 DEF WriteStaged, WindowOK
        <4>2. Overwritten(Held(p), job[p].policy) = {job[p].policy}
          BY <4>1 DEF Overwritten, Held
        <4> QED BY <1>1, <3>2, <4>1, <4>2 DEF WriteStaged, Fill
      <3> QED BY <3>1, <3>2
    <2>4. Readable' /\ Alone'
      BY <2>1, <2>2, <2>3 DEF Readable, Alone
    <2>5. WindowOK'
      BY <1>1, <2>1, <2>2, <2>3 DEF WindowOK, Kindof
    <2> QED BY <2>4, <2>5
  <1> QED BY <1>1, <1>2, <1>3 DEF SaveInv

LEMMA ReplaceSave ==
  ASSUME TypeInv, SaveInv, NEW p \in Proc, ReplaceVillage(p)
  PROVE  SaveInv'
  <1>1. Saved(Kindof(job[p].op)) \in {"history", "audit", "idle"}
    BY DEF Saved
  <1>2. /\ pc[p] = "replace" /\ pc'[p] \notin Window
        /\ \A q \in Proc \ {p} : pc'[q] = pc[q]
        /\ UNCHANGED raced
    BY <1>1 DEF ReplaceVillage, Goto, TypeInv, TypeOK, ControlOK, Window
  <1>3. \A q \in Proc : handle[q] = "closed" => handle'[q] = "closed"
    BY DEF ReplaceVillage
  <1>4. HandlesOK'
    BY <1>2, <1>3 DEF HandlesOK, SaveInv, Window
  <1>5. ASSUME ~raced PROVE Readable' /\ Alone' /\ WindowOK'
    <2>1. \A q \in Proc : pc'[q] \notin Window
      BY <1>2, <1>5, OthersOutside DEF Window
    <2>2. staged = job[p].policy
      BY <1>2, <1>5 DEF SaveInv, WindowOK, Window
    <2>3. job[p].policy \in Policy
      BY <1>2, InHand DEF Busy
    <2>4. Readable'
      BY <2>2, <2>3 DEF ReplaceVillage, Readable
    <2> QED BY <2>1, <2>4 DEF Alone, WindowOK
  <1> QED BY <1>2, <1>4, <1>5 DEF SaveInv

LEMMA SaveSave ==
  ASSUME TypeInv, SaveInv, NEW p \in Proc, Save(p)
  PROVE  SaveInv'
  <1>1. CASE OpenArtifact(p)
    BY <1>1, GotoQuiet DEF OpenArtifact, observed, Window
  <1>2. CASE WriteArtifact(p)
    BY <1>2, GotoQuiet DEF WriteArtifact, observed, Window
  <1>3. CASE LoadFails(p)
    BY <1>3, GotoQuiet DEF LoadFails, observed, Window
  <1>4. CASE ReplaceFails(p)
    BY <1>4, GotoQuiet DEF ReplaceFails, observed, Window
  <1> QED BY <1>1, <1>2, <1>3, <1>4, LoadSave, StagedSave, ReplaceSave DEF Save

LEMMA FaultSave ==
  ASSUME TypeInv, SaveInv, NEW p \in Proc, Fault(p)
  PROVE  SaveInv'
  <1>1. CASE RecordFails(p)
    <2>1. PICK at \in {"ledger", "idle"} : Goto(p, at)
      BY <1>1 DEF RecordFails, Ledgered
    <2> QED BY <1>1, <2>1, GotoQuiet DEF RecordFails, Interrupt, Window
  <1>2. CASE Crash(p)
    <2>1. /\ pc'[p] = "idle" /\ \A q \in Proc \ {p} : pc'[q] = pc[q] /\ handle'[q] = handle[q]
          /\ handle'[p] = "closed"
          /\ UNCHANGED <<job, request, raced>>
      BY <1>2 DEF Crash, Goto, Interrupt, TypeInv, TypeOK, ControlOK, FilesOK
    <2>2. HandlesOK'
      BY <2>1 DEF HandlesOK, SaveInv
    <2>3. ASSUME ~raced PROVE Readable' /\ Alone' /\ WindowOK'
      <3>1. Readable /\ Alone /\ WindowOK
        BY <2>3 DEF SaveInv
      <3>2. village' = village
        BY <1>2, <3>1 DEF Crash, Fill, WindowOK, SaveInv, HandlesOK, Window
      <3>3. (\E q \in Proc \ {p} : pc[q] \in Window) => staged' = staged
        <4>1. SUFFICES ASSUME NEW q \in Proc \ {p}, pc[q] \in Window PROVE staged' = staged
          OBVIOUS
        <4>2. pc[p] # "write"
          BY <3>1, <4>1 DEF Alone, Window
        <4>3. handle[p] = "closed"
          BY <4>2 DEF SaveInv, HandlesOK
        <4> QED BY <1>2, <4>3 DEF Crash, Fill
      <3>4. Readable' /\ Alone'
        BY <2>1, <3>1, <3>2 DEF Readable, Alone, Window
      <3>5. \A q \in Proc : pc'[q] \in Window => q # p /\ pc[q] \in Window
        BY <2>1 DEF Window
      <3>6. WindowOK'
        BY <2>1, <3>1, <3>2, <3>3, <3>5 DEF WindowOK, Kindof
      <3> QED BY <3>4, <3>6
    <2> QED BY <2>1, <2>2, <2>3 DEF SaveInv
  <1> QED BY <1>1, <1>2 DEF Fault

LEMMA StutterSave == SaveInv /\ UNCHANGED vars => SaveInv'
  BY DEF vars, files, observed, SaveInv, HandlesOK, Readable, Alone, WindowOK, Kindof

LEMMA SaveInvariant == Spec => []SaveInv
  <1>1. TypeInv /\ SaveInv /\ [Next]_vars => SaveInv'
    BY StartSave, SaveSave, RecordSave, FaultSave, StutterSave DEF Next
  <1> QED BY InitSave, <1>1, TypeInvariant, PTL DEF Spec

\* As long as no two load-to-save windows overlap, village.json parses at every
\* moment, whatever step a handler dies at (save_village stages and renames).
THEOREM AlwaysReadable == Spec => []ReadableUnlessRaced
  <1>1. SaveInv => ReadableUnlessRaced
    BY DEF SaveInv, ReadableUnlessRaced
  <1> QED BY SaveInvariant, <1>1, PTL

-----------------------------------------------------------------------------
(* The trails *)

\* Requests, installations and marks of a fault are only ever added to.
LEMMA Grows ==
  ASSUME TypeInv, [Next]_vars
  PROVE  /\ raced => raced'
         /\ \A op \in 1..Len(request) : op \in 1..Len(request') /\ request'[op] = request[op]
         /\ \A i \in 1..Len(installed) : i \in 1..Len(installed')
                                        /\ installed'[i] = installed[i]
         /\ interrupted \subseteq interrupted'
  <1> DEFINE Kept == UNCHANGED <<raced, request, installed, interrupted>>
  <1>1. request \in Seq(Request)
    BY DEF TypeInv, TypeOK, ControlOK
  <1>2. installed \in Seq([op: Nat, content: Content, over: Content])
    BY DEF TypeInv, TypeOK, ObservedOK
  <1>3. CASE Kept
    BY <1>3
  <1>4. CASE UNCHANGED vars
    BY <1>3, <1>4 DEF vars, observed
  <1>5. CASE \E p \in Proc : Start(p)
    <2>1. PICK p \in Proc : Start(p)
      BY <1>5
    <2>2. PICK kind \in Kind, arg \in Update \cup Issuer \cup {NoArg}, seen \in Known,
               target \in Known, at \in {"publish", "load"} :
                 Begin(p, kind, arg, seen, target, at)
      BY <2>1, StartBegins
    <2> QED BY <1>1, <2>2 DEF Begin
  <1>6. CASE \E p \in Proc : Load(p)
    BY <1>6 DEF Load
  <1>7. CASE \E p \in Proc : ReplaceVillage(p)
    <2>1. PICK p \in Proc : ReplaceVillage(p)
      BY <1>7
    <2> DEFINE row == [op |-> job[p].op, content |-> staged, over |-> village]
    <2>2. installed' = Append(installed, row) /\ UNCHANGED <<raced, request, interrupted>>
      BY <2>1 DEF ReplaceVillage
    <2> HIDE DEF row
    <2> QED BY <1>2, <2>2
  <1>8. CASE \E p \in Proc : Save(p) /\ ~Load(p) /\ ~ReplaceVillage(p)
    BY <1>3, <1>8 DEF Save, OpenArtifact, WriteArtifact, LoadFails, OpenStaged, WriteStaged,
                      ReplaceFails, observed
  <1>9. CASE \E p \in Proc : Record(p)
    BY <1>3, <1>9 DEF Record, AppendHistory, AppendAudit, MirrorAudit, AppendLog, MirrorLog,
                      WriteLedger, observed
  <1>10. CASE \E p \in Proc : Fault(p)
    BY <1>10 DEF Fault, RecordFails, Crash, Interrupt
  <1> QED BY <1>4, <1>5, <1>6, <1>7, <1>8, <1>9, <1>10 DEF Next

\* Only these steps add a request, a receipt, an installation or a history row.
LEMMA Unmoved ==
  ASSUME TypeInv, [Next]_vars
  PROVE  /\ (\A p \in Proc : ~Start(p)) => UNCHANGED <<request, receipts>>
         /\ (\A p \in Proc : ~ReplaceVillage(p)) => UNCHANGED installed
         /\ (\A p \in Proc : ~AppendHistory(p)) => UNCHANGED history
  <1>1. CASE UNCHANGED vars
    BY <1>1 DEF vars, trails, observed
  <1>2. ASSUME NEW p \in Proc, Start(p) PROVE UNCHANGED <<installed, history>>
    <2>1. PICK kind \in Kind, arg \in Update \cup Issuer \cup {NoArg}, seen \in Known,
               target \in Known, at \in {"publish", "load"} :
                 Begin(p, kind, arg, seen, target, at)
      BY <1>2, StartBegins
    <2> QED BY <2>1 DEF Begin, trails
  <1>3. ASSUME NEW p \in Proc, Save(p) \/ Record(p) \/ Fault(p)
        PROVE  /\ UNCHANGED <<request, receipts>>
               /\ ~ReplaceVillage(p) => UNCHANGED installed
               /\ ~AppendHistory(p) => UNCHANGED history
    <2>1. CASE Save(p)
      BY <2>1 DEF Save, OpenArtifact, WriteArtifact, Load, LoadFails, OpenStaged, WriteStaged,
                  ReplaceVillage, ReplaceFails, trails, observed
    <2>2. CASE Record(p)
      BY <2>2 DEF Record, AppendHistory, AppendAudit, MirrorAudit, AppendLog, MirrorLog,
                  WriteLedger, trails, observed, ReplaceVillage
    <2>3. CASE Fault(p)
      BY <2>3 DEF Fault, RecordFails, Crash, Interrupt, trails
    <2> QED BY <1>3, <2>1, <2>2, <2>3
  <1>4. CASE Next
    BY <1>2, <1>3, <1>4 DEF Next
  <1> QED BY <1>1, <1>4

\* A step of one process leaves the others where they are.
LEMMA Locality ==
  ASSUME TypeInv, NEW p \in Proc, Start(p) \/ Save(p) \/ Record(p) \/ Fault(p),
         NEW q \in Proc, q # p
  PROVE  pc'[q] = pc[q] /\ job'[q] = job[q]
  <1>1. pc \in [Proc -> Step] /\ job \in [Proc -> [op: Nat, policy: Known, base: Known]]
    BY DEF TypeInv, TypeOK, ControlOK
  <1>2. CASE Start(p)
    <2>1. PICK kind \in Kind, arg \in Update \cup Issuer \cup {NoArg}, seen \in Known,
               target \in Known, at \in {"publish", "load"} :
                 Begin(p, kind, arg, seen, target, at)
      BY <1>2, StartBegins
    <2> QED BY <1>1, <2>1 DEF Begin
  <1>3. CASE Save(p)
    BY <1>1, <1>3 DEF Save, OpenArtifact, WriteArtifact, Load, LoadFails, OpenStaged, WriteStaged,
                ReplaceVillage, ReplaceFails, Goto
  <1>4. CASE Record(p)
    BY <1>1, <1>4 DEF Record, AppendHistory, AppendAudit, MirrorAudit, AppendLog, MirrorLog,
                WriteLedger, Goto
  <1>5. CASE Fault(p)
    BY <1>1, <1>5 DEF Fault, RecordFails, Crash, Interrupt, Goto
  <1> QED BY <1>2, <1>3, <1>4, <1>5

\* A handler is about to record its policy only after its own save.
LEMMA HistoryAfterSave ==
  ASSUME TypeInv, [Next]_vars, NEW q \in Proc, pc'[q] = "history"
  PROVE  ReplaceVillage(q) \/ (pc[q] = "history" /\ job'[q] = job[q])
  <1>0. pc \in [Proc -> Step]
    BY DEF TypeInv, TypeOK, ControlOK
  <1>1. CASE UNCHANGED vars
    BY <1>1 DEF vars
  <1>2. CASE \E p \in Proc \ {q} : Start(p) \/ Save(p) \/ Record(p) \/ Fault(p)
    BY <1>2, Locality
  <1>3. CASE Start(q)
    <2>1. PICK kind \in Kind, arg \in Update \cup Issuer \cup {NoArg}, seen \in Known,
               target \in Known, at \in {"publish", "load"} :
                 Begin(q, kind, arg, seen, target, at)
      BY <1>3, StartBegins
    <2> QED BY <1>0, <2>1 DEF Begin
  <1>4. CASE Save(q)
    BY <1>0, <1>4 DEF Save, OpenArtifact, WriteArtifact, Load, LoadFails, OpenStaged, WriteStaged,
                ReplaceFails, Goto
  <1>5. CASE Record(q)
    <2>1. Audited(Kindof(job[q].op)) \in {"idle", "log", "ledger"}
      BY DEF Audited, Ledgered
    <2> QED BY <1>0, <1>5, <2>1 DEF Record, AppendHistory, AppendAudit, MirrorAudit, AppendLog,
                MirrorLog, WriteLedger, Goto
  <1>6. CASE Fault(q)
    BY <1>0, <1>6 DEF Fault, RecordFails, Ledgered, Crash, Goto
  <1> QED BY <1>1, <1>2, <1>3, <1>4, <1>5, <1>6 DEF Next

\* The installation that a save adds.
LEMMA Installs ==
  ASSUME TypeInv, NEW p \in Proc, ReplaceVillage(p)
  PROVE  \E i \in 1..Len(installed') :
           /\ installed'[i].op = job[p].op
           /\ installed'[i].content = staged
           /\ installed'[i].over = village
           /\ \A k \in 1..Len(installed') : k # i => k \in 1..Len(installed)
  <1> DEFINE row == [op |-> job[p].op, content |-> staged, over |-> village]
             i == Len(installed) + 1
  <1>1. /\ installed \in Seq([op: Nat, content: Content, over: Content])
        /\ installed' = Append(installed, row)
    BY DEF ReplaceVillage, TypeInv, TypeOK, ObservedOK
  <1>2. row.op = job[p].op /\ row.content = staged /\ row.over = village
    OBVIOUS
  <1> HIDE DEF row
  <1>3. /\ i \in 1..Len(installed') /\ installed'[i] = row
        /\ \A k \in 1..Len(installed') : k # i => k \in 1..Len(installed)
    BY <1>1
  <1> QED BY <1>2, <1>3

LEMMA TruthStep ==
  ASSUME TypeInv, SaveInv, HistoryTruthful, ~raced => CarriesTruth, [Next]_vars
  PROVE  HistoryTruthful' /\ (~raced' => CarriesTruth')
  <1>1. SUFFICES ASSUME ~raced' PROVE HistoryTruthful' /\ CarriesTruth'
    BY DEF HistoryTruthful
  <1>2. ~raced
    BY <1>1, Grows
  <1>3. ASSUME NEW row, InstalledRow(row)
        PROVE  \E i \in 1..Len(installed') :
                 installed'[i].op = row.op /\ installed'[i].content = row.policy
    BY <1>3, Grows DEF InstalledRow
  <1>4. CarriesTruth'
    <2>1. SUFFICES ASSUME NEW q \in Proc, pc'[q] = "history"
                   PROVE  \E i \in 1..Len(installed') :
                            /\ installed'[i].op = job'[q].op
                            /\ installed'[i].content = job'[q].policy
      BY DEF CarriesTruth, InstalledRow, RowOf
    <2>2. CASE ReplaceVillage(q)
      <3>1. staged = job[q].policy
        BY <1>2, <2>2 DEF ReplaceVillage, SaveInv, WindowOK, Window
      <3>2. job' = job
        BY <2>2 DEF ReplaceVillage
      <3> QED BY <2>2, <3>1, <3>2, Installs
    <2>3. CASE pc[q] = "history" /\ job'[q] = job[q]
      <3>1. InstalledRow(RowOf(q))
        BY <1>2, <2>3 DEF CarriesTruth
      <3> QED BY <1>3, <2>3, <3>1 DEF RowOf
    <2> QED BY <2>1, <2>2, <2>3, HistoryAfterSave
  <1>5. HistoryTruthful'
    <2>1. SUFFICES ASSUME NEW k \in 1..Len(history')
                   PROVE  \E i \in 1..Len(installed') :
                            /\ installed'[i].op = history'[k].op
                            /\ installed'[i].content = history'[k].policy
      BY DEF HistoryTruthful, Rows
    <2>2. \A row \in Rows(history) : InstalledRow(row)
      BY <1>2 DEF HistoryTruthful, InstalledRow
    <2>3. CASE k \in 1..Len(history) /\ history'[k] = history[k]
      BY <1>3, <2>2, <2>3 DEF Rows
    <2>4. CASE \E p \in Proc : AppendHistory(p) /\ history'[k] = RowOf(p)
      BY <1>2, <1>3, <2>4 DEF AppendHistory, CarriesTruth
    <2>5. CASE UNCHANGED history
      BY <2>3, <2>5
    <2>6. ASSUME NEW p \in Proc, AppendHistory(p)
          PROVE  (k \in 1..Len(history) /\ history'[k] = history[k]) \/ history'[k] = RowOf(p)
      <3>1. history \in Seq(Row) /\ history' = Append(history, RowOf(p))
        BY <2>6 DEF AppendHistory, TypeInv, TypeOK, TrailsOK
      <3> QED BY <3>1
    <2> QED BY <2>3, <2>4, <2>5, <2>6, Unmoved
  <1> QED BY <1>4, <1>5

\* What is installed was asked for by a request that was made.
OpsOK == \A i \in 1..Len(installed) : installed[i].op \in 1..Len(request)

LEMMA EditStep ==
  ASSUME TypeInv, SaveInv, OpsOK, EditKeepsTheRest, [Next]_vars
  PROVE  OpsOK' /\ EditKeepsTheRest'
  <1>1. ASSUME NEW k \in 1..Len(installed'),
               ~ (k \in 1..Len(installed) /\ installed'[k] = installed[k])
        PROVE  \E p \in Proc : /\ ReplaceVillage(p)
                               /\ installed'[k].op = job[p].op
                               /\ installed'[k].content = staged
                               /\ installed'[k].over = village
    <2>1. PICK p \in Proc : ReplaceVillage(p)
      BY <1>1, Unmoved
    <2>2. PICK i \in 1..Len(installed') :
            /\ installed'[i].op = job[p].op
            /\ installed'[i].content = staged
            /\ installed'[i].over = village
            /\ \A n \in 1..Len(installed') : n # i => n \in 1..Len(installed)
      BY <2>1, Installs
    <2>3. k = i
      BY <1>1, <2>2, Grows
    <2> QED BY <2>1, <2>2, <2>3
  <1>2. OpsOK'
    <2>1. SUFFICES ASSUME NEW k \in 1..Len(installed') PROVE installed'[k].op \in 1..Len(request')
      BY DEF OpsOK
    <2>2. CASE k \in 1..Len(installed) /\ installed'[k] = installed[k]
      BY <2>2, Grows DEF OpsOK
    <2>3. CASE ~ (k \in 1..Len(installed) /\ installed'[k] = installed[k])
      <3>1. PICK p \in Proc : ReplaceVillage(p) /\ installed'[k].op = job[p].op
        BY <1>1, <2>3
      <3>2. job[p].op \in 1..Len(request)
        BY <3>1, InHand DEF ReplaceVillage, Busy
      <3> QED BY <3>1, <3>2, Grows
    <2> QED BY <2>2, <2>3
  <1>3. SUFFICES ASSUME ~raced', NEW k \in 1..Len(installed'),
                        request'[installed'[k].op].kind \in IssuerKind
                 PROVE  installed'[k].content =
                          Edited(request'[installed'[k].op], NoPolicy, installed'[k].over)
    BY <1>2 DEF EditKeepsTheRest
  <1>4. ~raced
    BY <1>3, Grows
  <1>5. CASE k \in 1..Len(installed) /\ installed'[k] = installed[k]
    <2>1. request'[installed[k].op] = request[installed[k].op]
      BY <1>5, Grows DEF OpsOK
    <2> QED BY <1>3, <1>4, <1>5, <2>1 DEF EditKeepsTheRest
  <1>6. CASE ~ (k \in 1..Len(installed) /\ installed'[k] = installed[k])
    <2>1. PICK p \in Proc : /\ ReplaceVillage(p)
                            /\ installed'[k].op = job[p].op
                            /\ installed'[k].content = staged
                            /\ installed'[k].over = village
      BY <1>1, <1>6
    <2>2. pc[p] = "replace" /\ request' = request
      BY <2>1 DEF ReplaceVillage
    <2>3. /\ staged = job[p].policy
          /\ request[job[p].op].kind \in IssuerKind =>
               job[p].policy = Edited(request[job[p].op], NoPolicy, village)
      BY <1>4, <2>2 DEF SaveInv, WindowOK, Window, Kindof
    <2> QED BY <1>3, <2>1, <2>2, <2>3
  <1> QED BY <1>5, <1>6

TruthfulInv == /\ HistoryTruthful /\ (~raced => CarriesTruth)
               /\ OpsOK /\ EditKeepsTheRest

LEMMA InitTruth == Init => TruthfulInv
  <1> SUFFICES ASSUME Init PROVE TruthfulInv
    OBVIOUS
  <1>1. 1..Len(history) = {} /\ 1..Len(installed) = {} /\ 1..Len(request) = {}
    BY DEF Init
  <1>2. HistoryTruthful
    BY <1>1 DEF HistoryTruthful, Rows
  <1>3. CarriesTruth
    BY DEF CarriesTruth, Init
  <1>4. OpsOK /\ EditKeepsTheRest
    BY <1>1, Zenon DEF OpsOK, EditKeepsTheRest
  <1> QED BY <1>2, <1>3, <1>4 DEF TruthfulInv

LEMMA TruthInvariant == Spec => []TruthfulInv
  <1>1. TypeInv /\ SaveInv /\ TruthfulInv /\ [Next]_vars => TruthfulInv'
    BY TruthStep, EditStep DEF TruthfulInv
  <1> QED BY InitTruth, <1>1, TypeInvariant, SaveInvariant, PTL DEF Spec

\* Every row of policy_history.jsonl names a policy that its own request
\* installed: the append after save_village never records what did not happen.
THEOREM HistoryIsTrue == Spec => []HistoryTruthful
  <1>1. TruthfulInv => HistoryTruthful
    BY DEF TruthfulInv
  <1> QED BY TruthInvariant, <1>1, PTL

\* issuer allow and issuer block change their one entry of the document they
\* replace and keep the rest of it.
THEOREM EditLosesNothing == Spec => []EditKeepsTheRest
  <1>1. TruthfulInv => EditKeepsTheRest
    BY DEF TruthfulInv
  <1> QED BY TruthInvariant, <1>1, PTL

Actor(p) == Start(p) \/ Save(p) \/ Record(p) \/ Fault(p)

Recording == {"audit", "auditdb", "log", "logdb", "ledger"}

-----------------------------------------------------------------------------
(* Steps *)

LEMMA RowsAppend ==
  ASSUME NEW rows \in Seq(Row), NEW row \in Row
  PROVE  /\ Append(rows, row) \in Seq(Row)
         /\ Len(Append(rows, row)) = Len(rows) + 1
         /\ Rows(Append(rows, row)) = Rows(rows) \cup {row}
         /\ Ops(Append(rows, row)) = Ops(rows) \cup {row.op}
         /\ Last(Append(rows, row)) = row
         /\ Append(rows, row) # <<>>
  <1> DEFINE new == Append(rows, row)
  <1>1. /\ new \in Seq(Row) /\ Len(new) = Len(rows) + 1 /\ Len(rows) \in Nat
        /\ new[Len(rows) + 1] = row
        /\ \A i \in 1..Len(rows) : new[i] = rows[i]
    OBVIOUS
  <1>2. 1..Len(new) = (1..Len(rows)) \cup {Len(rows) + 1}
    BY <1>1
  <1>3. new # <<>>
    BY <1>1
  <1> HIDE DEF new
  <1>4. Rows(new) = Rows(rows) \cup {row}
    BY <1>1, <1>2 DEF Rows
  <1>5. Ops(new) = Ops(rows) \cup {row.op}
    BY <1>1, <1>2 DEF Ops
  <1>6. Last(new) = row
    BY <1>1 DEF Last
  <1> QED BY <1>1, <1>3, <1>4, <1>5, <1>6 DEF new

\* A step of p leaves the other processes and their requests alone.
LEMMA OthersStay ==
  ASSUME TypeInv, NEW p \in Proc, Actor(p), NEW q \in Proc, q # p
  PROVE  /\ pc'[q] = pc[q] /\ job'[q] = job[q]
         /\ Busy(q) => request'[job[q].op] = request[job[q].op]
  <1>1. pc'[q] = pc[q] /\ job'[q] = job[q]
    BY Locality DEF Actor
  <1>2. Busy(q) => job[q].op \in 1..Len(request)
    BY DEF TypeInv, JobOK
  <1>3. Next
    BY DEF Next, Actor
  <1> QED BY <1>1, <1>2, <1>3, Grows

\* The start of a request by p, whatever its kind.
Begins(p) ==
  /\ pc[p] = "idle" /\ job'[p].op = Len(request) + 1
  /\ Len(request) \in Nat /\ Len(request') = Len(request) + 1
  /\ \A op \in 1..Len(request) : request'[op] = request[op]
  /\ overlapped' = (overlapped \/ \E q \in Proc \ {p} : Busy(q))
  /\ UNCHANGED <<files, feed, trails, tables, installed, interrupted, raced>>

\* What p was checked under, and what it is to install, by the kind of request.
BeginsAs(p, r) ==
  /\ pc'[p] \in {"publish", "load"}
  /\ r.kind = "post" <=> pc'[p] = "publish"
  /\ r.kind \in {"post", "pull"} /\ Readable =>
       r.seen = village /\ \E u \in Accepts[village.body] : job'[p].policy = PolicyOf[u]
  /\ r.kind \in {"compiled", "import"} => r.arg \in Update /\ job'[p].policy = PolicyOf[r.arg]
  /\ r.kind = "rollback" => \E i \in 1..Len(history) : job'[p].policy = history[i].policy
  /\ receipts' = receipts \/ (r.kind = "import" /\ receipts' = receipts \cup {Len(request) + 1})

LEMMA Begun ==
  ASSUME TypeInv, NEW p \in Proc, NEW kind, NEW arg, NEW seen, NEW target, NEW at,
         Begin(p, kind, arg, seen, target, at)
  PROVE  /\ Begins(p)
         /\ pc'[p] = at /\ job'[p].policy = target
         /\ request'[Len(request) + 1].kind = kind
         /\ request'[Len(request) + 1].arg = arg
         /\ request'[Len(request) + 1].seen = seen
  <1> DEFINE r == [kind |-> kind, arg |-> arg, seen |-> seen]
  <1>1. request' = Append(request, r) /\ request \in Seq(Request)
    BY DEF Begin, TypeInv, TypeOK, ControlOK
  <1>2. /\ Len(request) \in Nat /\ Len(request') = Len(request) + 1
        /\ request'[Len(request) + 1] = r
        /\ \A op \in 1..Len(request) : request'[op] = request[op]
    <2> HIDE DEF r
    <2> QED BY <1>1
  <1>3. pc'[p] = at /\ job'[p] = [op |-> Len(request) + 1, policy |-> target, base |-> NoPolicy]
    BY DEF Begin, TypeInv, TypeOK, ControlOK
  <1>4. /\ overlapped' = (overlapped \/ \E q \in Proc \ {p} : Busy(q))
        /\ UNCHANGED <<files, feed, trails, tables, installed, interrupted, raced>>
        /\ pc[p] = "idle"
    BY DEF Begin
  <1>5. Begins(p)
    BY <1>2, <1>3, <1>4 DEF Begins
  <1> QED BY <1>2, <1>3, <1>5

LEMMA Started ==
  ASSUME TypeInv, NEW p \in Proc, Start(p)
  PROVE  Begins(p) /\ BeginsAs(p, request'[Len(request) + 1])
  <1>1. CASE \E u \in Update : Post(p, u)
    <2>1. PICK u \in Update : /\ Begin(p, "post", u, village, PolicyOf[u], "publish")
                              /\ Readable /\ u \in Accepts[village.body] /\ UNCHANGED receipts
      BY <1>1 DEF Post
    <2> QED BY <2>1, Begun DEF BeginsAs
  <1>2. CASE \E u \in Update : Pull(p, u)
    <2>1. PICK u \in Update : Pull(p, u)
      BY <1>2
    <2>2. CASE Readable
      <3>1. /\ Begin(p, "pull", u, village, PolicyOf[u], "load") /\ u \in Accepts[village.body]
            /\ UNCHANGED receipts
        BY <2>1, <2>2 DEF Pull
      <3> QED BY <2>2, <3>1, Begun DEF BeginsAs
    <2>3. CASE ~Readable
      <3>1. Begin(p, "pull", u, NoPolicy, PolicyOf[u], "load") /\ UNCHANGED receipts
        BY <2>1, <2>3 DEF Pull
      <3> QED BY <2>3, <3>1, Begun DEF BeginsAs
    <2> QED BY <2>2, <2>3
  <1>3. CASE \E u \in Update : Compiled(p, u)
    <2>1. PICK u \in Update : Begin(p, "compiled", u, NoPolicy, PolicyOf[u], "load") /\ UNCHANGED receipts
      BY <1>3 DEF Compiled
    <2> QED BY <2>1, Begun DEF BeginsAs
  <1>4. CASE \E u \in Update : Import(p, u)
    <2>1. PICK u \in Update : /\ Begin(p, "import", u, NoPolicy, PolicyOf[u], "load")
                              /\ receipts' = receipts \cup {Len(request) + 1}
      BY <1>4 DEF Import
    <2> QED BY <2>1, Begun DEF BeginsAs
  <1>5. CASE \E i \in Issuer : AllowIssuer(p, i)
    <2>1. PICK i \in Issuer : Begin(p, "allow", i, NoPolicy, NoPolicy, "load") /\ UNCHANGED receipts
      BY <1>5 DEF AllowIssuer
    <2> QED BY <2>1, Begun DEF BeginsAs
  <1>6. CASE \E i \in Issuer : BlockIssuer(p, i)
    <2>1. PICK i \in Issuer : Begin(p, "block", i, NoPolicy, NoPolicy, "load") /\ UNCHANGED receipts
      BY <1>6 DEF BlockIssuer
    <2> QED BY <2>1, Begun DEF BeginsAs
  <1>7. CASE Rollback(p)
    <2>1. PICK i \in 1..Len(history) :
            Begin(p, "rollback", NoArg, NoPolicy, history[i].policy, "load") /\ UNCHANGED receipts
      BY <1>7 DEF Rollback
    <2> QED BY <2>1, Begun DEF BeginsAs
  <1> QED BY <1>1, <1>2, <1>3, <1>4, <1>5, <1>6, <1>7 DEF Start

-----------------------------------------------------------------------------
(* Receipts *)

\* A receipt is of an import of an update, and an import works on the policy of
\* its update.
ReceiptOK ==
  /\ \A op \in receipts : /\ op \in 1..Len(request) /\ Kindof(op) = "import"
                          /\ request[op].arg \in Update
  /\ \A p \in Proc : Busy(p) /\ Kindof(job[p].op) = "import" =>
       job[p].policy = PolicyOf[request[job[p].op].arg]

\* After its start a handler keeps its request, and its policy too unless it edits.
LEMMA JobStays ==
  ASSUME TypeInv, NEW p \in Proc, Save(p) \/ Record(p) \/ Fault(p)
  PROVE  /\ Busy(p) /\ job'[p].op = job[p].op /\ UNCHANGED <<request, receipts>>
         /\ Kindof(job[p].op) \notin IssuerKind => job'[p].policy = job[p].policy
  <1>0. job \in [Proc -> [op: Nat, policy: Known, base: Known]]
    BY DEF TypeInv, TypeOK, ControlOK
  <1>1. CASE Load(p)
    BY <1>0, <1>1 DEF Load, Busy, Edited, IssuerKind, Kindof
  <1>2. CASE Save(p) /\ ~Load(p)
    BY <1>2 DEF Busy, Save, OpenArtifact, WriteArtifact, LoadFails, OpenStaged, WriteStaged,
                ReplaceVillage, ReplaceFails
  <1>3. CASE Record(p)
    BY <1>3 DEF Busy, Record, AppendHistory, AppendAudit, MirrorAudit, AppendLog, MirrorLog,
                WriteLedger
  <1>4. CASE Fault(p)
    BY <1>4 DEF Busy, Fault, RecordFails, Crash, Interrupt
  <1> QED BY <1>1, <1>2, <1>3, <1>4

LEMMA ReceiptOKStep ==
  ASSUME TypeInv, ReceiptOK, [Next]_vars
  PROVE  ReceiptOK'
  <1>1. CASE UNCHANGED vars
    BY <1>1 DEF vars, ReceiptOK, Busy, Kindof
  <1>2. ASSUME NEW p \in Proc, Actor(p) PROVE ReceiptOK'
    <2>1. \A op \in 1..Len(request) : op \in 1..Len(request') /\ request'[op] = request[op]
      BY <1>2, Grows DEF Actor, Next
    <2>2. ASSUME NEW op \in receipts'
          PROVE  /\ op \in 1..Len(request') /\ request'[op].kind = "import"
                 /\ request'[op].arg \in Update
      <3>1. CASE op \in receipts
        BY <2>1, <3>1 DEF ReceiptOK, Kindof
      <3>2. CASE op \notin receipts
        <4>1. Start(p)
          BY <1>2, <3>2, JobStays DEF Actor
        <4> QED BY <3>2, <4>1, Started DEF Begins, BeginsAs
      <3> QED BY <3>1, <3>2
    <2>3. ASSUME NEW q \in Proc, pc'[q] # "idle", request'[job'[q].op].kind = "import"
          PROVE  job'[q].policy = PolicyOf[request'[job'[q].op].arg]
      <3>1. CASE q # p
        BY <1>2, <2>3, <3>1, OthersStay DEF ReceiptOK, Busy, Kindof
      <3>2. CASE q = p /\ Start(p)
        BY <2>3, <3>2, Started DEF Begins, BeginsAs
      <3>3. CASE q = p /\ ~Start(p)
        BY <1>2, <2>3, <3>3, JobStays DEF Actor, ReceiptOK, Kindof, IssuerKind
      <3> QED BY <3>1, <3>2, <3>3
    <2> QED BY <2>2, <2>3 DEF ReceiptOK, Busy, Kindof
  <1> QED BY <1>1, <1>2 DEF Next, Actor

\* A request in hand is installed, or stays in hand, or meets a fault.
LEMMA LoadedStep ==
  ASSUME TypeInv, SaveInv, ~raced, [Next]_vars, NEW q \in Proc, pc[q] \in Window \cup {"load"},
         pc[q] = "load" => Applicable(q)
  PROVE  \/ pc'[q] \in Window \cup {"load"} /\ job'[q].op = job[q].op
         \/ \E i \in 1..Len(installed') : installed'[i].op = job[q].op
         \/ job[q].op \in interrupted'
  <1>0. pc \in [Proc -> Step] /\ job \in [Proc -> [op: Nat, policy: Known, base: Known]]
    BY DEF TypeInv, TypeOK, ControlOK
  <1>1. CASE UNCHANGED vars
    BY <1>1 DEF vars
  <1>2. CASE \E p \in Proc \ {q} : Start(p) \/ Save(p) \/ Record(p) \/ Fault(p)
    BY <1>2, Locality
  <1>3. CASE Start(q)
    <2>1. PICK kind \in Kind, arg \in Update \cup Issuer \cup {NoArg}, seen \in Known,
               target \in Known, at \in {"publish", "load"} :
                 Begin(q, kind, arg, seen, target, at)
      BY <1>3, StartBegins
    <2> QED BY <2>1 DEF Begin, Window
  <1>4. CASE Save(q)
    <2>1. CASE Load(q)
      BY <1>0, <2>1 DEF Load, Goto, Window
    <2>2. CASE OpenStaged(q) \/ WriteStaged(q)
      BY <1>0, <2>2 DEF OpenStaged, WriteStaged, Goto, Window
    <2>3. CASE ReplaceVillage(q)
      BY <2>3, Installs
    <2>4. CASE LoadFails(q)
      BY <2>4 DEF LoadFails, SaveInv
    <2>5. CASE ReplaceFails(q)
      <3>1. staged = job[q].policy /\ staged = Absent
        BY <2>5 DEF ReplaceFails, SaveInv, WindowOK, Window
      <3>2. job[q].policy \in Policy
        BY <2>5, InHand DEF ReplaceFails, Busy
      <3> QED BY <3>1, <3>2, MarkersAssumption
    <2>6. CASE OpenArtifact(q) \/ WriteArtifact(q)
      BY <2>6 DEF OpenArtifact, WriteArtifact, Window
    <2> QED BY <1>4, <2>1, <2>2, <2>3, <2>4, <2>5, <2>6 DEF Save
  <1>5. CASE Record(q)
    BY <1>5 DEF Record, AppendHistory, AppendAudit, MirrorAudit, AppendLog, MirrorLog,
                WriteLedger, Window
  <1>6. CASE Fault(q)
    BY <1>6 DEF Fault, RecordFails, Crash, Interrupt
  <1> QED BY <1>1, <1>2, <1>3, <1>4, <1>5, <1>6 DEF Next

LEMMA ReceiptStep ==
  ASSUME TypeInv, SaveInv, ReceiptOK, ReceiptHonoured, [Next]_vars
  PROVE  ReceiptHonoured'
  <1>1. SUFFICES ASSUME ~raced', NEW op \in receipts',
                        PolicyOf[request'[op].arg] # NoPolicy, request'[op].arg \notin Elsewhere
                 PROVE  \/ \E i \in 1..Len(installed') : installed'[i].op = op
                        \/ op \in interrupted'
                        \/ \E p \in Proc : job'[p].op = op /\ pc'[p] \in Window \cup {"load"}
    BY DEF ReceiptHonoured, InFlight, Ops
  <1>2. ~raced
    BY <1>1, Grows
  <1>3. CASE op \in receipts
    <2>0. /\ op \in 1..Len(request) /\ Kindof(op) = "import" /\ request[op].arg \in Update
          /\ request'[op] = request[op]
      BY <1>3, Grows DEF ReceiptOK
    <2>1. \/ \E i \in 1..Len(installed) : installed[i].op = op
          \/ op \in interrupted
          \/ \E p \in Proc : job[p].op = op /\ pc[p] \in Window \cup {"load"}
      BY <1>1, <1>2, <1>3, <2>0 DEF ReceiptHonoured, InFlight, Ops
    <2>2. CASE \E i \in 1..Len(installed) : installed[i].op = op
      BY <2>2, Grows
    <2>3. CASE op \in interrupted
      BY <2>3, Grows
    <2>4. CASE \E p \in Proc : job[p].op = op /\ pc[p] \in Window \cup {"load"}
      <3>1. PICK p \in Proc : job[p].op = op /\ pc[p] \in Window \cup {"load"}
        BY <2>4
      <3>2. job[p].policy = PolicyOf[request[op].arg]
        BY <2>0, <3>1 DEF ReceiptOK, Busy, Window
      <3>3. PolicyOf[request[op].arg] \in Policy
        BY <1>1, <2>0, PolicyOfType DEF Known
      <3>4. Applicable(p)
        BY <1>1, <2>0, <3>1, <3>2, <3>3 DEF Applicable
      <3> QED BY <1>2, <3>1, <3>4, LoadedStep
    <2> QED BY <2>1, <2>2, <2>3, <2>4
  <1>4. CASE op \notin receipts
    <2>1. PICK p \in Proc : Start(p)
      BY <1>1, <1>4, Unmoved
    <2> QED BY <1>1, <1>4, <2>1, Started DEF Begins, BeginsAs
  <1> QED BY <1>3, <1>4

\* A registry import whose receipt says "apply" is installed unless a fault
\* meets it, if its policy is valid and names a village of this node: neither
\* its load nor its rename can fail then.
THEOREM ReceiptKept == Spec => []ReceiptHonoured
  <1>1. Init => ReceiptOK /\ ReceiptHonoured
    <2> SUFFICES ASSUME Init PROVE ReceiptOK /\ ReceiptHonoured
      OBVIOUS
    <2>1. receipts = {} /\ \A p \in Proc : ~Busy(p)
      BY DEF Init, Busy
    <2> QED BY <2>1 DEF ReceiptOK, ReceiptHonoured
  <1>2. TypeInv /\ SaveInv /\ ReceiptOK /\ ReceiptHonoured /\ [Next]_vars
          => ReceiptOK' /\ ReceiptHonoured'
    BY ReceiptOKStep, ReceiptStep
  <1> QED BY <1>1, <1>2, TypeInvariant, SaveInvariant, PTL DEF Spec

-----------------------------------------------------------------------------
(* The trails nest *)

\* Rows are of requests that were made.
RowsOK == \A row \in Rows(history) \cup Rows(audit) : row.op \in 1..Len(request)

\* A handler that is recording has its row in the trails it has passed.
CarriesRow(p) ==
  /\ pc[p] \in {"history", "log", "logdb", "ledger"} => Kindof(job[p].op) \in ApplyKind
  /\ pc[p] \in Recording /\ Kindof(job[p].op) \in ApplyKind => RowOf(p) \in Rows(history)
  /\ pc[p] \in Recording \ {"audit"} => RowOf(p) \in Rows(audit)
  /\ NodeKey /\ pc[p] \in {"logdb", "ledger"} =>
       RowOf(p) \in Rows(log) \/ job[p].op \in interrupted

NestInv == RowsOK /\ (\A p \in Proc : CarriesRow(p)) /\ TrailsNest

LEMMA InitNest == Init => NestInv
  <1> SUFFICES ASSUME Init PROVE NestInv
    OBVIOUS
  <1>1. Rows(<<>>) = {}
    BY DEF Rows
  <1>2. RowsOK /\ TrailsNest
    BY <1>1 DEF RowsOK, TrailsNest, Init
  <1>3. \A p \in Proc : CarriesRow(p)
    BY DEF CarriesRow, Init, Recording
  <1> QED BY <1>2, <1>3 DEF NestInv

\* A process keeps what it carries while another one moves and rows are added.
LEMMA CarriesOn ==
  ASSUME TypeInv, NEW p \in Proc, Actor(p), NEW q \in Proc, q # p, CarriesRow(q),
         Rows(history) \subseteq Rows(history'), Rows(audit) \subseteq Rows(audit'),
         Rows(log) \subseteq Rows(log')
  PROVE  CarriesRow(q)'
  <1>1. /\ pc'[q] = pc[q] /\ job'[q] = job[q]
        /\ Busy(q) => request'[job[q].op] = request[job[q].op]
    BY OthersStay
  <1>2. CASE ~Busy(q)
    BY <1>1, <1>2 DEF Busy, CarriesRow, Recording
  <1>3. CASE Busy(q)
    <2>1. Kindof(job[q].op)' = Kindof(job[q].op) /\ RowOf(q)' = RowOf(q)
      BY <1>1, <1>3 DEF Kindof, RowOf
    <2>2. Rows(history)' = Rows(history') /\ Rows(audit)' = Rows(audit') /\ Rows(log)' = Rows(log')
      BY DEF Rows
    <2>3. interrupted \subseteq interrupted'
      BY Grows DEF Actor, Next
    <2> QED BY <1>1, <2>1, <2>2, <2>3 DEF CarriesRow
  <1> QED BY <1>2, <1>3

\* The kinds of recorded requests stay.
LEMMA KindsStay ==
  ASSUME TypeInv, RowsOK, [Next]_vars
  PROVE  \A row \in Rows(history) \cup Rows(audit) :
           row.op \in 1..Len(request') /\ Kindof(row.op)' = Kindof(row.op)
  BY Grows DEF RowsOK, Kindof

\* A step that adds no row keeps the trails nested.
LEMMA NoRowNest ==
  ASSUME TypeInv, NestInv, NEW p \in Proc, Actor(p), UNCHANGED <<trails, tables>>, CarriesRow(p)'
  PROVE  NestInv'
  <1>1. UNCHANGED <<history, audit, log, dbHistory, dbPolicy>>
    BY DEF trails, tables
  <1>2. [Next]_vars
    BY DEF Next, Actor
  <1>3. RowsOK'
    BY <1>1, <1>2, KindsStay DEF RowsOK, NestInv
  <1>4. \A q \in Proc : CarriesRow(q)'
    BY <1>1, CarriesOn DEF NestInv
  <1>5. TrailsNest'
    BY <1>1, <1>2, KindsStay, Grows DEF TrailsNest, NestInv
  <1> QED BY <1>3, <1>4, <1>5 DEF NestInv

\* Nothing but the steps of Record writes to a trail.
LEMMA OnlyRecordWrites ==
  ASSUME TypeInv, NEW p \in Proc, Start(p) \/ Save(p) \/ Fault(p)
  PROVE  UNCHANGED <<trails, tables>>
  <1>1. CASE Start(p)
    BY <1>1, Started DEF Begins
  <1>2. CASE Save(p)
    BY <1>2 DEF Save, OpenArtifact, WriteArtifact, Load, LoadFails, OpenStaged, WriteStaged,
                ReplaceVillage, ReplaceFails
  <1>3. CASE Fault(p)
    BY <1>3 DEF Fault, RecordFails, Crash, Interrupt
  <1> QED BY <1>1, <1>2, <1>3

LEMMA UnrecordingNest ==
  ASSUME TypeInv, NestInv, NEW p \in Proc, Start(p) \/ Save(p) \/ Fault(p)
  PROVE  NestInv'
  <1>0. pc \in [Proc -> Step]
    BY DEF TypeInv, TypeOK, ControlOK
  <1>1. CASE Start(p)
    BY <1>1, NoRowNest, OnlyRecordWrites, Started DEF Actor, BeginsAs, CarriesRow, Recording
  <1>2. CASE Save(p)
    <2>1. CASE ReplaceVillage(p)
      <3>1. pc'[p] = Saved(Kindof(job[p].op)) /\ Kindof(job[p].op)' = Kindof(job[p].op)
        BY <1>0, <2>1 DEF ReplaceVillage, Goto, Kindof
      <3>2. CarriesRow(p)'
        BY <3>1 DEF CarriesRow, Saved, ApplyKind, IssuerKind, Recording
      <3> QED BY <1>2, <3>2, NoRowNest, OnlyRecordWrites DEF Actor
    <2>2. CASE ~ReplaceVillage(p)
      <3>1. pc'[p] \in {"idle", "republish", "load", "open", "write", "replace"}
        BY <1>0, <1>2, <2>2 DEF Save, OpenArtifact, WriteArtifact, Load, LoadFails, OpenStaged,
                                WriteStaged, ReplaceFails, Goto
      <3>2. CarriesRow(p)'
        BY <3>1 DEF CarriesRow, Recording
      <3> QED BY <1>2, <3>2, NoRowNest, OnlyRecordWrites DEF Actor
    <2> QED BY <2>1, <2>2
  <1>3. CASE Fault(p)
    <2>1. \/ pc'[p] = "idle"
          \/ /\ pc[p] \in {"log", "logdb"} /\ pc'[p] = "ledger"
             /\ UNCHANGED <<job, request, trails>> /\ job[p].op \in interrupted'
      BY <1>0, <1>3 DEF Fault, RecordFails, Ledgered, Crash, Interrupt, Goto
    <2>2. CarriesRow(p)'
      BY <2>1 DEF CarriesRow, Recording, NestInv, trails, Rows, RowOf, Kindof
    <2> QED BY <1>3, <2>2, NoRowNest, OnlyRecordWrites DEF Actor
  <1> QED BY <1>1, <1>2, <1>3

\* A step of p that appends its row to one trail, where the rows it must repeat
\* already are.
LEMMA RecordNest ==
  ASSUME TypeInv, NestInv, NEW p \in Proc, Record(p)
  PROVE  NestInv'
  <1>0. /\ pc \in [Proc -> Step]
        /\ history \in Seq(Row) /\ audit \in Seq(Row) /\ log \in Seq(Row) /\ dbHistory \in Seq(Row)
    BY DEF TypeInv, TypeOK, ControlOK, TrailsOK, TablesOK
  <1>1. /\ pc[p] \in Recording \cup {"history"}
        /\ UNCHANGED <<job, request>>
        /\ Actor(p) /\ [Next]_vars
    BY DEF Record, AppendHistory, AppendAudit, MirrorAudit, AppendLog, MirrorLog, WriteLedger,
           Recording, Actor, Next
  <1>2. /\ RowOf(p) \in Row /\ RowOf(p).op = job[p].op /\ RowOf(p).policy = job[p].policy
        /\ job[p].op \in 1..Len(request)
    BY <1>1, InHand DEF Busy, Recording, RowOf
  <1>3. Kindof(job[p].op)' = Kindof(job[p].op) /\ RowOf(p)' = RowOf(p)
    BY <1>1 DEF Kindof, RowOf
  <1>4. CarriesRow(p)
    BY DEF NestInv
  <1>5. CASE AppendHistory(p)
    <2>1. /\ Rows(history') = Rows(history) \cup {RowOf(p)} /\ pc'[p] = "audit"
          /\ UNCHANGED <<audit, log, dbHistory, dbPolicy>>
      BY <1>0, <1>2, <1>5, RowsAppend DEF AppendHistory, Goto, tables
    <2>2. CarriesRow(p)'
      BY <1>3, <2>1 DEF CarriesRow, Recording, Rows
    <2>3. \A q \in Proc : CarriesRow(q)'
      BY <1>1, <2>1, <2>2, CarriesOn DEF NestInv
    <2>4. RowsOK'
      BY <1>1, <1>2, <2>1, KindsStay, Grows DEF RowsOK, NestInv, Rows
    <2>5. TrailsNest'
      BY <1>1, <2>1, KindsStay, Grows DEF TrailsNest, NestInv
    <2> QED BY <2>3, <2>4, <2>5 DEF NestInv
  <1>6. CASE AppendAudit(p)
    <2>1. /\ Rows(audit') = Rows(audit) \cup {RowOf(p)}
          /\ UNCHANGED <<history, log, dbHistory, dbPolicy>>
      BY <1>0, <1>2, <1>6, RowsAppend DEF AppendAudit, tables
    <2>2. pc'[p] = IF Sqlite THEN "auditdb" ELSE Audited(Kindof(job[p].op))
      BY <1>0, <1>6 DEF AppendAudit, Goto
    <2>3. CarriesRow(p)'
      BY <1>3, <1>4, <1>6, <2>1, <2>2 DEF AppendAudit, CarriesRow, Recording, Rows, Audited, Ledgered
    <2>4. \A q \in Proc : CarriesRow(q)'
      BY <1>1, <2>1, <2>3, CarriesOn DEF NestInv
    <2>5. RowsOK'
      BY <1>1, <1>2, <2>1, KindsStay, Grows DEF RowsOK, NestInv, Rows
    <2>6. Kindof(RowOf(p).op)' \in ApplyKind => RowOf(p) \in Rows(history)
      BY <1>2, <1>3, <1>4, <1>6 DEF AppendAudit, CarriesRow, Recording
    <2>7. TrailsNest'
      BY <1>1, <1>3, <2>1, <2>6, KindsStay, Grows DEF TrailsNest, NestInv
    <2> QED BY <2>4, <2>5, <2>7 DEF NestInv
  <1>7. CASE AppendLog(p)
    <2>1. /\ Rows(log') = Rows(log) \cup {RowOf(p)}
          /\ UNCHANGED <<history, audit, dbHistory, dbPolicy>>
          /\ pc'[p] \in {"logdb", "idle"}
      BY <1>0, <1>2, <1>7, RowsAppend DEF AppendLog, tables, Goto
    <2>2. CarriesRow(p)'
      BY <1>3, <1>4, <1>7, <2>1 DEF AppendLog, CarriesRow, Recording, Rows
    <2>3. \A q \in Proc : CarriesRow(q)'
      BY <1>1, <2>1, <2>2, CarriesOn DEF NestInv
    <2>4. RowsOK'
      BY <1>1, <2>1, KindsStay, Grows DEF RowsOK, NestInv
    <2>5. TrailsNest'
      BY <1>1, <1>4, <1>7, <2>1, KindsStay, Grows DEF AppendLog, CarriesRow, Recording, TrailsNest,
                                               NestInv
    <2> QED BY <2>3, <2>4, <2>5 DEF NestInv
  <1>8. CASE MirrorAudit(p) \/ MirrorLog(p)
    <2>1. /\ UNCHANGED <<history, audit, log, dbHistory, dbPolicy>>
          /\ \/ pc[p] = "auditdb" /\ pc'[p] = Audited(Kindof(job[p].op))
             \/ pc[p] = "logdb" /\ pc'[p] = "ledger"
          /\ interrupted' = interrupted
      BY <1>0, <1>8 DEF MirrorAudit, MirrorLog, Goto, trails, observed
    <2>2. CarriesRow(p)'
      BY <1>1, <1>3, <1>4, <2>1 DEF CarriesRow, Recording, Rows, Audited, Ledgered
    <2>3. \A q \in Proc : CarriesRow(q)'
      BY <1>1, <2>1, <2>2, CarriesOn DEF NestInv
    <2>4. RowsOK' /\ TrailsNest'
      BY <1>1, <2>1, KindsStay, Grows DEF RowsOK, TrailsNest, NestInv
    <2> QED BY <2>3, <2>4 DEF NestInv
  <1>9. CASE WriteLedger(p)
    <2>1. /\ Rows(dbHistory') = Rows(dbHistory) \cup {RowOf(p)}
          /\ Last(dbHistory') = RowOf(p) /\ dbPolicy' = job[p].policy
          /\ UNCHANGED <<history, audit, log>> /\ pc'[p] = "idle" /\ pc[p] = "ledger"
      BY <1>0, <1>2, <1>9, RowsAppend DEF WriteLedger, trails, Goto
    <2>2. CarriesRow(p)'
      BY <2>1 DEF CarriesRow, Recording
    <2>3. \A q \in Proc : CarriesRow(q)'
      BY <1>1, <2>1, <2>2, CarriesOn DEF NestInv
    <2>4. RowsOK'
      BY <1>1, <2>1, KindsStay, Grows DEF RowsOK, NestInv
    <2>5. RowOf(p) \in Rows(history) \cap Rows(audit)
          /\ (NodeKey => RowOf(p) \in Rows(log) \/ job[p].op \in interrupted)
      BY <1>4, <2>1 DEF CarriesRow, Recording
    <2>6. TrailsNest'
      BY <1>1, <1>2, <2>1, <2>5, KindsStay, Grows DEF TrailsNest, NestInv
    <2> QED BY <2>3, <2>4, <2>6 DEF NestInv
  <1> QED BY <1>5, <1>6, <1>7, <1>8, <1>9 DEF Record

LEMMA StutterNest == NestInv /\ UNCHANGED vars => NestInv'
  <1> SUFFICES ASSUME NestInv, UNCHANGED vars PROVE NestInv'
    OBVIOUS
  <1>1. UNCHANGED <<history, audit, log, dbHistory, dbPolicy, request, job, pc, interrupted>>
    BY DEF vars, trails, tables, observed
  <1>2. RowsOK'
    BY <1>1 DEF NestInv, RowsOK
  <1>3. \A p \in Proc : CarriesRow(p)'
    BY <1>1 DEF NestInv, CarriesRow, Kindof, RowOf
  <1>4. TrailsNest'
    BY <1>1 DEF NestInv, TrailsNest, Kindof
  <1> QED BY <1>2, <1>3, <1>4 DEF NestInv

LEMMA NestInvariant == Spec => []NestInv
  <1>1. TypeInv /\ NestInv /\ [Next]_vars => NestInv'
    BY UnrecordingNest, RecordNest, StutterNest DEF Next
  <1> QED BY InitNest, <1>1, TypeInvariant, PTL DEF Spec

-----------------------------------------------------------------------------
(* Nothing is left unrecorded *)

\* The act op is recorded, will be, or met a fault.
Due(op, done, before) == op \in done \/ op \in interrupted \/ InFlight(op, before)

Recorded(op) ==
  /\ Kindof(op) \in ApplyKind =>
       /\ Due(op, Ops(history), {"history"})
       /\ NodeKey => Due(op, Ops(log), {"history", "audit", "auditdb", "log"})
       /\ Sqlite => Due(op, Ops(dbHistory), {"history", "audit", "auditdb", "log", "logdb", "ledger"})
  /\ Kindof(op) \in ApplyKind \cup IssuerKind =>
       /\ Due(op, Ops(audit), {"history", "audit"})
       /\ Sqlite => Due(op, dbAudit, {"history", "audit", "auditdb"})

LEMMA UnrecordedIs == NothingUnrecorded <=> \A op \in Ops(installed) : Recorded(op)
  BY DEF NothingUnrecorded, Recorded, Due, Ops

\* Rows are only added.
LEMMA TrailsGrow ==
  ASSUME TypeInv, NEW p \in Proc, Actor(p)
  PROVE  /\ Ops(history) \subseteq Ops(history') /\ Ops(audit) \subseteq Ops(audit')
         /\ Ops(log) \subseteq Ops(log') /\ Ops(dbHistory) \subseteq Ops(dbHistory')
         /\ dbAudit \subseteq dbAudit'
  <1>0. history \in Seq(Row) /\ audit \in Seq(Row) /\ log \in Seq(Row) /\ dbHistory \in Seq(Row)
    BY DEF TypeInv, TypeOK, TrailsOK, TablesOK
  <1>1. CASE Start(p) \/ Save(p) \/ Fault(p)
    BY <1>1, OnlyRecordWrites DEF trails, tables
  <1>2. CASE Record(p)
    <2>1. RowOf(p) \in Row
      BY <1>2, InHand DEF Busy, Record, AppendHistory, AppendAudit, MirrorAudit, AppendLog,
                          MirrorLog, WriteLedger
    <2>2. CASE AppendHistory(p)
      BY <1>0, <2>1, <2>2, RowsAppend DEF AppendHistory, tables
    <2>3. CASE AppendAudit(p)
      BY <1>0, <2>1, <2>3, RowsAppend DEF AppendAudit, tables
    <2>4. CASE AppendLog(p)
      BY <1>0, <2>1, <2>4, RowsAppend DEF AppendLog, tables
    <2>5. CASE MirrorAudit(p) \/ MirrorLog(p)
      BY <2>5 DEF MirrorAudit, MirrorLog, trails
    <2>6. CASE WriteLedger(p)
      BY <1>0, <2>1, <2>6, RowsAppend DEF WriteLedger, trails
    <2> QED BY <1>2, <2>2, <2>3, <2>4, <2>5, <2>6 DEF Record
  <1> QED BY <1>1, <1>2 DEF Actor

\* Where a handler that has saved goes, and what it has written when it moves on.
LEMMA RecordMoves ==
  ASSUME TypeInv, NEW p \in Proc, Actor(p), pc[p] \in Recording \cup {"history"}
  PROVE  /\ job'[p] = job[p]
         /\ \/ job[p].op \in interrupted'
            \/ pc[p] = "history" /\ pc'[p] = "audit" /\ job[p].op \in Ops(history')
            \/ /\ pc[p] = "audit" /\ job[p].op \in Ops(audit')
               /\ pc'[p] = IF Sqlite THEN "auditdb" ELSE Audited(Kindof(job[p].op))
            \/ /\ pc[p] = "auditdb" /\ job[p].op \in dbAudit'
               /\ pc'[p] = Audited(Kindof(job[p].op))
            \/ /\ pc[p] = "log" /\ job[p].op \in Ops(log')
               /\ pc'[p] = IF Sqlite THEN "logdb" ELSE "idle"
            \/ pc[p] = "logdb" /\ pc'[p] = "ledger"
            \/ pc[p] = "ledger" /\ job[p].op \in Ops(dbHistory')
  <1>0. /\ pc \in [Proc -> Step]
        /\ history \in Seq(Row) /\ audit \in Seq(Row) /\ log \in Seq(Row) /\ dbHistory \in Seq(Row)
    BY DEF TypeInv, TypeOK, ControlOK, TrailsOK, TablesOK
  <1>1. RowOf(p) \in Row /\ RowOf(p).op = job[p].op
    BY InHand DEF Busy, Recording, RowOf
  <1>2. CASE Start(p)
    BY <1>2, Started DEF Begins, Recording
  <1>3. CASE Save(p)
    BY <1>3 DEF Save, OpenArtifact, WriteArtifact, Load, LoadFails, OpenStaged, WriteStaged,
                ReplaceVillage, ReplaceFails, Recording
  <1>4. CASE Fault(p)
    BY <1>4 DEF Fault, RecordFails, Crash, Interrupt
  <1>5. CASE AppendHistory(p)
    BY <1>0, <1>1, <1>5, RowsAppend DEF AppendHistory, Goto
  <1>6. CASE AppendAudit(p)
    BY <1>0, <1>1, <1>6, RowsAppend DEF AppendAudit, Goto
  <1>7. CASE AppendLog(p)
    BY <1>0, <1>1, <1>7, RowsAppend DEF AppendLog, Goto
  <1>8. CASE MirrorAudit(p) \/ MirrorLog(p)
    BY <1>0, <1>8 DEF MirrorAudit, MirrorLog, Goto
  <1>9. CASE WriteLedger(p)
    BY <1>0, <1>1, <1>9, RowsAppend DEF WriteLedger
  <1> QED BY <1>2, <1>3, <1>4, <1>5, <1>6, <1>7, <1>8, <1>9 DEF Actor, Record

\* What is due stays due until it is done or its handler meets a fault.
LEMMA DueStays ==
  ASSUME TypeInv, NEW p \in Proc, Actor(p), NEW op, NEW done, NEW done1, NEW before,
         done \subseteq done1, "idle" \notin before, Due(op, done, before),
         job[p].op = op /\ pc[p] \in before =>
           \/ pc'[p] \in before /\ job'[p].op = op
           \/ op \in done1
           \/ op \in interrupted'
  PROVE  op \in done1 \/ op \in interrupted' \/ \E q \in Proc : job'[q].op = op /\ pc'[q] \in before
  <1>1. CASE op \in done \/ op \in interrupted
    <2>1. interrupted \subseteq interrupted'
      BY Grows DEF Actor, Next
    <2> QED BY <1>1, <2>1
  <1>2. CASE InFlight(op, before)
    <2>1. PICK q \in Proc : job[q].op = op /\ pc[q] \in before
      BY <1>2 DEF InFlight
    <2>2. CASE q = p
      BY <2>1, <2>2
    <2>3. CASE q # p
      BY <2>1, <2>3, OthersStay
    <2> QED BY <2>2, <2>3
  <1> QED BY <1>1, <1>2 DEF Due

LEMMA RecordedStays ==
  ASSUME TypeInv, NEW p \in Proc, Actor(p), NEW op \in 1..Len(request), Recorded(op)
  PROVE  Recorded(op)'
  <1>1. Kindof(op)' = Kindof(op)
    BY Grows DEF Actor, Next, Kindof
  <1>2. ASSUME Kindof(op) \in ApplyKind PROVE Due(op, Ops(history), {"history"})'
    <2>1. Due(op, Ops(history), {"history"})
      BY <1>2 DEF Recorded
    <2>2. job[p].op = op /\ pc[p] \in {"history"} => op \in Ops(history') \/ op \in interrupted'
      BY RecordMoves
    <2>3. Due(op, Ops(history), {"history"})' <=>
            op \in Ops(history') \/ op \in interrupted'
              \/ \E q \in Proc : job'[q].op = op /\ pc'[q] \in {"history"}
      BY DEF Due, InFlight, Ops
    <2> QED BY <2>1, <2>2, <2>3, DueStays, TrailsGrow
  <1>3. ASSUME Kindof(op) \in ApplyKind, NodeKey
        PROVE  Due(op, Ops(log), {"history", "audit", "auditdb", "log"})'
    <2> DEFINE before == {"history", "audit", "auditdb", "log"}
    <2>1. Due(op, Ops(log), before)
      BY <1>3 DEF Recorded
    <2>2. job[p].op = op /\ pc[p] \in before =>
            \/ pc'[p] \in before /\ job'[p].op = op
            \/ op \in Ops(log') \/ op \in interrupted'
      BY <1>3, RecordMoves DEF Recording, Audited
    <2>3. Due(op, Ops(log), before)' <=>
            op \in Ops(log') \/ op \in interrupted'
              \/ \E q \in Proc : job'[q].op = op /\ pc'[q] \in before
      BY DEF Due, InFlight, Ops
    <2> QED BY <2>1, <2>2, <2>3, DueStays, TrailsGrow
  <1>4. ASSUME Kindof(op) \in ApplyKind, Sqlite
        PROVE  Due(op, Ops(dbHistory), {"history", "audit", "auditdb", "log", "logdb", "ledger"})'
    <2> DEFINE before == {"history", "audit", "auditdb", "log", "logdb", "ledger"}
    <2>1. Due(op, Ops(dbHistory), before)
      BY <1>4 DEF Recorded
    <2>2. job[p].op = op /\ pc[p] \in before =>
            \/ pc'[p] \in before /\ job'[p].op = op
            \/ op \in Ops(dbHistory') \/ op \in interrupted'
      BY <1>4, RecordMoves DEF Recording, Audited, Ledgered
    <2>3. Due(op, Ops(dbHistory), before)' <=>
            op \in Ops(dbHistory') \/ op \in interrupted'
              \/ \E q \in Proc : job'[q].op = op /\ pc'[q] \in before
      BY DEF Due, InFlight, Ops
    <2> QED BY <2>1, <2>2, <2>3, DueStays, TrailsGrow
  <1>5. ASSUME Kindof(op) \in ApplyKind \cup IssuerKind
        PROVE  Due(op, Ops(audit), {"history", "audit"})'
    <2> DEFINE before == {"history", "audit"}
    <2>1. Due(op, Ops(audit), before)
      BY <1>5 DEF Recorded
    <2>2. job[p].op = op /\ pc[p] \in before =>
            \/ pc'[p] \in before /\ job'[p].op = op
            \/ op \in Ops(audit') \/ op \in interrupted'
      BY RecordMoves DEF Recording
    <2>3. Due(op, Ops(audit), before)' <=>
            op \in Ops(audit') \/ op \in interrupted'
              \/ \E q \in Proc : job'[q].op = op /\ pc'[q] \in before
      BY DEF Due, InFlight, Ops
    <2> QED BY <2>1, <2>2, <2>3, DueStays, TrailsGrow
  <1>6. ASSUME Kindof(op) \in ApplyKind \cup IssuerKind, Sqlite
        PROVE  Due(op, dbAudit, {"history", "audit", "auditdb"})'
    <2> DEFINE before == {"history", "audit", "auditdb"}
    <2>1. Due(op, dbAudit, before)
      BY <1>6 DEF Recorded
    <2>2. job[p].op = op /\ pc[p] \in before =>
            \/ pc'[p] \in before /\ job'[p].op = op
            \/ op \in dbAudit' \/ op \in interrupted'
      BY <1>6, RecordMoves DEF Recording
    <2>3. Due(op, dbAudit, before)' <=>
            op \in dbAudit' \/ op \in interrupted'
              \/ \E q \in Proc : job'[q].op = op /\ pc'[q] \in before
      BY DEF Due, InFlight
    <2> QED BY <2>1, <2>2, <2>3, DueStays, TrailsGrow
  <1> QED BY <1>1, <1>2, <1>3, <1>4, <1>5, <1>6 DEF Recorded

\* A policy that has just been installed is due in every trail.
LEMMA InstalledIsDue ==
  ASSUME TypeInv, NEW p \in Proc, ReplaceVillage(p), NEW op, op = job[p].op
  PROVE  Recorded(op)'
  <1>1. job'[p].op = op /\ Kindof(op)' = Kindof(op) /\ pc'[p] = Saved(Kindof(op))
    BY DEF ReplaceVillage, Goto, Kindof, TypeInv, TypeOK, ControlOK
  <1>2. \A before : pc'[p] \in before => InFlight(op, before)'
    BY <1>1 DEF InFlight
  <1> QED BY <1>1, <1>2 DEF Recorded, Due, Saved, ApplyKind, IssuerKind

LEMMA UnrecordedStep ==
  ASSUME TypeInv, OpsOK, NothingUnrecorded, [Next]_vars
  PROVE  NothingUnrecorded'
  <1>1. NothingUnrecorded' <=> (\A op \in Ops(installed) : Recorded(op))'
    BY UnrecordedIs, PTL
  <1>2. SUFFICES ASSUME NEW op \in Ops(installed') PROVE Recorded(op)'
    BY <1>1 DEF Ops
  <1>3. PICK i \in 1..Len(installed') : installed'[i].op = op
    BY DEF Ops
  <1>4. CASE UNCHANGED vars
    <2>1. UNCHANGED <<pc, job, request, history, audit, log, dbHistory, dbAudit, installed, interrupted>>
      BY <1>4 DEF vars, trails, tables, observed
    <2>2. Recorded(op)
      BY <1>3, <2>1, UnrecordedIs DEF Ops
    <2> QED BY <2>1, <2>2 DEF Recorded, Due, InFlight, Kindof, Ops
  <1>5. ASSUME NEW p \in Proc, Actor(p) PROVE Recorded(op)'
    <2>1. CASE i \in 1..Len(installed) /\ installed'[i] = installed[i]
      <3>1. Recorded(op) /\ op \in 1..Len(request)
        BY <1>3, <2>1, UnrecordedIs DEF OpsOK, Ops
      <3> QED BY <1>5, <3>1, RecordedStays
    <2>2. CASE ~(i \in 1..Len(installed) /\ installed'[i] = installed[i])
      <3>1. PICK q \in Proc : ReplaceVillage(q)
        BY <2>2, Unmoved
      <3>2. PICK k \in 1..Len(installed') :
              /\ installed'[k].op = job[q].op
              /\ \A n \in 1..Len(installed') : n # k => n \in 1..Len(installed)
        BY <3>1, Installs
      <3>3. op = job[q].op
        BY <1>3, <2>2, <3>2, Grows
      <3> QED BY <3>1, <3>3, InstalledIsDue
    <2> QED BY <2>1, <2>2
  <1> QED BY <1>4, <1>5 DEF Next, Actor

-----------------------------------------------------------------------------
(* What was applied is in the feed, if it names this village *)

\* Its artifact can be read, is being rewritten, or was cut off by a fault.
Published(u) ==
  \/ u \in feed
  \/ \E op \in 1..Len(request) : /\ Kindof(op) = "post" /\ request[op].arg = u
                                 /\ InFlight(op, {"republish"}) \/ op \in interrupted

\* Only a POST publishes, and it has published before it applies.
PublishesFirst(p) ==
  /\ pc[p] \in {"publish", "republish"} => Kindof(job[p].op) = "post"
  /\ pc[p] \in Window \cup {"load"} /\ Kindof(job[p].op) = "post" =>
       request[job[p].op].arg \in Elsewhere \/ Published(request[job[p].op].arg)

PublishInv == (\A p \in Proc : PublishesFirst(p)) /\ AppliedIsPublished

LEMMA PublishedIs ==
  AppliedIsPublished <=> \A i \in 1..Len(installed) : \A u :
     Kindof(installed[i].op) = "post" /\ u = request[installed[i].op].arg =>
       u \in Elsewhere \/ Published(u)
  BY DEF AppliedIsPublished, Published

LEMMA PublishedStays ==
  ASSUME TypeInv, NEW p \in Proc, Actor(p), PublishesFirst(p), NEW u, Published(u),
         u \notin Elsewhere
  PROVE  Published(u)'
  <1>0. pc \in [Proc -> Step] /\ (Busy(p) => job[p].op \in 1..Len(request))
    BY DEF TypeInv, TypeOK, ControlOK, JobOK
  <1>1. /\ interrupted \subseteq interrupted'
        /\ \A op \in 1..Len(request) : /\ op \in 1..Len(request') /\ request'[op] = request[op]
                                       /\ Kindof(op)' = Kindof(op)
    BY Grows DEF Actor, Next, Kindof
  <1>2. ASSUME NEW op \in 1..Len(request), Kindof(op) = "post", request[op].arg = u,
               (\E q \in Proc : job'[q].op = op /\ pc'[q] = "republish") \/ op \in interrupted'
        PROVE  Published(u)'
    BY <1>1, <1>2 DEF Published, InFlight
  <1>3. \/ OpenArtifact(p) \/ WriteArtifact(p)
        \/ Crash(p) /\ feed' = feed
        \/ pc[p] # "republish" /\ feed' = feed
    <2>1. CASE Start(p)
      BY <2>1, Started DEF Begins
    <2>2. CASE Save(p)
      BY <2>2 DEF Save, Load, LoadFails, OpenStaged, WriteStaged, ReplaceVillage, ReplaceFails
    <2>3. CASE Record(p)
      BY <2>3 DEF Record, AppendHistory, AppendAudit, MirrorAudit, AppendLog, MirrorLog, WriteLedger
    <2>4. CASE Fault(p)
      BY <2>4 DEF Fault, RecordFails, Crash, Interrupt
    <2> QED BY <2>1, <2>2, <2>3, <2>4 DEF Actor
  <1>4. CASE u \in feed /\ u \in feed'
    BY <1>4 DEF Published
  <1>5. CASE u \in feed /\ u \notin feed'
    <2>1. OpenArtifact(p) /\ request[job[p].op].arg = u
      BY <1>3, <1>5 DEF OpenArtifact, WriteArtifact, Filed
    <2>2. job'[p].op = job[p].op /\ pc'[p] = "republish" /\ Kindof(job[p].op) = "post"
      BY <1>0, <2>1 DEF OpenArtifact, Goto, PublishesFirst
    <2> QED BY <1>0, <1>2, <2>1, <2>2 DEF OpenArtifact, Busy
  <1>6. CASE u \notin feed
    <2>1. PICK op \in 1..Len(request) : /\ Kindof(op) = "post" /\ request[op].arg = u
                                        /\ InFlight(op, {"republish"}) \/ op \in interrupted
      BY <1>6 DEF Published
    <2>2. CASE op \in interrupted
      BY <1>1, <1>2, <2>1, <2>2
    <2>3. CASE InFlight(op, {"republish"})
      <3>1. PICK q \in Proc : job[q].op = op /\ pc[q] = "republish"
        BY <2>3 DEF InFlight
      <3>2. CASE q # p
        BY <1>2, <2>1, <3>1, <3>2, OthersStay
      <3>3. CASE q = p /\ Crash(p)
        BY <1>2, <2>1, <3>1, <3>3 DEF Crash, Interrupt
      <3>4. CASE q = p /\ WriteArtifact(p)
        BY <2>1, <3>1, <3>4 DEF WriteArtifact, Filed, Published
      <3>5. CASE q = p /\ OpenArtifact(p)
        BY <3>1, <3>5 DEF OpenArtifact
      <3> QED BY <1>3, <3>1, <3>2, <3>3, <3>4, <3>5
    <2> QED BY <2>1, <2>2, <2>3
  <1> QED BY <1>4, <1>5, <1>6

LEMMA PublishStep ==
  ASSUME TypeInv, OpsOK, PublishInv, [Next]_vars
  PROVE  PublishInv'
  <1>0. pc \in [Proc -> Step]
    BY DEF TypeInv, TypeOK, ControlOK
  <1>1. CASE UNCHANGED vars
    <2>1. UNCHANGED <<pc, job, request, feed, installed, interrupted>>
      BY <1>1 DEF vars, observed
    <2> QED BY <2>1 DEF PublishInv, PublishesFirst, AppliedIsPublished, Published, InFlight, Kindof
  <1>2. ASSUME NEW p \in Proc, Actor(p) PROVE PublishInv'
    <2>0. /\ PublishesFirst(p) /\ Next
          /\ \A op \in 1..Len(request) : request'[op] = request[op]
      BY <1>2, Grows DEF PublishInv, Actor, Next
    <2>1. ASSUME NEW q \in Proc, q # p PROVE PublishesFirst(q)'
      <3>1. /\ pc'[q] = pc[q] /\ job'[q] = job[q]
            /\ Busy(q) => request'[job[q].op] = request[job[q].op]
        BY <1>2, <2>1, OthersStay
      <3>2. PublishesFirst(q)
        BY DEF PublishInv
      <3>3. CASE ~Busy(q)
        BY <3>1, <3>3 DEF Busy, PublishesFirst, Window
      <3>4. CASE Busy(q)
        <4>1. ASSUME NEW u, u \notin Elsewhere, Published(u) PROVE Published(u)'
          BY <1>2, <2>0, <4>1, PublishedStays
        <4>2. ASSUME NEW u, u = request[job[q].op].arg, pc'[q] \in Window \cup {"load"},
                     Kindof(job[q].op) = "post", u \notin Elsewhere
              PROVE  Published(u)'
          BY <3>1, <3>2, <4>1, <4>2 DEF PublishesFirst
        <4> QED BY <3>1, <3>2, <3>4, <4>2 DEF PublishesFirst, Kindof
      <3> QED BY <3>3, <3>4
    <2>2. PublishesFirst(p)'
      <3>1. CASE Start(p)
        BY <3>1, Started DEF BeginsAs, Begins, PublishesFirst, Kindof, Window
      <3>2. CASE OpenArtifact(p)
        BY <1>0, <2>0, <3>2 DEF OpenArtifact, Goto, PublishesFirst, Kindof, Window
      <3>3. CASE WriteArtifact(p)
        <4>1. /\ request[job[p].op].arg \in feed' \cup Elsewhere
              /\ UNCHANGED <<job, request>> /\ pc'[p] = "load"
          BY <1>0, <3>3 DEF WriteArtifact, Filed, Goto
        <4> QED BY <4>1 DEF PublishesFirst, Published
      <3>4. CASE Load(p) \/ OpenStaged(p) \/ WriteStaged(p)
        <4>1. /\ pc[p] \in Window \cup {"load"} /\ pc'[p] \in Window
              /\ job'[p].op = job[p].op /\ request' = request
          BY <1>0, <3>4 DEF Load, OpenStaged, WriteStaged, Goto, Window, TypeInv, TypeOK, ControlOK
        <4>2. ASSUME NEW u, u = request[job[p].op].arg, Kindof(job[p].op) = "post",
                     u \notin Elsewhere
              PROVE  Published(u)'
          BY <1>2, <2>0, <4>1, <4>2, PublishedStays DEF PublishesFirst
        <4> QED BY <4>1, <4>2 DEF PublishesFirst, Kindof, Window
      <3>5. CASE LoadFails(p) \/ ReplaceVillage(p) \/ ReplaceFails(p)
        BY <1>0, <3>5 DEF LoadFails, ReplaceVillage, ReplaceFails, Goto, Saved, PublishesFirst, Window
      <3>6. CASE Record(p)
        <4>1. pc'[p] \in Recording \cup {"idle"}
          BY <1>0, <3>6 DEF Record, AppendHistory, AppendAudit, MirrorAudit, AppendLog, MirrorLog,
                            WriteLedger, Goto, Audited, Ledgered, Recording
        <4> QED BY <4>1 DEF PublishesFirst, Recording, Window
      <3>7. CASE Fault(p)
        BY <1>0, <3>7 DEF Fault, RecordFails, Ledgered, Crash, Goto, PublishesFirst, Window
      <3> QED BY <1>2, <3>1, <3>2, <3>3, <3>4, <3>5, <3>6, <3>7 DEF Actor, Save
    <2>3. AppliedIsPublished'
      <3>1. AppliedIsPublished' <=> (\A i \in 1..Len(installed) : \A u :
              Kindof(installed[i].op) = "post" /\ u = request[installed[i].op].arg =>
                u \in Elsewhere \/ Published(u))'
        BY PublishedIs, PTL
      <3>2. SUFFICES ASSUME NEW i \in 1..Len(installed'), NEW u,
                            request'[installed'[i].op].kind = "post",
                            u = request'[installed'[i].op].arg, u \notin Elsewhere
                     PROVE  Published(u)'
        BY <3>1 DEF Kindof
      <3>3. CASE i \in 1..Len(installed) /\ installed'[i] = installed[i]
        <4>1. request'[installed[i].op] = request[installed[i].op]
          BY <2>0, <3>3 DEF OpsOK
        <4>2. Published(u)
          BY <3>2, <3>3, <4>1, PublishedIs DEF PublishInv, Kindof
        <4> QED BY <1>2, <2>0, <3>2, <4>2, PublishedStays
      <3>4. CASE ~(i \in 1..Len(installed) /\ installed'[i] = installed[i])
        <4>1. PICK q \in Proc : ReplaceVillage(q)
          BY <2>0, <3>4, Unmoved
        <4>2. PICK k \in 1..Len(installed') :
                /\ installed'[k].op = job[q].op
                /\ \A n \in 1..Len(installed') : n # k => n \in 1..Len(installed)
          BY <4>1, Installs
        <4>3. installed'[i].op = job[q].op /\ request' = request /\ pc[q] = "replace"
          BY <2>0, <3>4, <4>1, <4>2, Grows DEF ReplaceVillage
        <4>4. Published(u)
          BY <3>2, <4>3 DEF PublishInv, PublishesFirst, Kindof, Window
        <4> QED BY <1>2, <2>0, <3>2, <4>4, PublishedStays
      <3> QED BY <3>3, <3>4
    <2> QED BY <2>1, <2>2, <2>3 DEF PublishInv
  <1> QED BY <1>1, <1>2 DEF Next, Actor

LEMMA InitRecords == Init => NothingUnrecorded /\ PublishInv
  <1> SUFFICES ASSUME Init PROVE NothingUnrecorded /\ PublishInv
    OBVIOUS
  <1>1. 1..Len(installed) = {}
    BY DEF Init
  <1>2. NothingUnrecorded /\ AppliedIsPublished
    BY <1>1, Zenon DEF NothingUnrecorded, AppliedIsPublished
  <1>3. \A p \in Proc : PublishesFirst(p)
    BY DEF PublishesFirst, Init, Window
  <1> QED BY <1>2, <1>3 DEF PublishInv

LEMMA OpsInvariant == Spec => []OpsOK
  <1>1. TruthfulInv => OpsOK
    BY DEF TruthfulInv
  <1> QED BY <1>1, TruthInvariant, PTL

\* What is applied is on record: it reaches every trail that is kept, each trail
\* repeats the earlier ones, and a POST can be read in the feed of this village,
\* if that is the one it names; whatever overlaps, only a fault of the request
\* itself excuses a gap, a failed append of the transparency log included.
THEOREM RecordsAreComplete == Spec => []RecordsComplete
  <1>1. TypeInv /\ OpsOK /\ NothingUnrecorded /\ PublishInv /\ [Next]_vars
          => NothingUnrecorded' /\ PublishInv'
    BY UnrecordedStep, PublishStep
  <1>2. NothingUnrecorded /\ PublishInv /\ NestInv => RecordsComplete
    BY DEF PublishInv, NestInv, RecordsComplete
  <1> QED BY InitRecords, <1>1, <1>2, NestInvariant, OpsInvariant, TypeInvariant, PTL DEF Spec

-----------------------------------------------------------------------------
(* A rollback restores what was recorded *)

\* Some request other than a rollback introduced the policy.
Introduced(pol) ==
  \E i \in 1..Len(history) : history[i].policy = pol /\ Kindof(history[i].op) # "rollback"

\* A rollback has such a policy in hand from its start.
RestoresIntroduced(p) ==
  Busy(p) /\ Kindof(job[p].op) = "rollback" => Introduced(job[p].policy)

RollbackInv == (\A p \in Proc : RestoresIntroduced(p)) /\ RollbackRestoresRecorded

\* Every row's policy was introduced by a row at or before it.
LEMMA RecordedIsIntroduced ==
  ASSUME RollbackRestoresRecorded, history \in Seq(Row), NEW j \in 1..Len(history)
  PROVE  Introduced(history[j].policy)
  <1>1. CASE Kindof(history[j].op) = "rollback"
    <2>1. PICK i \in 1..(j - 1) : /\ history[i].policy = history[j].policy
                                  /\ Kindof(history[i].op) # "rollback"
      BY <1>1 DEF RollbackRestoresRecorded
    <2>2. i \in 1..Len(history)
      OBVIOUS
    <2> QED BY <2>1, <2>2 DEF Introduced
  <1>2. CASE Kindof(history[j].op) # "rollback"
    BY <1>2 DEF Introduced
  <1> QED BY <1>1, <1>2

\* History is only appended to, and the kinds of its requests stay.
LEMMA HistoryGrows ==
  ASSUME TypeInv, RowsOK, [Next]_vars
  PROVE  /\ \A i \in 1..Len(history) : /\ i \in 1..Len(history') /\ history'[i] = history[i]
                                       /\ Kindof(history[i].op) = request'[history[i].op].kind
         /\ \A i \in 1..Len(history') : i \notin 1..Len(history) =>
              /\ i = Len(history) + 1 /\ Len(history) \in Nat
              /\ \E p \in Proc : AppendHistory(p) /\ history'[i] = RowOf(p)
  <1>0. history \in Seq(Row)
    BY DEF TypeInv, TypeOK, TrailsOK
  <1>1. \A i \in 1..Len(history) : Kindof(history[i].op) = request'[history[i].op].kind
    BY Grows DEF RowsOK, Rows, Kindof
  <1>2. CASE UNCHANGED history
    BY <1>1, <1>2
  <1>3. ASSUME NEW p \in Proc, AppendHistory(p)
        PROVE  /\ \A i \in 1..Len(history) : i \in 1..Len(history') /\ history'[i] = history[i]
               /\ \A i \in 1..Len(history') : i \notin 1..Len(history) =>
                    i = Len(history) + 1 /\ Len(history) \in Nat /\ history'[i] = RowOf(p)
    <2>1. history' = Append(history, RowOf(p))
      BY <1>3 DEF AppendHistory
    <2> QED BY <1>0, <2>1
  <1> QED BY <1>1, <1>2, <1>3, Unmoved

LEMMA IntroducedStays ==
  ASSUME TypeInv, RowsOK, [Next]_vars, NEW pol, Introduced(pol)
  PROVE  Introduced(pol)'
  <1>1. PICK i \in 1..Len(history) : history[i].policy = pol /\ Kindof(history[i].op) # "rollback"
    BY DEF Introduced
  <1>2. /\ i \in 1..Len(history') /\ history'[i] = history[i]
        /\ Kindof(history[i].op) = request'[history[i].op].kind
    BY HistoryGrows
  <1> QED BY <1>1, <1>2 DEF Introduced, Kindof

LEMMA RollbackStep ==
  ASSUME TypeInv, RowsOK, RollbackInv, [Next]_vars
  PROVE  RollbackInv'
  <1>0. /\ pc \in [Proc -> Step] /\ history \in Seq(Row)
        /\ \A p \in Proc : Busy(p) => job[p].op \in 1..Len(request)
    BY DEF TypeInv, TypeOK, ControlOK, TrailsOK, JobOK
  <1>1. CASE UNCHANGED vars
    <2>1. UNCHANGED <<pc, job, request, history>>
      BY <1>1 DEF vars, trails
    <2> QED BY <2>1 DEF RollbackInv, RestoresIntroduced, Introduced, RollbackRestoresRecorded, Busy, Kindof
  <1>2. ASSUME NEW p \in Proc, Actor(p) PROVE \A q \in Proc : RestoresIntroduced(q)'
    <2>1. ASSUME NEW q \in Proc, q # p PROVE RestoresIntroduced(q)'
      <3>1. /\ pc'[q] = pc[q] /\ job'[q] = job[q]
            /\ Busy(q) => request'[job[q].op] = request[job[q].op]
        BY <1>2, <2>1, OthersStay
      <3>2. ASSUME NEW pol, pol = job[q].policy, Busy(q), Kindof(job[q].op) = "rollback"
            PROVE  Introduced(pol)'
        BY <3>2, IntroducedStays DEF RollbackInv, RestoresIntroduced
      <3> QED BY <3>1, <3>2 DEF RestoresIntroduced, Busy, Kindof
    <2>2. RestoresIntroduced(p)'
      <3>1. CASE Start(p)
        <4>1. SUFFICES ASSUME NEW pol, pol = job'[p].policy, request'[job'[p].op].kind = "rollback"
                       PROVE  Introduced(pol)'
          BY DEF RestoresIntroduced, Kindof
        <4>2. PICK i \in 1..Len(history) : pol = history[i].policy
          BY <3>1, <4>1, Started DEF BeginsAs, Begins
        <4>3. Introduced(pol)
          BY <1>0, <4>2, RecordedIsIntroduced DEF RollbackInv
        <4> QED BY <4>3, IntroducedStays
      <3>2. CASE ~Start(p) /\ Busy(p)
        <4>1. request' = request /\ job'[p].op = job[p].op
          BY <1>2, <3>2 DEF Actor, Save, OpenArtifact, WriteArtifact, Load, LoadFails, OpenStaged,
               WriteStaged, ReplaceVillage, ReplaceFails, Record, AppendHistory, AppendAudit,
               MirrorAudit, AppendLog, MirrorLog, WriteLedger, Fault, RecordFails, Crash, Interrupt,
               TypeInv, TypeOK, ControlOK
        <4>2. Kindof(job[p].op) = "rollback" => job'[p].policy = job[p].policy
          <5>1. CASE Load(p)
            BY <1>0, <5>1 DEF Load, Edited, Kindof, TypeInv, TypeOK, ControlOK
          <5>2. CASE ~Load(p)
            BY <1>2, <3>2, <5>2 DEF Actor, Save, OpenArtifact, WriteArtifact, LoadFails, OpenStaged,
                 WriteStaged, ReplaceVillage, ReplaceFails, Record, AppendHistory, AppendAudit,
                 MirrorAudit, AppendLog, MirrorLog, WriteLedger, Fault, RecordFails, Crash, Interrupt
          <5> QED BY <5>1, <5>2
        <4>3. ASSUME NEW pol, pol = job[p].policy, Kindof(job[p].op) = "rollback"
              PROVE  Introduced(pol)'
          BY <3>2, <4>3, IntroducedStays DEF RollbackInv, RestoresIntroduced
        <4> QED BY <4>1, <4>2, <4>3 DEF RestoresIntroduced, Kindof
      <3>3. CASE ~Start(p) /\ ~Busy(p)
        BY <1>2, <3>3 DEF Actor, Busy, Save, OpenArtifact, WriteArtifact, Load, LoadFails, OpenStaged,
               WriteStaged, ReplaceVillage, ReplaceFails, Record, AppendHistory, AppendAudit,
               MirrorAudit, AppendLog, MirrorLog, WriteLedger, Fault, RecordFails, Crash
      <3> QED BY <3>1, <3>2, <3>3
    <2> QED BY <2>1, <2>2
  <1>3. RollbackRestoresRecorded'
    <2>1. SUFFICES ASSUME NEW j \in 1..Len(history'), request'[history'[j].op].kind = "rollback"
                   PROVE  \E i \in 1..(j - 1) : /\ history'[i].policy = history'[j].policy
                                                /\ request'[history'[i].op].kind # "rollback"
      BY DEF RollbackRestoresRecorded, Kindof
    <2>2. ASSUME NEW i \in 1..Len(history), Kindof(history[i].op) # "rollback"
          PROVE  history'[i] = history[i] /\ request'[history'[i].op].kind # "rollback"
      BY <2>2, HistoryGrows DEF RollbackInv
    <2>3. CASE j \in 1..Len(history)
      <3>1. history'[j] = history[j] /\ Kindof(history[j].op) = "rollback"
        BY <2>1, <2>3, HistoryGrows
      <3>2. PICK i \in 1..(j - 1) : /\ history[i].policy = history[j].policy
                                    /\ Kindof(history[i].op) # "rollback"
        BY <2>3, <3>1 DEF RollbackInv, RollbackRestoresRecorded
      <3>3. i \in 1..Len(history)
        BY <1>0, <2>3
      <3> QED BY <2>2, <3>1, <3>2, <3>3
    <2>4. CASE j \notin 1..Len(history)
      <3>1. PICK p \in Proc : AppendHistory(p) /\ history'[j] = RowOf(p)
        BY <2>4, HistoryGrows
      <3>2. j = Len(history) + 1 /\ Len(history) \in Nat
        BY <2>4, HistoryGrows
      <3>3. /\ Busy(p) /\ Kindof(job[p].op) = "rollback"
            /\ history'[j].policy = job[p].policy
        BY <2>1, <3>1 DEF AppendHistory, RowOf, Busy, Kindof
      <3>4. PICK i \in 1..Len(history) : /\ history[i].policy = job[p].policy
                                         /\ Kindof(history[i].op) # "rollback"
        BY <3>3 DEF RollbackInv, RestoresIntroduced, Introduced
      <3> QED BY <2>2, <3>2, <3>3, <3>4
    <2> QED BY <2>3, <2>4
  <1> QED BY <1>1, <1>2, <1>3 DEF RollbackInv, Next, Actor

-----------------------------------------------------------------------------
(* One request at a time *)

Solo == \A p, q \in Proc : Busy(p) /\ Busy(q) => p = q

\* The document is the one under which the request in hand was checked.
AsSeen(p) ==
  pc[p] \in Before \cup Window /\ Kindof(job[p].op) \in {"post", "pull"} =>
    request[job[p].op].seen = village

SoloInv == ~overlapped => Solo /\ ~raced /\ \A p \in Proc : AsSeen(p)

\* Without a race only a rename changes the document.
LEMMA VillageStays ==
  ASSUME TypeInv, SaveInv, ~raced, NEW p \in Proc, Actor(p), ~ReplaceVillage(p)
  PROVE  village' = village
  <1>1. CASE Start(p)
    BY <1>1, Started DEF Begins, files
  <1>2. CASE Save(p)
    <2>1. CASE WriteStaged(p)
      <3>1. handle[p] = "staged"
        BY <2>1 DEF WriteStaged, SaveInv, WindowOK, Window
      <3> QED BY <2>1, <3>1 DEF WriteStaged, Fill
    <2>2. CASE ~WriteStaged(p)
      BY <1>2, <2>2 DEF Save, OpenArtifact, WriteArtifact, Load, LoadFails, OpenStaged, ReplaceFails,
                        files
    <2> QED BY <2>1, <2>2
  <1>3. CASE Record(p)
    BY <1>3 DEF Record, AppendHistory, AppendAudit, MirrorAudit, AppendLog, MirrorLog, WriteLedger,
                files
  <1>4. CASE RecordFails(p)
    BY <1>4 DEF RecordFails, files
  <1>5. CASE Crash(p)
    <2>1. handle[p] \in {"closed", "staged"}
      BY <1>5 DEF SaveInv, HandlesOK, WindowOK, Window
    <2> QED BY <1>5, <2>1 DEF Crash, Fill
  <1> QED BY <1>1, <1>2, <1>3, <1>4, <1>5 DEF Actor, Fault

\* While requests do not overlap, the actor is the only process at work.
LEMMA ActsAlone ==
  ASSUME TypeInv, SaveInv, SoloInv, NEW p \in Proc, Actor(p), ~overlapped'
  PROVE  /\ ~overlapped /\ ~raced /\ Readable
         /\ \A q \in Proc \ {p} : ~Busy(q) /\ pc'[q] = "idle"
         /\ ~ReplaceVillage(p) => village' = village
  <1>1. CASE Start(p)
    <2>1. ~overlapped /\ \A q \in Proc \ {p} : ~Busy(q)
      BY <1>1, Started DEF Begins
    <2>2. \A q \in Proc \ {p} : pc'[q] = "idle"
      BY <2>1, OthersStay DEF Busy
    <2> QED BY <2>1, <2>2, VillageStays DEF SoloInv, SaveInv
  <1>2. CASE ~Start(p)
    <2>1. Busy(p) /\ overlapped' = overlapped
      BY <1>2 DEF Actor, Busy, Save, OpenArtifact, WriteArtifact, Load, LoadFails, OpenStaged,
           WriteStaged, ReplaceVillage, ReplaceFails, Record, AppendHistory, AppendAudit,
           MirrorAudit, AppendLog, MirrorLog, WriteLedger, Fault, RecordFails, Crash, Interrupt,
           observed
    <2>2. \A q \in Proc \ {p} : ~Busy(q)
      BY <2>1 DEF SoloInv, Solo
    <2>3. \A q \in Proc \ {p} : pc'[q] = "idle"
      BY <2>2, OthersStay DEF Busy
    <2> QED BY <2>1, <2>2, <2>3, VillageStays DEF SoloInv, SaveInv
  <1> QED BY <1>1, <1>2

\* Where a handler goes on its way to the rename, if it is not there yet.
LEMMA SaveMoves ==
  ASSUME TypeInv, NEW p \in Proc, Actor(p), ~Start(p), pc'[p] \in Before \cup Window
  PROVE  /\ Save(p) /\ ~ReplaceVillage(p)
         /\ pc[p] \in Before \cup Window
         /\ job'[p].op = job[p].op /\ request' = request
         /\ Kindof(job[p].op) \notin IssuerKind => job'[p].policy = job[p].policy
  <1>0. pc \in [Proc -> Step] /\ job \in [Proc -> [op: Nat, policy: Known, base: Known]]
    BY DEF TypeInv, TypeOK, ControlOK
  <1>1. CASE Save(p)
    <2>1. CASE Load(p)
      BY <1>0, <1>1, <2>1 DEF Load, ReplaceVillage, Edited, IssuerKind, Kindof, Before
    <2>2. CASE ReplaceVillage(p)
      BY <1>0, <2>2 DEF ReplaceVillage, Goto, Saved, Before, Window
    <2>3. CASE ~Load(p) /\ ~ReplaceVillage(p)
      BY <1>1, <2>3 DEF Save, OpenArtifact, WriteArtifact, LoadFails, OpenStaged, WriteStaged,
                        ReplaceFails, Before, Window
    <2> QED BY <2>1, <2>2, <2>3
  <1>2. CASE Record(p)
    BY <1>0, <1>2 DEF Record, AppendHistory, AppendAudit, MirrorAudit, AppendLog, MirrorLog,
                      WriteLedger, Goto, Audited, Ledgered, Before, Window
  <1>3. CASE Fault(p)
    BY <1>0, <1>3 DEF Fault, RecordFails, Ledgered, Crash, Goto, Before, Window
  <1> QED BY <1>1, <1>2, <1>3 DEF Actor

LEMMA SoloStep ==
  ASSUME TypeInv, SaveInv, SoloInv, [Next]_vars
  PROVE  SoloInv'
  <1>1. CASE UNCHANGED vars
    <2>1. UNCHANGED <<pc, job, request, village, overlapped, raced>>
      BY <1>1 DEF vars, files, observed
    <2> QED BY <2>1 DEF SoloInv, Solo, AsSeen, Busy, Kindof
  <1>2. ASSUME NEW p \in Proc, Actor(p), ~overlapped' PROVE Solo' /\ ~raced' /\ \A q \in Proc : AsSeen(q)'
    <2>1. /\ ~overlapped /\ ~raced /\ Readable
          /\ \A q \in Proc \ {p} : ~Busy(q) /\ pc'[q] = "idle"
          /\ ~ReplaceVillage(p) => village' = village
      BY <1>2, ActsAlone
    <2>2. Solo'
      BY <2>1 DEF Solo, Busy
    <2>3. ~raced'
      <3>1. CASE Start(p)
        BY <2>1, <3>1, Started DEF Begins
      <3>2. CASE Load(p)
        BY <2>1, <3>2 DEF Load, Busy, Window
      <3>3. CASE ~Start(p) /\ ~Load(p)
        BY <1>2, <2>1, <3>3 DEF Actor, Save, OpenArtifact, WriteArtifact, LoadFails, OpenStaged,
             WriteStaged, ReplaceVillage, ReplaceFails, Record, AppendHistory, AppendAudit,
             MirrorAudit, AppendLog, MirrorLog, WriteLedger, Fault, RecordFails, Crash, Interrupt,
             observed
      <3> QED BY <3>1, <3>2, <3>3
    <2>4. AsSeen(p)'
      <3>1. SUFFICES ASSUME pc'[p] \in Before \cup Window,
                            request'[job'[p].op].kind \in {"post", "pull"}
                     PROVE  request'[job'[p].op].seen = village'
        BY DEF AsSeen, Kindof
      <3>2. CASE Start(p)
        <4>1. village' = village
          BY <3>2, Started DEF Begins, files
        <4> QED BY <2>1, <3>1, <3>2, <4>1, Started DEF Begins, BeginsAs
      <3>3. CASE ~Start(p)
        BY <1>2, <2>1, <3>1, <3>3, SaveMoves DEF SoloInv, AsSeen, Kindof
      <3> QED BY <3>2, <3>3
    <2>5. \A q \in Proc \ {p} : AsSeen(q)'
      BY <2>1 DEF AsSeen, Before, Window
    <2> QED BY <2>2, <2>3, <2>4, <2>5
  <1>3. CASE Next
    BY <1>2, <1>3 DEF Next, Actor, SoloInv
  <1> QED BY <1>1, <1>3

LEMMA CheckedStep ==
  ASSUME TypeInv, SaveInv, SoloInv, OpsOK, CheckedUnderReplaced, [Next]_vars
  PROVE  CheckedUnderReplaced'
  <1>1. SUFFICES ASSUME ~overlapped', NEW i \in 1..Len(installed'),
                        request'[installed'[i].op].kind \in {"post", "pull"}
                 PROVE  installed'[i].over = request'[installed'[i].op].seen
    BY DEF CheckedUnderReplaced
  <1>2. ~overlapped
    <2>1. CASE UNCHANGED vars
      BY <1>1, <2>1 DEF vars, observed
    <2>2. CASE Next
      BY <1>1, <2>2, ActsAlone DEF Next, Actor
    <2> QED BY <2>1, <2>2
  <1>3. CASE i \in 1..Len(installed) /\ installed'[i] = installed[i]
    <2>1. request'[installed[i].op] = request[installed[i].op]
      BY <1>3, Grows DEF OpsOK
    <2> QED BY <1>1, <1>2, <1>3, <2>1 DEF CheckedUnderReplaced
  <1>4. CASE ~(i \in 1..Len(installed) /\ installed'[i] = installed[i])
    <2>1. PICK p \in Proc : ReplaceVillage(p)
      BY <1>4, Unmoved
    <2>2. PICK k \in 1..Len(installed') :
            /\ installed'[k].op = job[p].op /\ installed'[k].over = village
            /\ \A n \in 1..Len(installed') : n # k => n \in 1..Len(installed)
      BY <2>1, Installs
    <2>3. i = k /\ request' = request /\ pc[p] = "replace"
      BY <1>4, <2>1, <2>2, Grows DEF ReplaceVillage
    <2>4. AsSeen(p)
      BY <1>2 DEF SoloInv
    <2> QED BY <1>1, <2>2, <2>3, <2>4 DEF AsSeen, Kindof, Window
  <1> QED BY <1>3, <1>4

LEMMA InitSolo == Init => RollbackInv /\ SoloInv /\ CheckedUnderReplaced
  <1> SUFFICES ASSUME Init PROVE RollbackInv /\ SoloInv /\ CheckedUnderReplaced
    OBVIOUS
  <1>1. 1..Len(installed) = {} /\ 1..Len(history) = {} /\ ~raced /\ \A p \in Proc : pc[p] = "idle"
    BY DEF Init
  <1>2. RollbackRestoresRecorded /\ CheckedUnderReplaced
    BY <1>1, Zenon DEF RollbackRestoresRecorded, CheckedUnderReplaced
  <1>3. \A p \in Proc : RestoresIntroduced(p) /\ AsSeen(p) /\ ~Busy(p)
    BY <1>1 DEF RestoresIntroduced, AsSeen, Busy, Before, Window
  <1> QED BY <1>1, <1>2, <1>3 DEF RollbackInv, SoloInv, Solo

LEMMA SoloInvariant == Spec => []SoloInv
  <1>1. TypeInv /\ SaveInv /\ SoloInv /\ [Next]_vars => SoloInv'
    BY SoloStep
  <1> QED BY InitSolo, <1>1, TypeInvariant, SaveInvariant, PTL DEF Spec

\* What a request relied on when it began holds of what it installs: without
\* overlapping requests an update replaces the very policy that its signatures
\* were checked under, and at all times a rollback restores a policy that some
\* request other than a rollback introduced.
THEOREM ChecksStillHold == Spec => []InstalledAsChecked
  <1>1. NestInv => RowsOK
    BY DEF NestInv
  <1>2. TypeInv /\ RowsOK /\ RollbackInv /\ [Next]_vars => RollbackInv'
    BY RollbackStep
  <1>3. TypeInv /\ SaveInv /\ SoloInv /\ OpsOK /\ CheckedUnderReplaced /\ [Next]_vars
          => CheckedUnderReplaced'
    BY CheckedStep
  <1>4. RollbackInv /\ CheckedUnderReplaced => InstalledAsChecked
    BY DEF RollbackInv, InstalledAsChecked
  <1> QED BY InitSolo, <1>1, <1>2, <1>3, <1>4, SoloInvariant, NestInvariant, OpsInvariant,
             SaveInvariant, TypeInvariant, PTL DEF Spec

-----------------------------------------------------------------------------
(* The newest row *)

\* A handler that has saved installed the newest policy, and it is in force.
NewestIs(p) ==
  pc[p] \in Recording \cup {"history"} =>
    installed # <<>> /\ Last(installed).op = job[p].op /\ village = job[p].policy

\* A handler that has not saved has no row yet.
Fresh(p) == pc[p] \in Before \cup Window => job[p].op \notin Ops(history) \cup Ops(dbHistory)

NewestInv == (~overlapped => \A p \in Proc : NewestIs(p) /\ Fresh(p)) /\ LastRowIsActive

\* What the actor has recorded and installed when its step is done.
LEMMA NewestStep ==
  ASSUME TypeInv, SaveInv, SoloInv, NestInv, NewestInv, NEW p \in Proc, Actor(p), ~overlapped'
  PROVE  NewestIs(p)' /\ Fresh(p)' /\ LastRowIsActive'
  <1>0. /\ pc \in [Proc -> Step] /\ job \in [Proc -> [op: Nat, policy: Known, base: Known]]
        /\ history \in Seq(Row) /\ dbHistory \in Seq(Row)
    BY DEF TypeInv, TypeOK, ControlOK, TrailsOK, TablesOK
  <1>1. /\ ~overlapped /\ ~raced
        /\ ~ReplaceVillage(p) => village' = village
    BY ActsAlone
  <1>2. NewestIs(p) /\ Fresh(p)
    BY <1>1 DEF NewestInv
  <1>3. ASSUME UNCHANGED <<installed, trails, tables, village>> PROVE LastRowIsActive'
    BY <1>1, <1>3 DEF NewestInv, LastRowIsActive, trails, tables
  <1>4. ASSUME pc'[p] \notin Recording \cup {"history"} PROVE NewestIs(p)'
    BY <1>4 DEF NewestIs
  <1>5. ASSUME pc'[p] \notin Before \cup Window PROVE Fresh(p)'
    BY <1>5 DEF Fresh
  <1>6. ASSUME UNCHANGED <<trails, tables>>, job'[p].op = job[p].op, pc[p] \in Before \cup Window
        PROVE  Fresh(p)'
    BY <1>2, <1>6 DEF Fresh, trails, tables
  <1>7. CASE Start(p)
    <2>1. /\ UNCHANGED <<installed, trails, tables, files>> /\ job'[p].op = Len(request) + 1
          /\ pc'[p] \in {"publish", "load"} /\ Len(request) \in Nat
      BY <1>7, Started DEF Begins, BeginsAs
    <2>2. Rows(dbHistory) \subseteq Rows(history)
      BY DEF NestInv, TrailsNest
    <2>3. Len(request) + 1 \notin Ops(history)
      BY <2>1 DEF NestInv, RowsOK, Ops, Rows
    <2>4. Len(request) + 1 \notin Ops(dbHistory)
      BY <2>1, <2>2 DEF NestInv, RowsOK, Ops, Rows
    <2>5. Fresh(p)'
      BY <2>1, <2>3, <2>4 DEF Fresh, trails, tables
    <2> QED BY <1>3, <1>4, <2>1, <2>5 DEF files, Recording
  <1>8. CASE ReplaceVillage(p)
    <2> DEFINE row == [op |-> job[p].op, content |-> staged, over |-> village]
    <2>1. installed' = Append(installed, row) /\ village' = staged /\ pc[p] = "replace"
      BY <1>8 DEF ReplaceVillage
    <2>2. staged = job[p].policy
      BY <1>1, <2>1 DEF SaveInv, WindowOK, Window
    <2>3. installed \in Seq([op: Nat, content: Content, over: Content]) /\ row.op = job[p].op
      BY DEF TypeInv, TypeOK, ObservedOK
    <2>4. installed' # <<>> /\ Last(installed') = row
      <3> HIDE DEF row
      <3> QED BY <2>1, <2>3 DEF Last
    <2>5. job' = job /\ UNCHANGED <<trails, tables>>
      BY <1>8 DEF ReplaceVillage
    <2>6. NewestIs(p)'
      BY <2>1, <2>2, <2>3, <2>4, <2>5 DEF NewestIs, Last
    <2>7. job[p].op \notin Ops(history) \cup Ops(dbHistory)
      BY <1>2, <2>1 DEF Fresh, Window
    <2>8. LastRowIsActive'
      BY <2>3, <2>4, <2>5, <2>7 DEF LastRowIsActive, trails, tables, Last, Ops
    <2>9. pc'[p] \notin Before \cup Window
      BY <1>0, <1>8 DEF ReplaceVillage, Goto, Saved, Before, Window
    <2> QED BY <1>5, <2>6, <2>8, <2>9
  <1>9. CASE Save(p) /\ ~ReplaceVillage(p)
    <2>1. UNCHANGED <<installed, trails, tables>>
      BY <1>9 DEF Save, OpenArtifact, WriteArtifact, Load, LoadFails, OpenStaged, WriteStaged,
                  ReplaceFails, observed
    <2>2. /\ pc[p] \in Before \cup Window /\ job'[p].op = job[p].op
          /\ pc'[p] \notin Recording \cup {"history"}
      BY <1>0, <1>9 DEF Save, OpenArtifact, WriteArtifact, Load, LoadFails, OpenStaged, WriteStaged,
                        ReplaceFails, Goto, Before, Window, Recording
    <2> QED BY <1>1, <1>3, <1>4, <1>6, <1>9, <2>1, <2>2
  <1>10. CASE Fault(p)
    <2>1. UNCHANGED <<installed, trails, tables>> /\ job' = job
      BY <1>10 DEF Fault, RecordFails, Crash, Interrupt
    <2>2. pc'[p] = "idle" \/ (pc[p] \in Recording /\ pc'[p] = "ledger")
      BY <1>0, <1>10 DEF Fault, RecordFails, Ledgered, Crash, Goto, Recording
    <2>3. ~ReplaceVillage(p)
      BY <1>10 DEF ReplaceVillage, Fault, RecordFails, Crash, Interrupt, Goto, Saved, TypeInv, TypeOK,
                   ObservedOK
    <2>4. NewestIs(p)'
      BY <1>1, <1>2, <2>1, <2>2, <2>3 DEF NewestIs, Last, Recording
    <2> QED BY <1>1, <1>3, <1>5, <2>1, <2>2, <2>3, <2>4 DEF Before, Window
  <1>11. CASE Record(p)
    <2>1. /\ UNCHANGED <<installed, village, job>> /\ pc[p] \in Recording \cup {"history"}
          /\ pc'[p] \in Recording \cup {"idle"}
      BY <1>0, <1>11 DEF Record, AppendHistory, AppendAudit, MirrorAudit, AppendLog, MirrorLog,
                        WriteLedger, Goto, Audited, Ledgered, files, observed, Recording
    <2>2. NewestIs(p)' /\ Fresh(p)'
      BY <1>2, <2>1 DEF NewestIs, Fresh, Last, Recording, Before, Window
    <2>3. /\ RowOf(p) \in Row /\ RowOf(p) = [op |-> Last(installed).op, policy |-> village]
          /\ job[p].policy = village
      BY <1>2, <2>1, InHand DEF NewestIs, RowOf, Busy, Recording
    <2>4. CASE AppendHistory(p)
      <3>1. Last(history') = RowOf(p) /\ UNCHANGED <<dbHistory, dbPolicy>>
        BY <1>0, <2>3, <2>4, RowsAppend DEF AppendHistory, tables
      <3> QED BY <1>1, <2>1, <2>2, <2>3, <3>1 DEF NewestInv, LastRowIsActive
    <2>5. CASE WriteLedger(p)
      BY <1>1, <2>1, <2>2, <2>3, <2>5 DEF NewestInv, LastRowIsActive, WriteLedger, trails
    <2>6. CASE AppendAudit(p) \/ MirrorAudit(p) \/ AppendLog(p) \/ MirrorLog(p)
      <3>1. UNCHANGED <<history, dbHistory, dbPolicy>>
        BY <2>6 DEF AppendAudit, MirrorAudit, AppendLog, MirrorLog, trails, tables
      <3> QED BY <1>1, <2>1, <2>2, <3>1 DEF NewestInv, LastRowIsActive
    <2> QED BY <1>11, <2>2, <2>4, <2>5, <2>6 DEF Record
  <1> QED BY <1>7, <1>8, <1>9, <1>10, <1>11 DEF Actor

LEMMA NewestKept ==
  ASSUME TypeInv, SaveInv, SoloInv, NestInv, NewestInv, [Next]_vars
  PROVE  NewestInv'
  <1>1. CASE UNCHANGED vars
    <2>1. UNCHANGED <<pc, job, installed, village, history, dbHistory, dbPolicy, overlapped>>
      BY <1>1 DEF vars, files, trails, tables, observed
    <2> QED BY <2>1 DEF NewestInv, NewestIs, Fresh, LastRowIsActive
  <1>2. ASSUME NEW p \in Proc, Actor(p), ~overlapped'
        PROVE  (\A q \in Proc : NewestIs(q)' /\ Fresh(q)') /\ LastRowIsActive'
    <2>1. \A q \in Proc \ {p} : pc'[q] = "idle"
      BY <1>2, ActsAlone
    <2>2. \A q \in Proc \ {p} : NewestIs(q)' /\ Fresh(q)'
      BY <2>1 DEF NewestIs, Fresh, Recording, Before, Window
    <2> QED BY <1>2, <2>2, NewestStep
  <1>3. overlapped' => LastRowIsActive'
    BY DEF LastRowIsActive
  <1>4. CASE Next
    BY <1>2, <1>3, <1>4 DEF Next, Actor, NewestInv
  <1> QED BY <1>1, <1>4

LEMMA InitNewest == Init => NewestInv
  <1> SUFFICES ASSUME Init PROVE NewestInv
    OBVIOUS
  <1>1. LastRowIsActive
    BY DEF LastRowIsActive, Init
  <1>2. \A p \in Proc : NewestIs(p) /\ Fresh(p)
    BY DEF NewestIs, Fresh, Init, Recording, Before, Window
  <1> QED BY <1>1, <1>2 DEF NewestInv

\* As long as requests do not overlap, the newest row is the policy in force:
\* the last row of policy_history.jsonl names it, and so does policy_state, from
\* the moment the request that installed it has written them.
THEOREM NewestRowIsInForce == Spec => []LastRowIsActive
  <1>1. TypeInv /\ SaveInv /\ SoloInv /\ NestInv /\ NewestInv /\ [Next]_vars => NewestInv'
    BY NewestKept
  <1>2. NewestInv => LastRowIsActive
    BY DEF NewestInv
  <1> QED BY InitNewest, <1>1, <1>2, SoloInvariant, NestInvariant, SaveInvariant, TypeInvariant,
             PTL DEF Spec

-----------------------------------------------------------------------------
(* The promise of PolicyLedger *)

\* What a request that has not saved is to install is what it may install: an
\* update that the document in force accepts, one that is compiled or imported, or
\* a recorded policy.
Genuine(p) ==
  pc[p] \in Before \cup Window =>
    /\ Kindof(job[p].op) \in {"post", "pull"} =>
         \E u \in Accepts[village.body] : job[p].policy = PolicyOf[u]
    /\ Kindof(job[p].op) \in {"compiled", "import"} =>
         \E u \in Update : job[p].policy = PolicyOf[u]
    /\ Kindof(job[p].op) = "rollback" =>
         \E i \in 1..Len(history) : job[p].policy = history[i].policy

GenuineInv == ~overlapped => \A p \in Proc : Genuine(p)

LEMMA GenuineStep ==
  ASSUME TypeInv, SaveInv, SoloInv, GenuineInv, [Next]_vars
  PROVE  GenuineInv'
  <1>1. CASE UNCHANGED vars
    <2>1. UNCHANGED <<pc, job, request, village, history, overlapped>>
      BY <1>1 DEF vars, files, trails, observed
    <2> QED BY <2>1 DEF GenuineInv, Genuine, Kindof
  <1>2. ASSUME NEW p \in Proc, Actor(p), ~overlapped' PROVE \A q \in Proc : Genuine(q)'
    <2>1. /\ ~overlapped /\ Readable
          /\ \A q \in Proc \ {p} : pc'[q] = "idle"
          /\ ~ReplaceVillage(p) => village' = village
      BY <1>2, ActsAlone
    <2>2. \A q \in Proc \ {p} : Genuine(q)'
      BY <2>1 DEF Genuine, Before, Window
    <2>3. CASE Start(p)
      <3>1. Begins(p) /\ BeginsAs(p, request'[Len(request) + 1])
        BY <2>3, Started
      <3>2. UNCHANGED <<village, history>> /\ job'[p].op = Len(request) + 1
        BY <3>1 DEF Begins, files, trails
      <3>3. Genuine(p)'
        BY <2>1, <3>1, <3>2 DEF BeginsAs, Genuine, Kindof
      <3> QED BY <2>2, <3>3
    <2>4. CASE ~Start(p) /\ pc'[p] \in Before \cup Window
      <3>1. /\ Save(p) /\ ~ReplaceVillage(p)
            /\ pc[p] \in Before \cup Window
            /\ job'[p].op = job[p].op /\ request' = request
            /\ Kindof(job[p].op) \notin IssuerKind => job'[p].policy = job[p].policy
        BY <1>2, <2>4, SaveMoves
      <3>2. history' = history
        BY <3>1 DEF Save, OpenArtifact, WriteArtifact, Load, LoadFails, OpenStaged, WriteStaged,
                    ReplaceFails, trails
      <3>3. Genuine(p)
        BY <2>1 DEF GenuineInv
      <3>4. Genuine(p)'
        BY <2>1, <3>1, <3>2, <3>3 DEF Genuine, Kindof, IssuerKind
      <3> QED BY <2>2, <3>4
    <2>5. CASE pc'[p] \notin Before \cup Window
      BY <2>2, <2>5 DEF Genuine
    <2> QED BY <2>3, <2>4, <2>5
  <1>3. CASE Next
    BY <1>2, <1>3 DEF Next, Actor, GenuineInv
  <1> QED BY <1>1, <1>3

\* No more requests are started than MaxRequests, and only they meet faults; one
\* that has not recorded its policy yet has met none, while requests do not overlap.
Unharmed(p) == pc[p] \in Before \cup Window \cup {"history"} => job[p].op \notin interrupted

FaultInv ==
  /\ Len(request) \in 0..MaxRequests /\ interrupted \subseteq 1..Len(request)
  /\ ~overlapped => \A p \in Proc : Unharmed(p)

\* Nothing but a fault marks a request, and it marks the request of its handler.
LEMMA Marks ==
  ASSUME TypeInv, NEW p \in Proc
  PROVE  /\ Start(p) \/ Save(p) \/ Record(p) => interrupted' = interrupted
         /\ Fault(p) => /\ interrupted' = interrupted \cup {job[p].op}
                        /\ pc'[p] \in {"idle", "ledger"}
  <1>1. pc \in [Proc -> Step]
    BY DEF TypeInv, TypeOK, ControlOK
  <1>2. Start(p) => interrupted' = interrupted
    BY Started DEF Begins
  <1>3. Save(p) => interrupted' = interrupted
    BY DEF Save, OpenArtifact, WriteArtifact, Load, LoadFails, OpenStaged, WriteStaged,
           ReplaceVillage, ReplaceFails, observed
  <1>4. Record(p) => interrupted' = interrupted
    BY DEF Record, AppendHistory, AppendAudit, MirrorAudit, AppendLog, MirrorLog, WriteLedger,
           observed
  <1>5. Fault(p) => /\ interrupted' = interrupted \cup {job[p].op}
                    /\ pc'[p] \in {"idle", "ledger"}
    BY <1>1 DEF Fault, RecordFails, Ledgered, Crash, Interrupt, Goto
  <1> QED BY <1>2, <1>3, <1>4, <1>5

LEMMA FaultStep ==
  ASSUME TypeInv, SaveInv, SoloInv, FaultInv, [Next]_vars
  PROVE  FaultInv'
  <1>1. CASE UNCHANGED vars
    <2>1. UNCHANGED <<pc, job, request, interrupted, overlapped>>
      BY <1>1 DEF vars, observed
    <2> QED BY <2>1 DEF FaultInv, Unharmed
  <1>2. ASSUME NEW p \in Proc, Actor(p) PROVE FaultInv'
    <2>1. Len(request') \in 0..MaxRequests /\ Len(request) <= Len(request')
      <3>1. CASE Start(p)
        <4>1. PICK kind \in Kind, arg \in Update \cup Issuer \cup {NoArg}, seen \in Known,
                   target \in Known, at \in {"publish", "load"} :
                     Begin(p, kind, arg, seen, target, at)
          BY <3>1, StartBegins
        <4>2. Len(request) < MaxRequests /\ Len(request') = Len(request) + 1
          BY <4>1, Begun DEF Begin, Begins
        <4> QED BY <4>2, ConstantsAssumption DEF FaultInv
      <3>2. CASE ~Start(p)
        BY <1>2, <3>2, JobStays DEF Actor, FaultInv
      <3> QED BY <3>1, <3>2
    <2>2. interrupted' \subseteq 1..Len(request')
      <3>1. interrupted \subseteq 1..Len(request')
        BY <2>1, ConstantsAssumption DEF FaultInv
      <3>2. CASE Fault(p)
        <4>1. job[p].op \in 1..Len(request')
          BY <2>1, <3>2, JobStays DEF TypeInv, JobOK
        <4> QED BY <3>1, <3>2, <4>1, Marks
      <3>3. CASE ~Fault(p)
        BY <1>2, <3>1, <3>3, Marks DEF Actor
      <3> QED BY <3>2, <3>3
    <2>3. ASSUME ~overlapped' PROVE \A q \in Proc : Unharmed(q)'
      <3>1. ~overlapped /\ \A q \in Proc \ {p} : pc'[q] = "idle"
        BY <1>2, <2>3, ActsAlone
      <3>2. \A q \in Proc \ {p} : Unharmed(q)'
        BY <3>1 DEF Unharmed, Before, Window
      <3>3. CASE Start(p)
        <4>1. interrupted' = interrupted /\ job'[p].op = Len(request) + 1
          BY <3>3, Marks, Started DEF Begins
        <4>2. job'[p].op \notin interrupted'
          BY <4>1, ConstantsAssumption DEF FaultInv
        <4> QED BY <3>2, <4>2 DEF Unharmed
      <3>4. CASE Fault(p)
        BY <3>2, <3>4, Marks DEF Unharmed, Before, Window
      <3>5. CASE Save(p) \/ Record(p)
        <4>1. interrupted' = interrupted /\ job'[p].op = job[p].op
          BY <3>5, Marks, JobStays
        <4>2. /\ Save(p) => pc[p] \in Before \cup Window
              /\ Record(p) => pc'[p] \notin Before \cup Window \cup {"history"}
          <5>0. pc \in [Proc -> Step]
            BY DEF TypeInv, TypeOK, ControlOK
          <5>1. Save(p) => pc[p] \in Before \cup Window
            BY DEF Save, OpenArtifact, WriteArtifact, Load, LoadFails, OpenStaged, WriteStaged,
                   ReplaceVillage, ReplaceFails, Before, Window
          <5>2. Record(p) => pc'[p] \notin Before \cup Window \cup {"history"}
            BY <5>0 DEF Record, AppendHistory, AppendAudit, MirrorAudit, AppendLog, MirrorLog,
                   WriteLedger, Goto, Audited, Ledgered, Before, Window
          <5> QED BY <5>1, <5>2
        <4>3. Unharmed(p)
          BY <3>1 DEF FaultInv
        <4> QED BY <3>2, <3>5, <4>1, <4>2, <4>3 DEF Unharmed
      <3> QED BY <1>2, <3>3, <3>4, <3>5 DEF Actor
    <2> QED BY <2>1, <2>2, <2>3 DEF FaultInv
  <1> QED BY <1>1, <1>2 DEF Next, Actor

\* The ledger and what is due, as the refinement mapping reads them off the state.
Acts == [i \in 1..Len(history) |-> Act(history[i])]

OnlyDue(p) == pc[p] = "history" /\ \A q \in Proc : pc[q] = "history" => q = p

LEMMA OwedIs ==
  /\ (\A p \in Proc : pc[p] # "history") => Owed = <<>>
  /\ \A p \in Proc : OnlyDue(p) => Owed = <<Act(RowOf(p))>>
  <1>1. ASSUME NEW p \in Proc, OnlyDue(p) PROVE Owed = <<Act(RowOf(p))>>
    <2>1. (CHOOSE q \in Proc : pc[q] = "history") = p
      BY <1>1 DEF OnlyDue
    <2> QED BY <1>1, <2>1 DEF Owed, OnlyDue
  <1> QED BY <1>1 DEF Owed

LEMMA OwedNext ==
  /\ (\A p \in Proc : pc'[p] # "history") => Owed' = <<>>
  /\ \A p \in Proc : OnlyDue(p)' => Owed' = <<Act(RowOf(p))'>>
  <1>1. ((\A p \in Proc : pc[p] # "history") => Owed = <<>>)'
    BY OwedIs, PTL
  <1>2. (\A p \in Proc : OnlyDue(p) => Owed = <<Act(RowOf(p))>>)'
    BY OwedIs, PTL
  <1> QED BY <1>1, <1>2

\* No request changes its kind, so no entry of the ledger changes.
LEMMA ActsStay ==
  ASSUME TypeInv, RowsOK, [Next]_vars, NEW i \in 1..Len(history), history'[i] = history[i]
  PROVE  Act(history[i])' = Act(history[i])
  <1>1. history[i].op \in 1..Len(request)
    BY DEF RowsOK, Rows
  <1>2. Kindof(history[i].op)' = Kindof(history[i].op)
    BY <1>1, Grows DEF Kindof
  <1> QED BY <1>2 DEF Act

LEMMA LedgerStays ==
  ASSUME TypeInv, RowsOK, [Next]_vars, history' = history
  PROVE  Acts' = Acts
  <1>1. \A i \in 1..Len(history) : Act(history[i])' = Act(history[i])
    BY ActsStay
  <1> QED BY <1>1 DEF Acts

LEMMA LedgerAppends ==
  ASSUME TypeInv, RowsOK, [Next]_vars, NEW p \in Proc, AppendHistory(p)
  PROVE  Acts' = Acts \o <<Act(RowOf(p))>>
  <1>1. history \in Seq(Row) /\ Len(history) \in Nat /\ RowOf(p) \in Row
    <2>1. Busy(p) /\ pc[p] = "history"
      BY DEF AppendHistory, Busy
    <2> QED BY <2>1, InHand DEF TypeInv, TypeOK, TrailsOK
  <1>2. PICK n \in Nat : n = Len(history)
    BY <1>1
  <1>3. PICK row \in Row : row = RowOf(p)
    BY <1>1
  <1>4. history' = Append(history, row) /\ request' = request
    BY <1>3 DEF AppendHistory
  <1>5. /\ Len(history') = n + 1 /\ history'[n + 1] = row
        /\ \A i \in 1..n : history'[i] = history[i]
    BY <1>1, <1>2, <1>4
  <1>6. \A i \in 1..n : Act(history[i])' = Act(history[i])
    BY <1>2, <1>5, ActsStay
  <1>7. Act(history[n + 1])' = Act(row)
    BY <1>4, <1>5 DEF Act, Kindof
  <1>8. PICK entry : entry = Act(row)
    OBVIOUS
  <1>9. Acts' = [i \in 1..(n + 1) |-> IF i = n + 1 THEN entry ELSE Acts[i]]
    <2>1. Acts' = [i \in 1..(n + 1) |-> Act(history[i])']
      BY <1>5 DEF Acts
    <2>2. \A i \in 1..n : Acts[i] = Act(history[i])
      BY <1>2 DEF Acts
    <2> QED BY <1>5, <1>6, <1>7, <1>8, <2>1, <2>2
  <1>10. PICK acts : acts = Acts
    OBVIOUS
  <1>11. acts \in Seq({acts[i] : i \in 1..n}) /\ Len(acts) = n
    BY <1>2, <1>10 DEF Acts
  <1>12. acts \o <<entry>> = [i \in 1..(n + 1) |-> IF i = n + 1 THEN entry ELSE acts[i]]
    BY <1>2, <1>11
  <1> QED BY <1>3, <1>8, <1>9, <1>10, <1>12

\* The rename is the act: it puts in force what the request may install.
LEMMA SaveActs ==
  ASSUME TypeInv, SaveInv, SoloInv, GenuineInv, NestInv, [Next]_vars,
         NEW p \in Proc, ReplaceVillage(p), ~overlapped'
  PROVE  Promise!Submit \/ Promise!Decree \/ Promise!Restore \/ Promise!Amend
  <1> DEFINE op == job[p].op
             pol == job[p].policy
  <1>0. /\ pc \in [Proc -> Step] /\ pc[p] = "replace" /\ pc' = [pc EXCEPT ![p] = Saved(Kindof(op))]
        /\ job' = job /\ request' = request /\ history' = history /\ village' = staged
        /\ interrupted' = interrupted
    BY DEF ReplaceVillage, Goto, TypeInv, TypeOK, ControlOK, trails
  <1>1. /\ ~overlapped /\ ~raced /\ Readable
        /\ \A q \in Proc \ {p} : pc[q] = "idle" /\ pc'[q] = "idle"
    BY ActsAlone DEF Actor, Save, Busy
  <1>2. village' = pol /\ pol \in Policy
    BY <1>0, <1>1, InHand DEF SaveInv, WindowOK, Window, Busy
  <1>3. Kindof(op) \in Kind
    BY <1>0, InHand DEF Busy, Kindof, Request
  <1>4. RowsOK /\ Acts' = Acts
    BY <1>0, LedgerStays DEF NestInv
  <1>5. Owed = <<>>
    BY <1>0, <1>1, OwedIs
  <1>6. Genuine(p)
    BY <1>1 DEF GenuineInv
  <1>7. CASE Kindof(op) \in ApplyKind
    <2>1. pc'[p] = "history" /\ OnlyDue(p)'
      BY <1>0, <1>1, <1>7 DEF Saved, OnlyDue, ApplyKind, IssuerKind
    <2>2. Owed' = <<[kind |-> IF Kindof(op) \in {"post", "pull"} THEN "submitted" ELSE Kindof(op),
                     policy |-> pol]>>
      <3>1. Act(RowOf(p))' = [kind |-> IF Kindof(op) \in {"post", "pull"} THEN "submitted"
                                       ELSE Kindof(op),
                              policy |-> pol]
        BY <1>0 DEF Act, RowOf, Kindof
      <3> QED BY <2>1, <3>1, OwedNext
    <2>3. CASE Kindof(op) \in {"post", "pull"}
      <3>1. PICK u \in Accepts[village.body] : pol = PolicyOf[u]
        BY <1>0, <1>6, <2>3 DEF Genuine, Window
      <3>2. u \in Promise!Valid
        BY <1>1, <1>2, <3>1, ConstantsAssumption DEF Readable, Policy, Promise!Valid
      <3>3. Promise!Act("submitted", PolicyOf[u])
        BY <1>0, <1>2, <1>4, <1>5, <2>2, <2>3, <3>1 DEF Promise!Act, Acts
      <3> QED BY <3>1, <3>2, <3>3 DEF Promise!Submit
    <2>4. CASE Kindof(op) = "compiled"
      <3>1. PICK u \in Update : pol = PolicyOf[u]
        BY <1>0, <1>6, <2>4 DEF Genuine, Window
      <3>2. Promise!Act("compiled", PolicyOf[u])
        BY <1>0, <1>2, <1>4, <1>5, <2>2, <2>4, <3>1 DEF Promise!Act, Acts
      <3>3. u \in Promise!Valid
        BY <1>2, <3>1 DEF Promise!Valid
      <3> QED BY <3>2, <3>3 DEF Promise!Decree
    <2>5. CASE Kindof(op) = "rollback"
      <3>1. PICK i \in 1..Len(history) : pol = history[i].policy
        BY <1>0, <1>6, <2>5 DEF Genuine, Window
      <3>2. Promise!Act("rollback", pol)
        BY <1>0, <1>2, <1>4, <1>5, <2>2, <2>5 DEF Promise!Act, Acts
      <3>3. pol \in Promise!Recorded
        BY <3>1 DEF Promise!Recorded, Act
      <3> QED BY <3>2, <3>3 DEF Promise!Restore
    <2> QED BY <1>7, <2>3, <2>4, <2>5 DEF ApplyKind
  <1>8. CASE Kindof(op) \notin ApplyKind
    <2>1. pc'[p] # "history"
      BY <1>0, <1>3, <1>8 DEF Saved
    <2>2. Owed' = <<>>
      BY <1>1, <2>1, OwedNext
    <2>3. CASE Kindof(op) = "import"
      <3>1. PICK u \in Update : pol = PolicyOf[u]
        BY <1>0, <1>6, <2>3 DEF Genuine, Window
      <3>2. u \in Promise!Valid /\ village' = PolicyOf[u]
        BY <1>2, <3>1 DEF Promise!Valid
      <3> QED BY <1>0, <1>2, <1>4, <1>5, <2>2, <3>2 DEF Promise!Amend, Acts
    <2>4. CASE Kindof(op) \in IssuerKind
      <3>1. pol = Edited(request[op], NoPolicy, village)
        BY <1>0, <1>1, <2>4 DEF SaveInv, WindowOK, Window
      <3>2. request[op].arg \in Issuer
        BY <1>0, <2>4, InHand DEF TypeInv, RequestOK, Busy, Kindof
      <3>3. village \in Policy
        BY <1>1 DEF Readable
      <3>4. Promise!Edits(request[op].arg)
        <4>1. CASE Kindof(op) = "allow"
          <5>1. pol = Allowing(village, request[op].arg)
            BY <3>1, <4>1 DEF Edited, Kindof
          <5>2. /\ pol.body = village.body
                /\ pol.allow = village.allow \cup {request[op].arg}
                /\ pol.block = village.block \ {request[op].arg}
            BY <3>3, <5>1 DEF Allowing, Policy
          <5> QED BY <1>2, <5>2, Zenon DEF Promise!Edits
        <4>2. CASE Kindof(op) = "block"
          <5>1. pol = Blocking(village, request[op].arg)
            BY <3>1, <4>2 DEF Edited, Kindof, IssuerKind
          <5>2. /\ pol.body = village.body
                /\ pol.allow = village.allow
                /\ pol.block = village.block \cup {request[op].arg}
            BY <3>3, <5>1 DEF Blocking, Policy
          <5> QED BY <1>2, <5>2, Zenon DEF Promise!Edits
        <4> QED BY <2>4, <4>1, <4>2 DEF IssuerKind
      <3> QED BY <1>0, <1>2, <1>4, <1>5, <2>2, <3>2, <3>4 DEF Promise!Amend, Acts
    <2> QED BY <1>3, <1>8, <2>3, <2>4 DEF Kind
  <1> QED BY <1>7, <1>8

LEMMA StepRefines ==
  ASSUME TypeInv, SaveInv, SoloInv, GenuineInv, NestInv, FaultInv, [Next]_vars, ~overlapped'
  PROVE  [Promise!Next]_(Promise!vars)
  <1>1. RowsOK
    BY DEF NestInv
  <1>2. ASSUME village' = village, history' = history, Owed' = Owed, interrupted' = interrupted
        PROVE  UNCHANGED Promise!vars
    <2>1. Acts' = Acts
      BY <1>1, <1>2, LedgerStays
    <2> QED BY <1>2, <2>1 DEF Promise!vars, Acts
  <1>3. CASE UNCHANGED vars
    <2>1. UNCHANGED <<village, history, pc, job, request, interrupted>>
      BY <1>3 DEF vars, files, trails, observed
    <2>2. Owed' = Owed
      BY <2>1 DEF Owed, Act, RowOf, Kindof
    <2> QED BY <1>2, <2>1, <2>2
  <1>4. ASSUME NEW p \in Proc, Actor(p) PROVE [Promise!Next]_(Promise!vars)
    <2>0. pc \in [Proc -> Step]
      BY DEF TypeInv, TypeOK, ControlOK
    <2>1. /\ \A q \in Proc \ {p} : pc[q] = "idle" /\ pc'[q] = "idle"
          /\ ~ReplaceVillage(p) => village' = village
          /\ ~overlapped
      BY <1>4, ActsAlone DEF Busy
    <2>2. CASE ReplaceVillage(p)
      BY <2>2, SaveActs DEF Promise!Next
    <2>3. CASE AppendHistory(p)
      <3>1. OnlyDue(p) /\ pc'[p] # "history"
        BY <2>0, <2>1, <2>3 DEF AppendHistory, Goto, OnlyDue
      <3>2. Owed = <<Act(RowOf(p))>> /\ Owed' = <<>>
        BY <2>1, <3>1, OwedIs, OwedNext
      <3>3. Acts' = Acts \o Owed /\ village' = village
        BY <1>1, <2>3, <3>2, LedgerAppends DEF AppendHistory, files
      <3>4. interrupted' = interrupted
        BY <2>3, Marks DEF Record
      <3>5. Promise!Enter
        BY <3>2, <3>3, <3>4 DEF Promise!Enter, Acts
      <3> QED BY <3>5 DEF Promise!Next
    <2>4. CASE Fault(p)
      <3>1. /\ job[p].op \in 1..MaxRequests /\ Busy(p)
            /\ interrupted' = interrupted \cup {job[p].op}
        BY <2>4, Marks, JobStays, ConstantsAssumption DEF TypeInv, JobOK, FaultInv
      <3>2. pc'[p] # "history" /\ history' = history /\ village' = village
        <4>1. ~ReplaceVillage(p)
          BY <2>4 DEF ReplaceVillage, Fault, RecordFails, Crash, Interrupt, TypeInv, TypeOK, ObservedOK
        <4> QED BY <2>1, <2>4, <4>1, Marks, OnlyRecordWrites DEF trails
      <3>3. Acts' = Acts
        BY <1>1, <3>2, LedgerStays
      <3>4. Owed' = <<>>
        BY <2>1, <3>2, OwedNext
      <3>5. job[p].op \notin interrupted => Promise!Strike
        BY <3>1 DEF Promise!Strike
      <3>6. CASE pc[p] = "history"
        <4>1. Owed = <<Act(RowOf(p))>>
          <5>1. OnlyDue(p)
            BY <2>1, <3>6 DEF OnlyDue
          <5> QED BY <5>1, OwedIs
        <4>2. job[p].op \notin interrupted
          BY <2>1, <3>6 DEF FaultInv, Unharmed
        <4>3. Promise!Lose
          BY <3>2, <3>3, <3>4, <3>5, <4>1, <4>2 DEF Promise!Lose, Acts
        <4> QED BY <4>3 DEF Promise!Next
      <3>7. CASE pc[p] # "history"
        <4>1. Owed = <<>>
          BY <2>1, <3>7, OwedIs
        <4>2. CASE job[p].op \in interrupted
          BY <1>2, <3>1, <3>2, <3>4, <4>1, <4>2
        <4>3. CASE job[p].op \notin interrupted
          <5>1. Promise!Spare
            BY <3>2, <3>3, <3>4, <3>5, <4>1, <4>3 DEF Promise!Spare, Acts
          <5> QED BY <5>1 DEF Promise!Next
        <4> QED BY <4>2, <4>3
      <3> QED BY <3>6, <3>7
    <2>5. CASE ~ReplaceVillage(p) /\ ~AppendHistory(p) /\ ~Fault(p)
      <3>1. pc[p] # "history" /\ pc'[p] # "history" /\ history' = history
        <4>1. CASE Start(p)
          BY <4>1, Started DEF Begins, BeginsAs, trails
        <4>2. CASE Save(p)
          BY <2>0, <2>5, <4>2 DEF Save, OpenArtifact, WriteArtifact, Load, LoadFails, OpenStaged,
                                  WriteStaged, ReplaceFails, Goto, trails
        <4>3. CASE Record(p)
          BY <2>0, <2>5, <4>3 DEF Record, AppendAudit, MirrorAudit, AppendLog, MirrorLog, WriteLedger,
                                  Goto, Audited, Ledgered, trails
        <4> QED BY <1>4, <2>5, <4>1, <4>2, <4>3 DEF Actor
      <3>2. Owed = <<>> /\ Owed' = <<>>
        BY <2>1, <3>1, OwedIs, OwedNext
      <3>3. interrupted' = interrupted
        BY <1>4, <2>5, Marks DEF Actor
      <3> QED BY <1>2, <2>1, <2>5, <3>1, <3>2, <3>3
    <2> QED BY <2>2, <2>3, <2>4, <2>5
  <1>5. CASE Next
    BY <1>4, <1>5 DEF Next, Actor
  <1> QED BY <1>3, <1>5

LEMMA InitRefines == Init => GenuineInv /\ FaultInv /\ Promise!Init
  <1> SUFFICES ASSUME Init PROVE GenuineInv /\ FaultInv /\ Promise!Init
    OBVIOUS
  <1>1. /\ history = <<>> /\ village = Genesis /\ \A p \in Proc : pc[p] = "idle"
        /\ interrupted = {} /\ Len(request) = 0
    BY DEF Init
  <1>2. GenuineInv
    BY <1>1 DEF GenuineInv, Genuine, Before, Window
  <1>3. Owed = <<>>
    BY <1>1, OwedIs
  <1>4. Acts = <<>>
    BY <1>1 DEF Acts
  <1>5. FaultInv
    BY <1>1, ConstantsAssumption DEF FaultInv, Unharmed
  <1> QED BY <1>1, <1>2, <1>3, <1>4, <1>5 DEF Promise!Init, Acts

\* As long as requests do not overlap, the village keeps the promise of
\* PolicyLedger: every step of every handler is an act that the promise allows, an
\* entry made or lost to a fault, or no step of it.  That nothing stays due is left
\* to TLC.
THEOREM WithoutOverlapKeepsPromise ==
  Spec /\ []~overlapped => Promise!Init /\ [][Promise!Next]_(Promise!vars)
  <1>1. TypeInv /\ SaveInv /\ SoloInv /\ NestInv /\ GenuineInv /\ [Next]_vars => GenuineInv'
    BY GenuineStep
  <1>2. TypeInv /\ SaveInv /\ SoloInv /\ NestInv /\ GenuineInv /\ FaultInv /\ [Next]_vars
          /\ ~overlapped' => [Promise!Next]_(Promise!vars)
    BY StepRefines
  <1>3. TypeInv /\ SaveInv /\ SoloInv /\ FaultInv /\ [Next]_vars => FaultInv'
    BY FaultStep
  <1> QED BY InitRefines, <1>1, <1>2, <1>3, SoloInvariant, NestInvariant, SaveInvariant, TypeInvariant,
             PTL DEF Spec

\* A node with a single process keeps the promise whatever comes: its requests
\* cannot overlap.
THEOREM OneProcessKeepsPromise ==
  ASSUME \A p, q \in Proc : p = q
  PROVE  Spec => Promise!Init /\ [][Promise!Next]_(Promise!vars)
  <1>1. Init => ~overlapped
    BY DEF Init
  <1>2. TypeInv /\ ~overlapped /\ [Next]_vars => ~overlapped'
    <2> SUFFICES ASSUME TypeInv, ~overlapped, [Next]_vars PROVE ~overlapped'
      OBVIOUS
    <2>1. ASSUME NEW p \in Proc, Start(p) PROVE ~overlapped'
      BY <2>1, Started DEF Begins
    <2>2. ASSUME NEW p \in Proc, Save(p) \/ Record(p) \/ Fault(p) PROVE ~overlapped'
      BY <2>2 DEF Save, OpenArtifact, WriteArtifact, Load, LoadFails, OpenStaged, WriteStaged,
                  ReplaceVillage, ReplaceFails, Record, AppendHistory, AppendAudit, MirrorAudit,
                  AppendLog, MirrorLog, WriteLedger, Fault, RecordFails, Crash, Interrupt, observed
    <2> QED BY <2>1, <2>2 DEF Next, vars, observed
  <1> QED BY <1>1, <1>2, WithoutOverlapKeepsPromise, TypeInvariant, PTL DEF Spec

===============================================================================
