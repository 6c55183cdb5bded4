------------------------- MODULE PolicyArtifactProofs -------------------------
(***************************************************************************)
(* What PolicyArtifact guarantees for any keys, rules, policies, files,    *)
(* operators and bounds: the types, that no node applies what its quorum   *)
(* has not signed as it stands, and that signing does no harm.             *)
(***************************************************************************)
EXTENDS PolicyArtifact, FiniteSetTheorems, TLAPS

-----------------------------------------------------------------------------
(* Updates and signatures *)

LEMMA SignType ==
  ASSUME NEW u \in Update, NEW k \in Key
  PROVE  Sign(u, k) \in Signature
  BY DEF Sign, Signature, Update

\* The entries of a list sign payloads.
LEMMA EntryType ==
  ASSUME NEW u \in Update, NEW k \in Key, NEW i \in DOMAIN u.sigs[k]
  PROVE  /\ u.sigs[k][i] \in Payload
         /\ [key |-> k, over |-> u.sigs[k][i]] \in Entries(u)
         /\ [key |-> k, over |-> u.sigs[k][i]] \in Signature
  BY DEF Update, Entries, Signature

\* An entry is of some key, at some place of the list.
LEMMA EntryOf ==
  ASSUME NEW u \in Update, NEW e \in Entries(u)
  PROVE  \E k \in Key : \E i \in DOMAIN u.sigs[k] : e = [key |-> k, over |-> u.sigs[k][i]]
  BY DEF Entries

\* sign-add leaves one entry at most of each key: the first, or the new one.
LEMMA AddSignatureLists ==
  ASSUME NEW u \in Update, NEW k \in Key, NEW j \in Key
  PROVE  LET old == u.sigs[j]
             list == AddSignature(u, k).sigs[j]
         IN  /\ old \in Seq(Payload)
             /\ old = << >> /\ j # k => list = << >>
             /\ old = << >> /\ j = k => list = <<u.payload>>
             /\ old # << >> => list = <<old[1]>> /\ 1 \in DOMAIN old
  <1>1. u.sigs \in [Key -> Seq(Payload)] /\ u.sigs[j] \in Seq(Payload)
    BY DEF Update
  <1>2. AddSignature(u, k).sigs[j] = IF j = k /\ u.sigs[j] = << >> THEN <<u.payload>>
                                     ELSE FirstOnly(u.sigs[j])
    BY <1>1 DEF AddSignature, Update
  <1>3. u.sigs[j] # << >> => Head(u.sigs[j]) = u.sigs[j][1] /\ 1 \in DOMAIN u.sigs[j]
    BY <1>1
  <1> QED BY <1>1, <1>2, <1>3 DEF FirstOnly

\* What the commands make of an update is an update, and carries no signature
\* but the old ones and the new one.
LEMMA AddSignatureType ==
  ASSUME NEW u \in Update, NEW k \in Key
  PROVE  /\ AddSignature(u, k) \in Update
         /\ Presented(AddSignature(u, k)) \subseteq Presented(u) \cup {Sign(u, k)}
  <1> DEFINE new == AddSignature(u, k)
  <1>1. new.payload = u.payload /\ new.legacy = u.legacy /\ u.payload \in Payload
    BY DEF AddSignature, Update
  <1>2. ASSUME NEW j \in Key PROVE new.sigs[j] \in Seq(Payload)
    <2>1. CASE u.sigs[j] = << >>
      <3>1. new.sigs[j] \in {<< >>, <<u.payload>>}
        BY <2>1, AddSignatureLists
      <3>2. << >> \in Seq(Payload)
        OBVIOUS
      <3>3. <<u.payload>> \in Seq(Payload)
        <4>1. u.payload \in Payload
          BY DEF Update
        <4> QED BY <4>1
      <3> QED BY <3>1, <3>2, <3>3
    <2>2. CASE u.sigs[j] # << >>
      <3>1. new.sigs[j] = <<u.sigs[j][1]>> /\ 1 \in DOMAIN u.sigs[j]
        BY <2>2, AddSignatureLists
      <3>2. u.sigs[j][1] \in Payload
        BY <3>1, EntryType
      <3> HIDE DEF new
      <3> QED BY <3>1, <3>2
    <2> QED BY <2>1, <2>2
  <1>3. new \in Update
    BY <1>2 DEF AddSignature, Update
  <1>4. ASSUME NEW e \in Entries(new) PROVE e \in Presented(u) \cup {Sign(u, k)}
    <2>1. PICK j \in Key : \E i \in DOMAIN new.sigs[j] : e = [key |-> j, over |-> new.sigs[j][i]]
      BY <1>3, EntryOf
    <2>2. PICK i \in DOMAIN new.sigs[j] : e = [key |-> j, over |-> new.sigs[j][i]]
      BY <2>1
    <2>3. CASE u.sigs[j] = << >>
      <3>1. j = k /\ new.sigs[j] = <<u.payload>>
        BY <2>2, <2>3, AddSignatureLists
      <3> QED BY <2>2, <3>1 DEF Sign
    <2>4. CASE u.sigs[j] # << >>
      <3>1. new.sigs[j] = <<u.sigs[j][1]>> /\ 1 \in DOMAIN u.sigs[j]
        BY <2>4, AddSignatureLists
      <3>2. e = [key |-> j, over |-> u.sigs[j][1]]
        BY <2>2, <3>1
      <3> QED BY <3>1, <3>2, EntryType DEF Presented
    <2> QED BY <2>3, <2>4
  <1>5. Presented(new) \subseteq Presented(u) \cup {Sign(u, k)}
    BY <1>1, <1>4 DEF Presented
  <1> QED BY <1>3, <1>5

LEMMA SignLegacyType ==
  ASSUME NEW u \in Update, NEW k \in Key
  PROVE  /\ SignLegacy(u, k) \in Update
         /\ Presented(SignLegacy(u, k)) \subseteq Presented(u) \cup {Sign(u, k)}
  BY SignType DEF SignLegacy, Update, Presented, Entries

LEMMA UnsignedType ==
  /\ Unsigned \in [Key -> Seq(Payload)]
  /\ \A u : u.sigs = Unsigned => Entries(u) = {}
  <1>1. \A k \in Key : Unsigned[k] = << >>
    BY DEF Unsigned
  <1>2. Unsigned \in [Key -> Seq(Payload)]
    BY DEF Unsigned
  <1>3. ASSUME NEW u, u.sigs = Unsigned PROVE Entries(u) = {}
    BY <1>1, <1>3 DEF Entries
  <1> QED BY <1>2, <1>3

LEMMA MovedType ==
  ASSUME NEW u \in Update, NEW to \in State
  PROVE  Moved(u, to) \in Update /\ Presented(Moved(u, to)) = {}
  BY UnsignedType DEF Moved, Update, Payload, Presented

LEMMA BuiltType ==
  ASSUME NEW policy \in Content, NEW state \in State, NEW from \in Time, NEW until \in Time,
         NEW quorum \in BOOLEAN
  PROVE  /\ Built(policy, state, from, until, quorum) \in Update
         /\ Presented(Built(policy, state, from, until, quorum)) = {}
  <1> DEFINE new == Built(policy, state, from, until, quorum)
  <1>1. /\ new.payload = [policy |-> policy, hash |-> policy, state |-> state,
                          from |-> from, until |-> until, quorum |-> quorum]
        /\ new.sigs = Unsigned /\ new.legacy = NoSig
        /\ new = [payload |-> new.payload, sigs |-> new.sigs, legacy |-> new.legacy]
    BY DEF Built
  <1> HIDE DEF new
  <1>2. new.payload \in Payload
    BY <1>1 DEF Payload
  <1>3. new \in Update
    BY <1>1, <1>2, UnsignedType DEF Update
  <1>4. Presented(new) = {}
    BY <1>1, UnsignedType DEF Presented
  <1> QED BY <1>3, <1>4 DEF new

LEMMA EditType ==
  ASSUME NEW u \in Update, NEW new \in Payload
  PROVE  /\ EditedBy(u, new) \in Update
         /\ Presented(EditedBy(u, new)) = Presented(u)
  BY DEF EditedBy, Update, Presented, Entries

LEMMA EditedType ==
  ASSUME NEW old \in Payload, NEW new \in Edited(old)
  PROVE  new \in Payload
  <1>1. CASE \E c \in Content : \/ new = [old EXCEPT !.policy = c]
                                 \/ new = [old EXCEPT !.policy = c, !.hash = c]
    BY <1>1 DEF Payload
  <1>2. CASE \E state \in State : new = [old EXCEPT !.state = state]
    BY <1>2 DEF Payload
  <1>3. CASE \E t \in Time : new = [old EXCEPT !.from = t] \/ new = [old EXCEPT !.until = t]
    BY <1>3 DEF Payload
  <1>4. CASE \E q \in BOOLEAN : new = [old EXCEPT !.quorum = q]
    BY <1>4 DEF Payload
  <1>5. \/ new \in UNION {{[old EXCEPT !.policy = c], [old EXCEPT !.policy = c, !.hash = c]} :
                           c \in Content}
        \/ new \in {[old EXCEPT !.state = s] : s \in State}
        \/ new \in {[old EXCEPT !.from = t] : t \in Time}
        \/ new \in {[old EXCEPT !.until = t] : t \in Time}
        \/ new \in {[old EXCEPT !.quorum = q] : q \in BOOLEAN}
    BY Zenon DEF Edited
  <1>6. CASE new \in UNION {{[old EXCEPT !.policy = c], [old EXCEPT !.policy = c, !.hash = c]} :
                           c \in Content}
    BY <1>1, <1>6, Zenon
  <1> QED BY <1>2, <1>3, <1>4, <1>5, <1>6, Zenon

\* A copied signature joins the list.
LEMMA PastedType ==
  ASSUME NEW u \in Update, NEW s \in Signature
  PROVE  /\ Pasted(u, s) \in Update
         /\ Presented(Pasted(u, s)) \subseteq Presented(u) \cup {s}
  <1> DEFINE new == Pasted(u, s)
  <1>1. s.key \in Key /\ s.over \in Payload /\ s = [key |-> s.key, over |-> s.over]
    BY DEF Signature
  <1>2. u.sigs \in [Key -> Seq(Payload)]
    BY DEF Update
  <1>3. new.sigs = [u.sigs EXCEPT ![s.key] = Append(u.sigs[s.key], s.over)]
        /\ new.payload = u.payload /\ new.legacy = u.legacy
    BY DEF Pasted, Update
  <1>4. new \in Update
    <2>1. Append(u.sigs[s.key], s.over) \in Seq(Payload)
      BY <1>1, <1>2
    <2>2. new.sigs \in [Key -> Seq(Payload)]
      BY <1>1, <1>2, <1>3, <2>1
    <2>3. new = [u EXCEPT !.sigs = new.sigs]
      BY DEF Pasted, Update
    <2> HIDE DEF new
    <2> QED BY <2>2, <2>3 DEF Update
  <1>5. ASSUME NEW e \in Entries(new) PROVE e \in Presented(u) \cup {s}
    <2>1. PICK j \in Key : \E i \in DOMAIN new.sigs[j] : e = [key |-> j, over |-> new.sigs[j][i]]
      BY <1>4, EntryOf
    <2>2. PICK i \in DOMAIN new.sigs[j] : e = [key |-> j, over |-> new.sigs[j][i]]
      BY <2>1
    <2>3. CASE i \in DOMAIN u.sigs[j]
      <3>1. new.sigs[j][i] = u.sigs[j][i]
        BY <1>1, <1>2, <1>3, <2>3
      <3> QED BY <2>2, <2>3, <3>1, EntryType DEF Presented
    <2>4. CASE i \notin DOMAIN u.sigs[j]
      <3>1. j = s.key /\ new.sigs[j] = Append(u.sigs[j], s.over)
        BY <1>2, <1>3, <2>2, <2>4
      <3>2. new.sigs[j][i] = s.over
        BY <1>1, <1>2, <2>2, <2>4, <3>1
      <3> QED BY <1>1, <2>2, <3>1, <3>2
    <2> QED BY <2>3, <2>4
  <1>6. Presented(new) \subseteq Presented(u) \cup {s}
    BY <1>3, <1>5 DEF Presented
  <1> QED BY <1>4, <1>6

\* No artifact is a marker.
LEMMA Markers == Absent \notin Update /\ Empty \notin Update /\ Mixed \notin Update
  BY ArtifactAssumption

-----------------------------------------------------------------------------
(* Types and genuine signatures *)

\* Every signature in a file, or about to be written to one, was made by its
\* key over the payload it names.
Genuine ==
  /\ \A f \in File : Parses(f) => Presented(file[f]) \subseteq signed
  /\ \A p \in Operator : Busy(p) => Presented(job[p].doc) \subseteq signed

TypeInv == FilesOK /\ ControlOK /\ AdmittedOK /\ signed \subseteq Signature

IInv == TypeInv /\ Genuine

\* The start of a command: its document carries no signature that was not made.
LEMMA BeginStep ==
  ASSUME IInv, NEW p \in Operator, NEW cmd \in Command, NEW base \in Update,
         NEW doc \in Update, NEW out \in File, NEW keys \in SUBSET Key, NEW inPlace \in BOOLEAN,
         Begin(p, cmd, base, doc, out, keys, inPlace),
         signed \subseteq signed', signed' \subseteq Signature,
         Presented(doc) \subseteq signed'
  PROVE  IInv'
  <1> DEFINE j == [cmd |-> cmd, base |-> base, doc |-> doc, out |-> out, keys |-> keys,
                   inPlace |-> inPlace]
  <1>1. j \in Job /\ j.doc = doc
    BY DEF Job
  <1>2. /\ job' = [job EXCEPT ![p] = j] /\ pc' = [pc EXCEPT ![p] = "open"]
        /\ UNCHANGED <<file, listed, admitted>>
    BY DEF Begin
  <1> HIDE DEF j
  <1>3. \A q \in Operator : /\ q = p => job'[q] = j
                            /\ q # p => job'[q] = job[q] /\ pc'[q] = pc[q]
    BY <1>2 DEF IInv, TypeInv, ControlOK
  <1>4. ControlOK'
    BY <1>1, <1>2, <1>3 DEF IInv, TypeInv, ControlOK, Busy
  <1>5. FilesOK' /\ AdmittedOK'
    BY <1>2 DEF IInv, TypeInv, FilesOK, AdmittedOK
  <1>6. Genuine'
    <2>1. \A f \in File : file'[f] \in Update => Presented(file'[f]) \subseteq signed'
      BY <1>2 DEF IInv, Genuine, Parses
    <2>2. ASSUME NEW q \in Operator, pc'[q] # "idle" PROVE Presented(job'[q].doc) \subseteq signed'
      BY <1>1, <1>3, <2>2 DEF IInv, Genuine, Busy
    <2> QED BY <2>1, <2>2 DEF Genuine, Parses, Busy
  <1> QED BY <1>4, <1>5, <1>6 DEF IInv, TypeInv

\* A later step of a command: what it leaves in its output file is a marker or
\* its own document, and its job stays.
LEMMA CommandStep ==
  ASSUME IInv, NEW p \in Operator, Busy(p),
         NEW at \in {"idle", "write", "event"}, pc' = [pc EXCEPT ![p] = at],
         NEW doc \in {Empty, Mixed, job[p].doc},
         file' \in {file, [file EXCEPT ![job[p].out] = doc]},
         listed' \in [File -> SUBSET Key],
         UNCHANGED <<job, signed, admitted>>
  PROVE  IInv'
  <1>1. job[p] \in Job /\ job[p].doc \in Update /\ job[p].out \in File
    BY DEF IInv, TypeInv, ControlOK, Job
  <1>2. FilesOK'
    BY <1>1 DEF IInv, TypeInv, FilesOK
  <1>3. ControlOK' /\ AdmittedOK'
    BY DEF IInv, TypeInv, ControlOK, AdmittedOK, Busy
  <1>4. ASSUME NEW f \in File, file'[f] \in Update PROVE Presented(file'[f]) \subseteq signed
    <2>1. file'[f] \in {file[f], doc}
      BY <1>1 DEF IInv, TypeInv, FilesOK
    <2>2. CASE file'[f] = file[f]
      BY <1>4, <2>2 DEF IInv, Genuine, Parses
    <2>3. CASE file'[f] = doc
      BY <1>4, <2>3, Markers DEF IInv, Genuine
    <2> QED BY <2>1, <2>2, <2>3
  <1>5. \A q \in Operator : pc'[q] # "idle" => Presented(job[q].doc) \subseteq signed
    BY DEF IInv, TypeInv, ControlOK, Genuine, Busy
  <1>6. Genuine'
    BY <1>4, <1>5 DEF Genuine, Parses, Busy
  <1> QED BY <1>2, <1>3, <1>6 DEF IInv, TypeInv

LEMMA InitInv == Init => IInv
  BY Markers DEF Init, IInv, TypeInv, FilesOK, ControlOK, AdmittedOK, Genuine, Busy, Parses

LEMMA SignStartInv ==
  ASSUME IInv, NEW p \in Operator, NEW inp \in File, NEW out \in File, NEW k \in Key,
         SignAdd(p, inp, out, k) \/ SignOnce(p, inp, out, k)
  PROVE  IInv'
  <1>1. signed \subseteq Signature /\ listed[inp] \in SUBSET Key
    BY DEF IInv, TypeInv, FilesOK
  <1>2. file[inp] \in Update /\ Presented(file[inp]) \subseteq signed
    BY DEF SignAdd, SignOnce, Parses, IInv, Genuine
  <1>3. CASE SignAdd(p, inp, out, k)
    <2>1. /\ AddSignature(file[inp], k) \in Update
          /\ Presented(AddSignature(file[inp], k)) \subseteq signed'
          /\ signed \subseteq signed' /\ signed' \subseteq Signature
      BY <1>1, <1>2, <1>3, AddSignatureType, SignType DEF SignAdd
    <2>2. listed[inp] \cup {k} \in SUBSET Key
      BY <1>1
    <2> QED BY <1>2, <1>3, <2>1, <2>2, BeginStep DEF SignAdd, Command
  <1>4. CASE SignOnce(p, inp, out, k)
    <2>1. /\ SignLegacy(file[inp], k) \in Update
          /\ Presented(SignLegacy(file[inp], k)) \subseteq signed'
          /\ signed \subseteq signed' /\ signed' \subseteq Signature
      BY <1>1, <1>2, <1>4, SignLegacyType, SignType DEF SignOnce
    <2> QED BY <1>1, <1>2, <1>4, <2>1, BeginStep DEF SignOnce, Command
  <1> QED BY <1>3, <1>4

LEMMA TransitionInv ==
  ASSUME IInv, NEW p \in Operator, NEW inp \in File, NEW out \in File, NEW to \in State,
         Transition(p, inp, out, to)
  PROVE  IInv'
  <1>1. file[inp] \in Update /\ signed \subseteq Signature
    BY DEF Transition, Parses, IInv, TypeInv
  <1> QED BY <1>1, MovedType, BeginStep DEF Transition, Command

LEMMA RunInv ==
  ASSUME IInv, NEW p \in Operator, OpenOut(p) \/ WriteOut(p) \/ WriteEvent(p) \/ Crash(p)
  PROVE  IInv'
  <1>1. Busy(p) /\ job[p] \in Job /\ listed \in [File -> SUBSET Key]
    BY DEF OpenOut, WriteOut, WriteEvent, Crash, Busy, IInv, TypeInv, ControlOK, FilesOK
  <1>2. CASE OpenOut(p)
    BY <1>1, <1>2, CommandStep DEF OpenOut
  <1>3. CASE WriteOut(p)
    <2>1. PICK doc \in {Mixed, job[p].doc} : file' = [file EXCEPT ![job[p].out] = doc]
      BY <1>3 DEF WriteOut, Overwritten
    <2>2. job[p].keys \in SUBSET Key
      BY <1>1 DEF Job
    <2>3. listed' \in [File -> SUBSET Key]
      BY <1>1, <1>3, <2>2 DEF WriteOut
    <2>4. PICK at \in {"idle", "event"} : pc' = [pc EXCEPT ![p] = at]
      BY <1>3 DEF WriteOut
    <2>5. UNCHANGED <<job, signed, admitted>>
      BY <1>3 DEF WriteOut
    <2> QED BY <1>1, <2>1, <2>3, <2>4, <2>5, CommandStep
  <1>4. CASE WriteEvent(p)
    BY <1>1, <1>4, CommandStep DEF WriteEvent
  <1>5. CASE Crash(p)
    BY <1>1, <1>5, CommandStep DEF Crash
  <1> QED BY <1>2, <1>3, <1>4, <1>5

\* An edit by hand puts one artifact in the place of another, and brings no signature
\* that was not made.
LEMMA ByHandInv ==
  ASSUME IInv, NEW f \in File, Parses(f), NEW new \in Update,
         file' = [file EXCEPT ![f] = new], Presented(new) \subseteq signed,
         listed' \in [File -> SUBSET Key],
         UNCHANGED <<pc, job, signed, admitted>>
  PROVE  IInv'
  <1>1. FilesOK'
    BY DEF IInv, TypeInv, FilesOK
  <1>2. ControlOK' /\ AdmittedOK' /\ signed' \subseteq Signature
    BY DEF IInv, TypeInv, ControlOK, AdmittedOK, Busy
  <1>3. \A g \in File : file'[g] \in Update => Presented(file'[g]) \subseteq signed
    BY DEF IInv, TypeInv, FilesOK, Genuine, Parses
  <1>4. Genuine'
    BY <1>3 DEF IInv, Genuine, Parses, Busy
  <1> QED BY <1>1, <1>2, <1>4 DEF IInv, TypeInv

LEMMA EditInv ==
  ASSUME IInv, NEW f \in File, Edit(f)
  PROVE  IInv'
  <1>1. PICK new \in Edited(file[f].payload) : file' = [file EXCEPT ![f] = EditedBy(file[f], new)]
    BY DEF Edit
  <1>2. file[f] \in Update /\ file[f].payload \in Payload
    BY DEF Edit, Parses, Update
  <1>3. EditedBy(file[f], new) \in Update
        /\ Presented(EditedBy(file[f], new)) = Presented(file[f])
    BY <1>2, EditType, EditedType
  <1>4. Presented(file[f]) \subseteq signed /\ listed \in [File -> SUBSET Key]
    BY <1>2 DEF IInv, TypeInv, FilesOK, Genuine, Parses
  <1>5. listed' \in [File -> SUBSET Key] /\ UNCHANGED <<pc, job, signed, admitted>> /\ Parses(f)
    BY <1>4 DEF Edit
  <1> QED BY <1>1, <1>3, <1>4, <1>5, ByHandInv

LEMMA PasteInv ==
  ASSUME IInv, NEW f \in File, NEW g \in File, Paste(f, g)
  PROVE  IInv'
  <1>1. PICK s \in Presented(file[g]) : file' = [file EXCEPT ![f] = Pasted(file[f], s)]
    BY DEF Paste
  <1>2. /\ file[f] \in Update /\ Presented(file[f]) \subseteq signed
        /\ Presented(file[g]) \subseteq signed /\ signed \subseteq Signature
    BY DEF Paste, Parses, IInv, TypeInv, Genuine
  <1>3. Pasted(file[f], s) \in Update /\ Presented(Pasted(file[f], s)) \subseteq signed
    BY <1>2, PastedType
  <1>4. listed' \in [File -> SUBSET Key] /\ UNCHANGED <<pc, job, signed, admitted>> /\ Parses(f)
    BY DEF Paste, IInv, TypeInv, FilesOK
  <1> QED BY <1>1, <1>3, <1>4, ByHandInv

\* What a node applies is one of the files, at the time.
LEMMA VillageInv ==
  ASSUME IInv, now \in Time, NEW n \in Node, NEW f \in File,
         Post(n, f) \/ \E h, m \in BOOLEAN : Pull(n, f, h, m)
  PROVE  IInv'
  <1>1. PICK by \in {"post", "pull"} : Admit(n, f, by)
    BY DEF Post, Pull
  <1>2. AdmittedOK'
    BY <1>1 DEF Admit, Post, Pull, Parses, AdmittedOK
  <1>3. UNCHANGED <<file, pc, job, signed, listed>>
    BY <1>1 DEF Admit
  <1> QED BY <1>2, <1>3 DEF IInv, TypeInv, FilesOK, ControlOK, Genuine, Busy, Parses

LEMMA StutterInv ==
  ASSUME IInv, UNCHANGED <<file, pc, job, admitted, signed, listed>>
  PROVE  IInv'
  BY DEF IInv, TypeInv, FilesOK, ControlOK, AdmittedOK, Genuine, Busy, Parses

-----------------------------------------------------------------------------
(* Type correctness *)

RestOK ==
  /\ BoundsOK
  /\ events \subseteq Event /\ missed \subseteq Event
  /\ raced \in BOOLEAN

LEMMA InitRest == Init => RestOK
  <1> SUFFICES ASSUME Init PROVE RestOK
    OBVIOUS
  <1>1. BoundsOK
    BY ArtifactAssumption DEF Init, BoundsOK
  <1>2. raced \in BOOLEAN
    BY Zenon DEF Init
  <1> QED BY <1>1, <1>2 DEF Init, RestOK

\* The event of a job is an event.
LEMMA EventType ==
  ASSUME NEW j \in Job
  PROVE  EventOf(j) \in Event
  BY DEF Job, EventOf, Event, Update, Payload

LEMMA BeginRest ==
  ASSUME RestOK, NEW p \in Operator, NEW cmd, NEW base, NEW doc, NEW out, NEW keys,
         NEW inPlace, Begin(p, cmd, base, doc, out, keys, inPlace)
  PROVE  RestOK'
  <1>1. raced' \in BOOLEAN
    <2> DEFINE other == \E q \in Operator : Busy(q) /\ job[q].out = out
    <2>1. raced' = (raced \/ other) /\ raced \in BOOLEAN
      BY DEF Begin, RestOK
    <2> HIDE DEF other
    <2> QED BY <2>1, Zenon
  <1>2. BoundsOK'
    BY ArtifactAssumption DEF Begin, RestOK, BoundsOK
  <1> QED BY <1>1, <1>2 DEF Begin, RestOK

LEMMA RunRest ==
  ASSUME IInv, RestOK, NEW p \in Operator,
         OpenOut(p) \/ WriteOut(p) \/ WriteEvent(p) \/ Crash(p)
  PROVE  RestOK'
  <1>1. EventOf(job[p]) \in Event
    BY EventType DEF OpenOut, WriteOut, WriteEvent, Crash, Busy, IInv, TypeInv, ControlOK
  <1>2. BoundsOK' /\ raced' = raced
    BY ArtifactAssumption DEF OpenOut, WriteOut, WriteEvent, Crash, RestOK, BoundsOK
  <1>3. events' \subseteq Event /\ missed' \subseteq Event
    BY <1>1 DEF OpenOut, WriteOut, WriteEvent, Crash, RestOK
  <1> QED BY <1>2, <1>3 DEF RestOK

Inv == IInv /\ RestOK

LEMMA InvStep == Inv /\ [Next]_vars => Inv'
  <1> SUFFICES ASSUME IInv, RestOK, [Next]_vars PROVE IInv' /\ RestOK'
    BY DEF Inv
  <1>1. now \in Time
    BY ArtifactAssumption DEF RestOK, BoundsOK
  <1>2. ASSUME NEW p \in Operator, NEW out \in File, NEW policy \in Content,
               NEW state \in State, NEW from \in Time, NEW until \in Time, NEW quorum \in BOOLEAN,
               Draft(p, out, policy, state, from, until, quorum)
        PROVE  IInv' /\ RestOK'
    BY <1>2, BuiltType, BeginStep, BeginRest DEF Draft, Command, IInv, TypeInv
  <1>3. ASSUME NEW p \in Operator, NEW inp \in File, NEW out \in File, NEW k \in Key,
               SignAdd(p, inp, out, k) \/ SignOnce(p, inp, out, k)
        PROVE  IInv' /\ RestOK'
    BY <1>3, SignStartInv, BeginRest DEF SignAdd, SignOnce
  <1>4. ASSUME NEW p \in Operator, NEW inp \in File, NEW out \in File, NEW to \in State,
               Transition(p, inp, out, to)
        PROVE  IInv' /\ RestOK'
    BY <1>4, TransitionInv, BeginRest DEF Transition
  <1>5. ASSUME NEW p \in Operator, OpenOut(p) \/ WriteOut(p) \/ WriteEvent(p) \/ Crash(p)
        PROVE  IInv' /\ RestOK'
    BY <1>5, RunInv, RunRest
  <1>6. ASSUME NEW f \in File, Edit(f) \/ \E g \in File : Paste(f, g) PROVE IInv' /\ RestOK'
    <2>1. RestOK'
      BY <1>6, ArtifactAssumption DEF Edit, Paste, RestOK, BoundsOK
    <2> QED BY <1>6, <2>1, EditInv, PasteInv
  <1>7. ASSUME NEW n \in Node, NEW f \in File, Post(n, f) \/ \E h, m \in BOOLEAN : Pull(n, f, h, m)
        PROVE  IInv' /\ RestOK'
    <2>1. RestOK'
      BY <1>7 DEF Post, Pull, Admit, RestOK, BoundsOK
    <2> QED BY <1>1, <1>7, <2>1, VillageInv
  <1>8. CASE Tick
    <2>1. RestOK'
      BY <1>8, ArtifactAssumption DEF Tick, RestOK, BoundsOK
    <2> QED BY <1>8, <2>1, StutterInv DEF Tick
  <1>9. CASE UNCHANGED vars
    <2>1. RestOK'
      BY <1>9 DEF vars, RestOK, BoundsOK
    <2> QED BY <1>9, <2>1, StutterInv DEF vars
  <1> QED BY <1>2, <1>3, <1>4, <1>5, <1>6, <1>7, <1>8, <1>9 DEF Next

\* The inductive invariant: types, requests that are well formed, and signatures that
\* were really made.
THEOREM Invariance == Spec => []Inv
  <1>1. Init => Inv
    BY InitInv, InitRest DEF Inv
  <1> QED BY <1>1, InvStep, PTL DEF Spec

\* The documents, jobs, events and admissions are what their names say, and a
\* busy operator has a job (links/policy_updates.py:46-92, links/cli.py:109-134
\* and 707-731).
THEOREM TypeCorrect == Spec => []TypeOK
  <1>1. Inv => TypeOK
    BY DEF Inv, IInv, TypeInv, RestOK, TypeOK
  <1> QED BY <1>1, Invariance, PTL

-----------------------------------------------------------------------------
(* Nothing is applied without its quorum *)

\* Some of the keys that signed this very payload are a quorum; where
\* signatures are optional, one of them counts, if there is a signature at all.
SignedByQuorum(rules, u) ==
  IF rules.required
  THEN HashOK(u) /\ \E keys \in SUBSET SignedBy(u.payload) : Quorum(rules, keys)
  ELSE Presented(u) = {} \/ (HashOK(u) /\ Counted(rules, SignedBy(u.payload)) # {})

AdmittedSigned ==
  admitted # Absent => SignedByQuorum(Rules[admitted.node], admitted.update)

\* A signature that verifies was made by its key.
LEMMA SignersSigned ==
  ASSUME NEW u \in Update, Presented(u) \subseteq signed, signed \subseteq Signature
  PROVE  Signers(u) \subseteq SignedBy(u.payload) /\ SignedBy(u.payload) \subseteq Key
  <1>1. ASSUME NEW e \in Presented(u), e.over = u.payload PROVE e.key \in SignedBy(u.payload)
    <2>1. e \in signed /\ e.key \in Key /\ e = [key |-> e.key, over |-> u.payload]
      BY <1>1 DEF Signature
    <2> QED BY <2>1 DEF SignedBy
  <1>2. Signers(u) \subseteq SignedBy(u.payload)
    BY <1>1 DEF Signers
  <1> QED BY <1>2 DEF SignedBy

LEMMA CountedMonotone ==
  ASSUME NEW rules, NEW keys, NEW more, keys \subseteq more
  PROVE  Counted(rules, keys) \subseteq Counted(rules, more)
  BY DEF Counted

\* An update that passes the check has been signed by a quorum.
LEMMA AcceptedSigned ==
  ASSUME NEW rules, NEW u \in Update, Presented(u) \subseteq signed, signed \subseteq Signature,
         EvaluateQuorum(rules, u)
  PROVE  SignedByQuorum(rules, u)
  <1>1. Signers(u) \subseteq SignedBy(u.payload)
    BY SignersSigned
  <1>2. CASE rules.required
    BY <1>1, <1>2 DEF EvaluateQuorum, SignedByQuorum
  <1>3. CASE ~rules.required /\ Presented(u) # {}
    <2>1. Counted(rules, Signers(u)) # {} /\ HashOK(u)
      <3>1. ASSUME HashOK(u), MOfN(rules, Signers(u), 1) PROVE Counted(rules, Signers(u)) # {}
        BY <3>1, FS_EmptySet DEF MOfN
      <3>2. ASSUME rules.allow = {} PROVE Counted(rules, Signers(u)) = Signers(u)
        BY <3>2 DEF Counted
      <3> QED BY <1>3, <3>1, <3>2 DEF EvaluateQuorum, VerifyAny
    <2>2. Counted(rules, SignedBy(u.payload)) # {}
      BY <1>1, <2>1, CountedMonotone
    <2> QED BY <1>3, <2>1, <2>2 DEF SignedByQuorum
  <1>4. CASE ~rules.required /\ Presented(u) = {}
    BY <1>4 DEF SignedByQuorum
  <1> QED BY <1>2, <1>3, <1>4

\* Nobody takes a signature back.
LEMMA SignedGrows == [Next]_vars => signed \subseteq signed'
  <1>1. ASSUME NEW p \in Operator, NEW inp \in File, NEW out \in File, NEW k \in Key,
               SignAdd(p, inp, out, k) \/ SignOnce(p, inp, out, k)
        PROVE  signed \subseteq signed'
    BY <1>1 DEF SignAdd, SignOnce
  <1> QED BY <1>1, ZenonT(40) DEF Next, vars, Draft, Transition, OpenOut, WriteOut, WriteEvent, Crash,
                      Edit, Paste, Post, Pull, Admit, Tick

LEMMA AdmittedSignedStep == Inv /\ AdmittedSigned /\ [Next]_vars => AdmittedSigned'
  <1> SUFFICES ASSUME Inv, AdmittedSigned, [Next]_vars PROVE AdmittedSigned'
    OBVIOUS
  <1>1. signed \subseteq signed'
    BY SignedGrows
  <1>2. CASE admitted' = admitted
    <2> SUFFICES ASSUME admitted # Absent
                 PROVE  SignedByQuorum(Rules[admitted.node], admitted.update)'
      BY <1>2 DEF AdmittedSigned
    <2> QED BY <1>1, <1>2 DEF AdmittedSigned, SignedByQuorum, SignedBy, Counted
  <1>3. ASSUME NEW n \in Node, NEW f \in File,
               Post(n, f) \/ \E h, m \in BOOLEAN : Pull(n, f, h, m)
        PROVE  AdmittedSigned'
    <2>1. /\ file[f] \in Update /\ EvaluateQuorum(Rules[n], file[f])
          /\ Presented(file[f]) \subseteq signed /\ signed \subseteq Signature
      BY <1>3 DEF Post, Pull, Decision, Parses, Inv, IInv, TypeInv, Genuine
    <2>2. SignedByQuorum(Rules[n], file[f])
      BY <2>1, AcceptedSigned
    <2>3. admitted'.node = n /\ admitted'.update = file[f] /\ signed' = signed
      BY <1>3 DEF Post, Pull, Admit
    <2> QED BY <2>2, <2>3 DEF AdmittedSigned, SignedByQuorum, SignedBy
  <1>4. ASSUME NEW p \in Operator, NEW cmd, NEW base, NEW doc, NEW out, NEW keys, NEW inPlace,
               Begin(p, cmd, base, doc, out, keys, inPlace)
        PROVE  admitted' = admitted
    BY <1>4 DEF Begin
  <1>5. ASSUME NEW p \in Operator, NEW inp \in File, NEW out \in File, NEW k \in Key,
               SignAdd(p, inp, out, k) \/ SignOnce(p, inp, out, k)
        PROVE  admitted' = admitted
    BY <1>4, <1>5 DEF SignAdd, SignOnce
  <1> QED BY <1>2, <1>3, <1>4, <1>5, ZenonT(40) DEF Next, vars, Draft, Transition, OpenOut, WriteOut,
                                        WriteEvent, Crash, Edit, Paste, Tick

\* Whatever the signature model: what a node applies was signed, exactly as it
\* stands, by keys that are a quorum under its rules
\* (links/policy_feed.py:115-165, links/decision_receipts.py:155-203).
THEOREM AdmittedIsSigned == Spec => []AdmittedSigned
  <1>1. Init => AdmittedSigned
    BY DEF Init, AdmittedSigned
  <1> QED BY <1>1, Invariance, AdmittedSignedStep, PTL DEF Spec

\* More keys are no worse, when keys are only counted.
LEMMA MOfNMonotone ==
  ASSUME NEW rules, NEW more \in SUBSET Key, NEW keys \in SUBSET more, NEW m \in Int,
         MOfN(rules, keys, m)
  PROVE  MOfN(rules, more, m)
  <1>1. IsFiniteSet(Counted(rules, more)) /\ Counted(rules, keys) \subseteq Counted(rules, more)
    BY QuorumAssumption, FS_Subset, CountedMonotone DEF Counted
  <1>2. Cardinality(Counted(rules, keys)) <= Cardinality(Counted(rules, more))
    BY <1>1, FS_Subset
  <1>3. Cardinality(Counted(rules, keys)) \in Nat /\ Cardinality(Counted(rules, more)) \in Nat
    BY <1>1, FS_Subset, FS_CardinalityType
  <1> QED BY <1>2, <1>3 DEF MOfN

\* What finitely many keys bring is a finite set, and more keys bring no less.
LEMMA BroughtFinite ==
  ASSUME NEW keys \in SUBSET Key, NEW part, \A k \in keys : IsFiniteSet(part[k])
  PROVE  IsFiniteSet(Brought(part, keys))
  <1> DEFINE f == [k \in keys |-> {k} \X part[k]]
             parts == {{k} \X part[k] : k \in keys}
  <1>1. f \in Surjection(keys, parts)
    BY DEF Surjection
  <1>2. IsFiniteSet(keys)
    BY QuorumAssumption, FS_Subset
  <1>3. IsFiniteSet(parts)
    BY <1>1, <1>2, FS_Surjection
  <1>4. \A k \in keys : IsFiniteSet({k} \X part[k])
    BY FS_Singleton, FS_Product
  <1> QED BY <1>3, <1>4, FS_UNION DEF Brought

LEMMA BroughtMonotone ==
  ASSUME NEW more \in SUBSET Key, NEW keys \in SUBSET more,
         NEW part, \A k \in more : IsFiniteSet(part[k])
  PROVE  /\ Cardinality(Brought(part, keys)) \in Nat /\ Cardinality(Brought(part, more)) \in Nat
         /\ Cardinality(Brought(part, keys)) <= Cardinality(Brought(part, more))
  <1>1. Brought(part, keys) \subseteq Brought(part, more)
    BY DEF Brought
  <1>2. IsFiniteSet(Brought(part, more))
    BY BroughtFinite
  <1> QED BY <1>1, <1>2, FS_Subset, FS_CardinalityType

\* More keys weigh no less, if none of the others takes weight away.
LEMMA WeightMonotone ==
  ASSUME NEW rules \in SignatureRules, NEW more \in SUBSET Key, NEW keys \in SUBSET more,
         \A k \in more \ keys : rules.weight[k] >= 0
  PROVE  /\ Weight(rules, keys) \in Int /\ Weight(rules, more) \in Int
         /\ Weight(rules, keys) <= Weight(rules, more)
  <1> DEFINE gain == [k \in Key |-> 1..rules.weight[k]]
             loss == [k \in Key |-> 1..-rules.weight[k]]
  <1>1. \A k \in more : rules.weight[k] \in Int /\ IsFiniteSet(gain[k]) /\ IsFiniteSet(loss[k])
    BY FS_Interval DEF SignatureRules
  <1>2. ASSUME NEW k \in more \ keys PROVE loss[k] = {}
    <2>1. loss[k] = 1..-rules.weight[k] /\ rules.weight[k] \in Int /\ rules.weight[k] >= 0
      BY <1>1
    <2> HIDE DEF loss
    <2> QED BY <2>1
  <1>3. Weight(rules, keys) = Cardinality(Brought(gain, keys)) - Cardinality(Brought(loss, keys))
        /\ Weight(rules, more) = Cardinality(Brought(gain, more)) - Cardinality(Brought(loss, more))
    BY DEF Weight
  <1> HIDE DEF gain, loss
  <1>4. /\ Cardinality(Brought(gain, keys)) \in Nat /\ Cardinality(Brought(gain, more)) \in Nat
        /\ Cardinality(Brought(gain, keys)) <= Cardinality(Brought(gain, more))
    BY <1>1, BroughtMonotone
  <1>5. Cardinality(Brought(loss, keys)) \in Nat
    BY <1>1, BroughtMonotone
  <1>6. Brought(loss, more) = Brought(loss, keys)
    BY <1>2 DEF Brought
  <1> QED BY <1>3, <1>4, <1>5, <1>6

\* The places at which the keys list a role.
Places(rules, role) == [k \in Key |-> {i \in 1..Len(rules.roles[k]) : rules.roles[k][i] = role}]

LEMMA RoleCountMonotone ==
  ASSUME NEW rules \in SignatureRules, NEW more \in SUBSET Key, NEW keys \in SUBSET more, NEW role
  PROVE  /\ RoleCount(rules, keys, role) \in Nat /\ RoleCount(rules, more, role) \in Nat
         /\ RoleCount(rules, keys, role) <= RoleCount(rules, more, role)
  <1> DEFINE part == Places(rules, role)
  <1>1. ASSUME NEW k \in Key PROVE IsFiniteSet(part[k])
    <2>1. IsFiniteSet(1..Len(rules.roles[k]))
      BY FS_Interval DEF SignatureRules
    <2> QED BY <2>1, FS_Subset DEF Places
  <1>2. /\ Counted(rules, more) \in SUBSET Key
        /\ Counted(rules, keys) \in SUBSET Counted(rules, more)
    BY CountedMonotone DEF Counted
  <1> HIDE DEF part
  <1>3. /\ Cardinality(Brought(part, Counted(rules, keys))) \in Nat
        /\ Cardinality(Brought(part, Counted(rules, more))) \in Nat
        /\ Cardinality(Brought(part, Counted(rules, keys)))
             <= Cardinality(Brought(part, Counted(rules, more)))
    BY <1>1, <1>2, BroughtMonotone
  <1> QED BY <1>3 DEF RoleCount, Places, part

\* Whatever the model, more signers are a quorum if fewer are, and nobody takes weight
\* away.
LEMMA QuorumMonotone ==
  ASSUME NEW rules \in SignatureRules, NEW more \in SUBSET Key, NEW keys \in SUBSET more,
         \A k \in more \ keys : rules.weight[k] >= 0,
         Quorum(rules, keys)
  PROVE  Quorum(rules, more)
  <1>1. CASE rules.model = "weighted" /\ Weighted(rules, keys)
    <2>1. /\ Counted(rules, more) \in SUBSET Key
          /\ Counted(rules, keys) \in SUBSET Counted(rules, more)
      BY CountedMonotone DEF Counted
    <2> DEFINE less == Weight(rules, Counted(rules, keys))
               most == Weight(rules, Counted(rules, more))
    <2>6. \A k \in Counted(rules, more) \ Counted(rules, keys) : rules.weight[k] >= 0
      BY DEF Counted
    <2>2. less \in Int /\ most \in Int /\ less <= most
      BY <2>1, <2>6, WeightMonotone
    <2>3. rules.needWeight \in Int /\ rules.needWeight > 0 /\ less >= rules.needWeight
      BY <1>1 DEF Weighted, SignatureRules
    <2> HIDE DEF less, most
    <2>4. most >= rules.needWeight
      BY <2>2, <2>3
    <2>5. Weighted(rules, more)
      BY <2>3, <2>4 DEF Weighted, most
    <2> QED BY <1>1, <2>5 DEF Quorum
  <1>2. CASE rules.model = "role_based" /\ RoleBased(rules, keys)
    <2>1. ASSUME NEW need \in rules.needs PROVE RoleCount(rules, more, need.role) >= need.min
      <3> DEFINE less == RoleCount(rules, keys, need.role)
                 most == RoleCount(rules, more, need.role)
      <3>1. less \in Nat /\ most \in Nat /\ less <= most
        BY RoleCountMonotone
      <3>2. need.min \in Int /\ less >= need.min
        BY <1>2, <2>1 DEF RoleBased, SignatureRules
      <3> HIDE DEF less, most
      <3>3. most >= need.min
        BY <3>1, <3>2
      <3> QED BY <3>3 DEF most
    <2> QED BY <1>2, <2>1 DEF Quorum, RoleBased
  <1>3. CASE rules.model = "m_of_n" /\ MOfN(rules, keys, Threshold(rules))
    <2>1. Threshold(rules) \in Int
      BY DEF SignatureRules, Threshold
    <2> QED BY <1>3, <2>1, MOfNMonotone DEF Quorum
  <1> QED BY <1>1, <1>2, <1>3 DEF Quorum

\* A quorum by the code's count is enough for the model.
LEMMA QuorumIsEnough ==
  ASSUME NEW rules \in SignatureRules, NEW keys \in SUBSET Key, Quorum(rules, keys)
  PROVE  Enough(rules, keys)
  <1> DEFINE listedKeys == {k \in keys : rules.allow # {} => k \in rules.allow}
             listings(role) == {l \in UNION {{k} \X DOMAIN rules.roles[k] : k \in listedKeys} :
                                  rules.roles[l[1]][l[2]] = role}
  <1>2. listedKeys = Counted(rules, keys) /\ listedKeys \in SUBSET Key
    BY DEF Counted
  <1>3. CASE rules.model = "m_of_n" /\ MOfN(rules, keys, Threshold(rules))
    BY <1>2, <1>3 DEF Enough, MOfN
  <1>4. CASE rules.model = "weighted" /\ Weighted(rules, keys)
    BY <1>2, <1>4 DEF Enough, Weighted
  <1>5. CASE rules.model = "role_based" /\ RoleBased(rules, keys)
    <2>1. ASSUME NEW need \in rules.needs PROVE Cardinality(listings(need.role)) >= need.min
      <3> DEFINE part == Places(rules, need.role)
      <3>1. \A k \in listedKeys : part[k] = {i \in DOMAIN rules.roles[k] : rules.roles[k][i] = need.role}
        BY <1>2 DEF Places, SignatureRules
      <3>2. RoleCount(rules, keys, need.role) = Cardinality(Brought(part, listedKeys))
        BY <1>2 DEF RoleCount, Places
      <3> HIDE DEF part, listedKeys
      <3>3. ASSUME NEW l PROVE l \in Brought(part, listedKeys) <=> l \in listings(need.role)
        <4>1. l \in Brought(part, listedKeys) <=>
                \E k \in listedKeys : \E i \in DOMAIN rules.roles[k] :
                  l = <<k, i>> /\ rules.roles[k][i] = need.role
          BY <3>1 DEF Brought
        <4>2. l \in listings(need.role) <=>
                \E k \in listedKeys : \E i \in DOMAIN rules.roles[k] :
                  l = <<k, i>> /\ rules.roles[k][i] = need.role
          OBVIOUS
        <4> QED BY <4>1, <4>2
      <3>4. Brought(part, listedKeys) = listings(need.role)
        BY <3>3
      <3> QED BY <1>5, <2>1, <3>2, <3>4 DEF RoleBased
    <2> QED BY <1>5, <2>1 DEF Enough, listedKeys
  <1> QED BY <1>3, <1>4, <1>5 DEF Quorum

\* And that means M of the listed keys, enough weight among them, or enough listings of
\* every role (docs/policy-governance.md:25-40, links/policy_updates.py:207-319), for any
\* rules: weights of either sign, roles that a key lists twice.
THEOREM QuorumIsBacked == Spec => []QuorumBacked
  <1>1. Inv /\ AdmittedSigned => QuorumBacked
    <2> SUFFICES ASSUME Inv, AdmittedSigned, admitted # Absent
                 PROVE  Backed(Rules[admitted.node], admitted.update)
      BY DEF QuorumBacked
    <2> DEFINE n == admitted.node
               u == admitted.update
               keys == SignedBy(u.payload)
    <2>1. SignedByQuorum(Rules[n], u) /\ keys \in SUBSET Key /\ Rules[n] \in SignatureRules
      BY ArtifactAssumption DEF AdmittedSigned, SignedBy, Inv, IInv, TypeInv, AdmittedOK
    <2> HIDE DEF n, u
    <2>2. CASE Rules[n].required
      <3>1. PICK some \in SUBSET keys : Quorum(Rules[n], some)
        BY <2>1, <2>2 DEF SignedByQuorum
      <3>2. Enough(Rules[n], some)
        BY <2>1, <3>1, QuorumIsEnough
      <3>3. Backed(Rules[n], u)
        BY <2>1, <2>2, <3>2 DEF Backed, SignedByQuorum
      <3> QED BY <3>3 DEF n, u
    <2>3. CASE ~Rules[n].required
      <3>1. Backed(Rules[n], u)
        BY <2>1, <2>3 DEF Backed, SignedByQuorum
      <3> QED BY <3>1 DEF n, u
    <2> QED BY <2>2, <2>3
  <1> QED BY <1>1, Invariance, AdmittedIsSigned, PTL

-----------------------------------------------------------------------------
(* One more signature does no harm *)

\* A sign-add writes its input with one key's signature more, if any.
SignJobs ==
  \A p \in Operator : Busy(p) /\ job[p].cmd = "sign-add" =>
    \E k \in Key : job[p].doc = AddSignature(job[p].base, k)

LEMMA BeginJob ==
  ASSUME Inv, NEW p \in Operator, NEW cmd, NEW base, NEW doc, NEW out, NEW keys,
         NEW inPlace, Begin(p, cmd, base, doc, out, keys, inPlace)
  PROVE  \A q \in Operator :
           \/ q # p /\ job'[q] = job[q] /\ pc'[q] = pc[q]
           \/ /\ q = p /\ pc[q] = "idle" /\ pc'[q] = "open"
              /\ job'[q].cmd = cmd /\ job'[q].base = base /\ job'[q].doc = doc
              /\ job'[q].out = out /\ job'[q].keys = keys /\ job'[q].inPlace = inPlace
  <1> DEFINE j == [cmd |-> cmd, base |-> base, doc |-> doc, out |-> out, keys |-> keys,
                   inPlace |-> inPlace]
  <1>1. /\ j.cmd = cmd /\ j.base = base /\ j.doc = doc
        /\ j.out = out /\ j.keys = keys /\ j.inPlace = inPlace
    OBVIOUS
  <1>2. job' = [job EXCEPT ![p] = j] /\ pc' = [pc EXCEPT ![p] = "open"]
    BY DEF Begin
  <1> HIDE DEF j
  <1>3. job'[p] = j /\ pc[p] = "idle" /\ pc'[p] = "open"
    BY <1>2 DEF Begin, Inv, IInv, TypeInv, ControlOK
  <1>4. \A q \in Operator : q # p => job'[q] = job[q] /\ pc'[q] = pc[q]
    BY <1>2 DEF Inv, IInv, TypeInv, ControlOK
  <1> QED BY <1>1, <1>3, <1>4

LEMMA SignJobsStep == Inv /\ SignJobs /\ [Next]_vars => SignJobs'
  <1> SUFFICES ASSUME Inv, SignJobs, [Next]_vars, NEW q \in Operator,
                      pc'[q] # "idle", job'[q].cmd = "sign-add"
               PROVE  \E k \in Key : job'[q].doc = AddSignature(job'[q].base, k)
    BY DEF SignJobs, Busy
  <1>1. CASE job'[q] = job[q] /\ pc[q] # "idle"
    BY <1>1 DEF SignJobs, Busy
  <1>2. ASSUME NEW p \in Operator, NEW inp \in File, NEW out \in File, NEW k \in Key,
               SignAdd(p, inp, out, k)
        PROVE  \E i \in Key : job'[q].doc = AddSignature(job'[q].base, i)
    BY <1>1, <1>2, BeginJob DEF SignAdd
  <1>3. ASSUME NEW p \in Operator, NEW cmd \in Command \ {"sign-add"}, NEW base, NEW doc,
               NEW out, NEW keys, NEW inPlace, Begin(p, cmd, base, doc, out, keys, inPlace)
        PROVE  job'[q] = job[q] /\ pc'[q] = pc[q]
    BY <1>3, BeginJob
  <1>4. ASSUME NEW p \in Operator, OpenOut(p) \/ WriteOut(p) \/ WriteEvent(p) \/ Crash(p)
        PROVE  job'[q] = job[q] /\ pc[q] # "idle"
    BY <1>4 DEF OpenOut, WriteOut, WriteEvent, Crash, Busy, Inv, IInv, TypeInv, ControlOK
  <1>5. ASSUME UNCHANGED <<pc, job>> PROVE job'[q] = job[q] /\ pc[q] # "idle"
    BY <1>5
  <1>6. ASSUME NEW p \in Operator, NEW out \in File, NEW policy, NEW state, NEW from, NEW until,
               NEW quorum, Draft(p, out, policy, state, from, until, quorum)
        PROVE  job'[q] = job[q] /\ pc[q] # "idle"
    BY <1>3, <1>6 DEF Draft, Command
  <1>7. ASSUME NEW p \in Operator, NEW inp \in File, NEW out \in File, NEW k \in Key,
               SignOnce(p, inp, out, k)
        PROVE  job'[q] = job[q] /\ pc[q] # "idle"
    BY <1>3, <1>7 DEF SignOnce, Command
  <1>8. ASSUME NEW p \in Operator, NEW inp \in File, NEW out \in File, NEW to,
               Transition(p, inp, out, to)
        PROVE  job'[q] = job[q] /\ pc[q] # "idle"
    BY <1>3, <1>8 DEF Transition, Command
  <1> QED BY <1>1, <1>2, <1>4, <1>5, <1>6, <1>7, <1>8
         DEF Next, vars, Edit, Paste, Post, Pull, Admit, Tick

\* Where the list holds every key once at most, all of it stays.
LEMMA MoreSigners ==
  ASSUME NEW u \in Update, NEW k \in Key, \A j \in Key : Len(u.sigs[j]) <= 1
  PROVE  /\ AddSignature(u, k).payload = u.payload
         /\ Signers(u) \subseteq Signers(AddSignature(u, k))
         /\ Signers(AddSignature(u, k)) \subseteq Key
  <1> DEFINE new == AddSignature(u, k)
  <1>1. new.payload = u.payload /\ new.legacy = u.legacy
    BY DEF AddSignature, Update
  <1>2. ASSUME NEW e \in Entries(u) PROVE e \in Entries(new)
    <2>1. PICK j \in Key : \E i \in DOMAIN u.sigs[j] : e = [key |-> j, over |-> u.sigs[j][i]]
      BY EntryOf
    <2>2. PICK i \in DOMAIN u.sigs[j] : e = [key |-> j, over |-> u.sigs[j][i]]
      BY <2>1
    <2>3. u.sigs[j] \in Seq(Payload) /\ Len(u.sigs[j]) <= 1
      BY DEF Update
    <2>4. i = 1 /\ u.sigs[j] # << >>
      BY <2>2, <2>3
    <2>5. new.sigs[j] = <<u.sigs[j][1]>>
      BY <2>4, AddSignatureLists
    <2>6. 1 \in DOMAIN new.sigs[j] /\ e = [key |-> j, over |-> new.sigs[j][1]]
      BY <2>2, <2>4, <2>5
    <2> QED BY <2>6 DEF Entries
  <1>3. \A e \in Presented(new) : e.key \in Key
    <2>1. new \in Update
      BY AddSignatureType
    <2> HIDE DEF new
    <2>2. \A e \in Entries(new) : e.key \in Key
      BY <2>1 DEF Entries
    <2> QED BY <2>1, <2>2 DEF Presented, Update, Signature
  <1> QED BY <1>1, <1>2, <1>3 DEF Signers, Presented

\* Signing is safe at any time: an artifact that a node accepts before sign-add
\* is acceptable to it after, whatever its quorum model, unless the signer takes weight
\* away or the list held several entries of one key
\* (links/policy_updates.py:156-178 and 207-319).
THEOREM SigningIsSafe == Spec => []SigningKeepsAcceptance
  <1>1. Init => SignJobs
    BY DEF Init, SignJobs, Busy
  <1>2. Inv /\ SignJobs => SigningKeepsAcceptance
    <2> SUFFICES ASSUME Inv, SignJobs, NEW n \in Node, NEW p \in Operator, Busy(p),
                        Rules[n].required, job[p].cmd = "sign-add",
                        EvaluateQuorum(Rules[n], job[p].base),
                        \A k \in Key : Len(job[p].base.sigs[k]) <= 1,
                        \A k \in Signers(job[p].doc) \ Signers(job[p].base) :
                          Rules[n].weight[k] >= 0
                 PROVE  EvaluateQuorum(Rules[n], job[p].doc)
      BY DEF SigningKeepsAcceptance
    <2> DEFINE base == job[p].base
               doc  == job[p].doc
    <2>1. base \in Update
      BY DEF Inv, IInv, TypeInv, ControlOK, Job
    <2>2. PICK k \in Key : doc = AddSignature(base, k)
      BY DEF SignJobs
    <2>3. /\ doc.payload = base.payload
          /\ Signers(base) \subseteq Signers(doc) /\ Signers(doc) \subseteq Key
      BY <2>1, <2>2, MoreSigners
    <2>4. HashOK(base) /\ Quorum(Rules[n], Signers(base))
      BY DEF EvaluateQuorum
    <2>5. HashOK(doc) /\ Quorum(Rules[n], Signers(doc))
      BY <2>3, <2>4, QuorumMonotone, ArtifactAssumption DEF HashOK
    <2> QED BY <2>5 DEF EvaluateQuorum
  <1> QED BY <1>1, <1>2, Invariance, SignJobsStep, PTL DEF Spec

-----------------------------------------------------------------------------
(* What several operators do accumulates *)

\* The events that an update of this state must have behind it.
Logged(u) ==
  /\ u.state \in {"active", "rolled_back"} => Walked(u.hash, "approved", "active")
  /\ u.state = "rolled_back" => Walked(u.hash, "active", "rolled_back")

\* A command makes of what it read a document in the same state, or in the next.
Makes(j) ==
  IF j.cmd = "transition"
  THEN \E to \in State : Follows(j.base.payload.state, to) /\ j.doc = Moved(j.base, to)
  ELSE j.doc.payload = j.base.payload

LoggedInv ==
  /\ \A p \in Operator : Busy(p) => Makes(job[p])
  /\ edits = 0 => /\ \A f \in File : Parses(f) => Logged(file[f].payload)
                  /\ \A p \in Operator : Busy(p) => Logged(job[p].base.payload)

\* These keys sign in the list of the update, and every signature is over it.
Lists(u, keys) ==
  /\ keys \subseteq {s.key : s \in Entries(u)}
  /\ \A s \in Presented(u) : s.over = u.payload

\* Whoever was listed is listed after a sign-add, and so is the signer.
LEMMA AddSignatureKeys ==
  ASSUME NEW u \in Update, NEW k \in Key
  PROVE  {s.key : s \in Entries(u)} \cup {k} \subseteq {s.key : s \in Entries(AddSignature(u, k))}
  <1> DEFINE new == AddSignature(u, k)
  <1>1. ASSUME NEW j \in Key, u.sigs[j] # << >> \/ j = k
        PROVE  j \in {s.key : s \in Entries(new)}
    <2>1. 1 \in DOMAIN new.sigs[j]
      BY <1>1, AddSignatureLists
    <2>2. [key |-> j, over |-> new.sigs[j][1]] \in Entries(new)
      BY <2>1 DEF Entries
    <2> QED BY <2>2
  <1>2. ASSUME NEW s \in Entries(u) PROVE s.key \in Key /\ u.sigs[s.key] # << >>
    <2>1. PICK j \in Key : \E i \in DOMAIN u.sigs[j] : s = [key |-> j, over |-> u.sigs[j][i]]
      BY EntryOf
    <2> QED BY <2>1
  <1> QED BY <1>1, <1>2

\* Commands that write different files do not get at each other's signatures.
Apart ==
  /\ \A p, q \in Operator : Busy(p) /\ Busy(q) /\ job[p].out = job[q].out => p = q
  /\ \A p \in Operator : pc[p] \in {"open", "write"} =>
       /\ Lists(job[p].doc, job[p].keys)
       /\ job[p].inPlace => listed[job[p].out] \subseteq job[p].keys
  /\ \A f \in File : Parses(f) => Lists(file[f], listed[f])

ListInv == ~raced /\ edits = 0 => Apart

\* The start of a command, whatever the command.
Starts(p) ==
  \/ \E out \in File, policy \in Content, state \in State, from, until \in Time,
        quorum \in BOOLEAN :
       Draft(p, out, policy, state, from, until, quorum)
  \/ \E inp, out \in File : \/ \E k \in Key : SignAdd(p, inp, out, k) \/ SignOnce(p, inp, out, k)
                            \/ \E to \in State : Transition(p, inp, out, to)

\* What it is to write comes from a document that is new, or was read.
StartsFrom(j) ==
  /\ Makes(j)
  /\ \/ j.base.payload.state \in {"proposal", "approved"}
     \/ \E f \in File : Parses(f) /\ j.base = file[f]
  /\ (\A f \in File : Parses(f) => Lists(file[f], listed[f])) => Lists(j.doc, j.keys)
  /\ j.inPlace => listed[j.out] \subseteq j.keys

LEMMA Started ==
  ASSUME Inv, NEW p \in Operator, Starts(p)
  PROVE  /\ pc[p] = "idle" /\ pc'[p] = "open" /\ StartsFrom(job'[p])
         /\ \A q \in Operator : q # p => job'[q] = job[q] /\ pc'[q] = pc[q]
         /\ raced' = (raced \/ \E q \in Operator : Busy(q) /\ job[q].out = job'[p].out)
         /\ UNCHANGED <<file, events, edits, listed, missed>>
  <1>1. ASSUME NEW cmd, NEW base, NEW doc, NEW out, NEW keys, NEW inPlace,
               Begin(p, cmd, base, doc, out, keys, inPlace)
        PROVE  /\ pc[p] = "idle" /\ pc'[p] = "open"
               /\ job'[p].cmd = cmd /\ job'[p].base = base /\ job'[p].doc = doc
               /\ job'[p].out = out /\ job'[p].keys = keys /\ job'[p].inPlace = inPlace
               /\ \A q \in Operator : q # p => job'[q] = job[q] /\ pc'[q] = pc[q]
               /\ raced' = (raced \/ \E q \in Operator : Busy(q) /\ job[q].out = job'[p].out)
               /\ UNCHANGED <<file, events, edits, listed, missed>>
    <2>1. \A q \in Operator :
           \/ q # p /\ job'[q] = job[q] /\ pc'[q] = pc[q]
           \/ /\ q = p /\ pc[q] = "idle" /\ pc'[q] = "open"
              /\ job'[q].cmd = cmd /\ job'[q].base = base /\ job'[q].doc = doc
              /\ job'[q].out = out /\ job'[q].keys = keys /\ job'[q].inPlace = inPlace
      BY <1>1, BeginJob
    <2>2. /\ raced' = (raced \/ \E q \in Operator : Busy(q) /\ job[q].out = out)
          /\ UNCHANGED <<file, events, edits, listed, missed>>
      BY <1>1 DEF Begin
    <2> QED BY <2>1, <2>2
  <1>2. ASSUME NEW out \in File, NEW policy \in Content, NEW state \in State, NEW from \in Time,
               NEW until \in Time, NEW quorum \in BOOLEAN,
               Draft(p, out, policy, state, from, until, quorum)
        PROVE  \E cmd, base, doc, keys, inPlace :
                 Begin(p, cmd, base, doc, out, keys, inPlace) /\ StartsFrom(job'[p])
    <2> DEFINE doc == Built(policy, state, from, until, quorum)
    <2>1. PICK inPlace : /\ Begin(p, "draft", doc, doc, out, {}, inPlace) /\ ~inPlace
                         /\ state \in {"proposal", "approved"}
      BY <1>2 DEF Draft
    <2>2. doc.payload.state = state /\ Presented(doc) = {} /\ doc \in Update
      BY BuiltType DEF Built
    <2>3. Lists(doc, {})
      BY <2>2 DEF Lists
    <2> HIDE DEF doc
    <2>4. StartsFrom(job'[p])
      BY <1>1, <2>1, <2>2, <2>3 DEF StartsFrom, Makes
    <2> QED BY <2>1, <2>4
  <1>3. ASSUME NEW inp \in File, NEW out \in File, NEW k \in Key, SignAdd(p, inp, out, k)
        PROVE  \E cmd, base, doc, keys, inPlace :
                 Begin(p, cmd, base, doc, out, keys, inPlace) /\ StartsFrom(job'[p])
    <2> DEFINE base == file[inp]
               doc == AddSignature(base, k)
               keys == listed[inp] \cup {k}
    <2>1. base \in Update /\ Parses(inp)
      BY <1>3 DEF SignAdd, Parses
    <2>2. PICK inPlace : /\ Begin(p, "sign-add", base, doc, out, keys, inPlace)
                         /\ inPlace <=> inp = out
      BY <1>3 DEF SignAdd
    <2>3. doc.payload = base.payload
      BY <2>1 DEF AddSignature, Update
    <2>4. ASSUME Lists(base, listed[inp]) PROVE Lists(doc, keys)
      <3>1. base \in Update /\ k \in Key
        BY <2>1
      <3>2. keys \subseteq {s.key : s \in Entries(doc)}
        BY <2>4, <3>1, AddSignatureKeys DEF Lists
      <3>3. \A s \in Presented(doc) : s.over = doc.payload
        BY <2>1, <2>3, <2>4, AddSignatureType DEF Lists, Sign
      <3> QED BY <3>2, <3>3 DEF Lists
    <2> HIDE DEF base, doc
    <2>5. StartsFrom(job'[p])
      BY <1>1, <2>1, <2>2, <2>3, <2>4 DEF StartsFrom, Makes, base
    <2> QED BY <2>2, <2>5
  <1>4. ASSUME NEW inp \in File, NEW out \in File, NEW k \in Key, SignOnce(p, inp, out, k)
        PROVE  \E cmd, base, doc, keys, inPlace :
                 Begin(p, cmd, base, doc, out, keys, inPlace) /\ StartsFrom(job'[p])
    <2> DEFINE base == file[inp]
               doc == SignLegacy(base, k)
    <2>1. base \in Update /\ Parses(inp)
      BY <1>4 DEF SignOnce, Parses
    <2>2. PICK inPlace : /\ Begin(p, "sign-legacy", base, doc, out, listed[inp], inPlace)
                         /\ inPlace <=> inp = out
      BY <1>4 DEF SignOnce
    <2>3. doc.payload = base.payload /\ doc.sigs = base.sigs
      BY <2>1 DEF SignLegacy, Update
    <2>4. ASSUME Lists(base, listed[inp]) PROVE Lists(doc, listed[inp])
      BY <2>1, <2>3, <2>4, SignLegacyType DEF Lists, Sign, Entries
    <2> HIDE DEF base, doc
    <2>5. StartsFrom(job'[p])
      BY <1>1, <2>1, <2>2, <2>3, <2>4 DEF StartsFrom, Makes, base
    <2> QED BY <2>2, <2>5
  <1>5. ASSUME NEW inp \in File, NEW out \in File, NEW to \in State, Transition(p, inp, out, to)
        PROVE  \E cmd, base, doc, keys, inPlace :
                 Begin(p, cmd, base, doc, out, keys, inPlace) /\ StartsFrom(job'[p])
    <2> DEFINE base == file[inp]
               doc == Moved(base, to)
    <2>1. base \in Update /\ Parses(inp) /\ Follows(base.payload.state, to)
      BY <1>5 DEF Transition, Parses
    <2>2. PICK inPlace : Begin(p, "transition", base, doc, out, {}, inPlace) /\ ~inPlace
      BY <1>5 DEF Transition
    <2>3. Lists(doc, {})
      BY <2>1, MovedType DEF Lists
    <2> HIDE DEF base, doc
    <2>4. doc = Moved(base, to)
      BY DEF doc
    <2>5. StartsFrom(job'[p])
      BY <1>1, <2>1, <2>2, <2>3, <2>4 DEF StartsFrom, Makes, base
    <2> QED BY <2>2, <2>5
  <1>6. PICK cmd, base, doc, out, keys, inPlace :
          Begin(p, cmd, base, doc, out, keys, inPlace) /\ StartsFrom(job'[p])
    BY <1>2, <1>3, <1>4, <1>5 DEF Starts
  <1> QED BY <1>1, <1>6

ByHand(f) == Edit(f) \/ \E g \in File : Paste(f, g)

Runs(p) == OpenOut(p) \/ WriteOut(p) \/ WriteEvent(p) \/ Crash(p)

\* A step starts a command, runs one on, is an edit, or leaves the files alone.
LEMMA Steps ==
  ASSUME [Next]_vars
  PROVE  \/ \E p \in Operator : Starts(p) \/ Runs(p)
         \/ \E f \in File : ByHand(f)
         \/ UNCHANGED <<file, pc, job, events, edits, listed, missed, raced>>
  BY DEF Next, vars, Starts, Runs, ByHand, Post, Pull, Admit, Tick

\* A step of p's command leaves the others alone.
LEMMA RunsOn ==
  ASSUME Inv, NEW p \in Operator, Runs(p)
  PROVE  /\ Busy(p) /\ job[p] \in Job /\ job' = job
         /\ \A q \in Operator : q # p => pc'[q] = pc[q]
         /\ edits' = edits /\ raced' = raced
         /\ pc[p] # "open" => pc'[p] \notin {"open", "write"}
         /\ ~WriteOut(p) => listed' = listed /\ \A f \in File : file'[f] \in {file[f], Empty, Mixed}
  <1>1. Busy(p) /\ job[p] \in Job /\ job' = job
    BY DEF Runs, OpenOut, WriteOut, WriteEvent, Crash, Busy, Inv, IInv, TypeInv, ControlOK
  <1>2. pc \in [Operator -> {"idle", "open", "write", "event"}]
        /\ file \in [File -> Update \cup {Absent, Empty, Mixed}]
    BY DEF Inv, IInv, TypeInv, ControlOK, FilesOK
  <1>3. /\ \A q \in Operator : q # p => pc'[q] = pc[q]
        /\ edits' = edits /\ raced' = raced
        /\ pc[p] # "open" => pc'[p] \notin {"open", "write"}
    BY <1>2 DEF Runs, OpenOut, WriteOut, WriteEvent, Crash
  <1>4. ASSUME ~WriteOut(p)
        PROVE  listed' = listed /\ \A f \in File : file'[f] \in {file[f], Empty, Mixed}
    <2>1. CASE OpenOut(p)
      BY <1>2, <2>1 DEF OpenOut
    <2>2. CASE WriteEvent(p)
      BY <2>2 DEF WriteEvent
    <2>3. CASE Crash(p)
      BY <1>2, <2>3 DEF Crash
    <2> QED BY <1>4, <2>1, <2>2, <2>3 DEF Runs
  <1> QED BY <1>1, <1>3, <1>4

\* An event that is made, under way or known to be missed stays so.
LEMMA WalkedStays ==
  ASSUME Inv, [Next]_vars, NEW h, NEW from, NEW to, Walked(h, from, to)
  PROVE  Walked(h, from, to)'
  <1> DEFINE e == [hash |-> h, from |-> from, to |-> to]
  <1>1. CASE e \in events \cup missed
    <2>1. ASSUME NEW p \in Operator, Starts(p) \/ Runs(p) PROVE e \in events' \cup missed'
      BY <1>1, <2>1, Started DEF Runs, OpenOut, WriteOut, WriteEvent, Crash
    <2>2. e \in events' \cup missed'
      BY <1>1, <2>1, Steps DEF ByHand, Edit, Paste
    <2> QED BY <2>2 DEF Walked
  <1>2. CASE \E q \in Operator : pc[q] = "event" /\ EventOf(job[q]) = e
    <2>1. PICK q \in Operator : pc[q] = "event" /\ EventOf(job[q]) = e
      BY <1>2
    <2> HIDE DEF e
    <2>2. CASE pc'[q] = pc[q] /\ job'[q] = job[q]
      BY <2>1, <2>2 DEF Walked, EventOf, e
    <2>3. CASE ~(pc'[q] = pc[q] /\ job'[q] = job[q])
      <3>1. PICK p \in Operator : Starts(p) \/ Runs(p)
        BY <2>3, Steps DEF ByHand, Edit, Paste
      <3>2. q = p /\ (WriteEvent(q) \/ Crash(q))
        BY <2>1, <2>3, <3>1, Started, RunsOn DEF Runs, OpenOut, WriteOut
      <3>3. e \in events' \cup missed'
        BY <2>1, <3>2 DEF WriteEvent, Crash
      <3> QED BY <3>3 DEF Walked, e
    <2> QED BY <2>2, <2>3
  <1> QED BY <1>1, <1>2 DEF Walked

LEMMA LoggedStays ==
  ASSUME Inv, [Next]_vars, NEW u, Logged(u)
  PROVE  Logged(u)'
  BY WalkedStays DEF Logged

\* What a command writes has its events behind it, the last of them its own.
LEMMA WrittenIsLogged ==
  ASSUME Inv, [Next]_vars, NEW p \in Operator, WriteOut(p), Makes(job[p]),
         Logged(job[p].base.payload), NEW u, u = job[p].doc.payload
  PROVE  Logged(u)'
  <1> DEFINE j == job[p]
  <1> PICK base : base = j.base.payload
    OBVIOUS
  <1>0. /\ j \in Job /\ job' = job
        /\ pc' = [pc EXCEPT ![p] = IF j.cmd = "transition" THEN "event" ELSE "idle"]
    BY RunsOn DEF Runs, WriteOut
  <1>1. CASE j.cmd # "transition"
    BY <1>1, LoggedStays DEF Makes
  <1>2. CASE j.cmd = "transition"
    <2>1. PICK to \in State : Follows(base.state, to) /\ j.doc = Moved(j.base, to)
      BY <1>2 DEF Makes
    <2>2. u.state = to /\ u.hash = base.hash
      BY <1>0, <2>1 DEF Moved, Job, Update, Payload
    <2>3. pc'[p] = "event"
      BY <1>0, <1>2 DEF Inv, IInv, TypeInv, ControlOK
    <2>4. Walked(u.hash, base.state, to)'
      <3>1. EventOf(job'[p]) = [hash |-> u.hash, from |-> base.state, to |-> to]
        BY <1>0, <2>2 DEF EventOf
      <3> QED BY <2>3, <3>1 DEF Walked
    <2>5. CASE to = "approved"
      BY <2>2, <2>5 DEF Logged
    <2>6. CASE to = "active"
      BY <2>1, <2>2, <2>4, <2>6 DEF Logged, Follows
    <2>7. CASE to = "rolled_back"
      <3>1. base.state = "active"
        BY <2>1, <2>7 DEF Follows
      <3>2. Walked(base.hash, "approved", "active")'
        BY <3>1, WalkedStays DEF Logged
      <3> QED BY <2>2, <2>4, <2>7, <3>1, <3>2 DEF Logged
    <2> QED BY <2>1, <2>5, <2>6, <2>7 DEF Follows
  <1> QED BY <1>1, <1>2

\* WriteOut replaces one file, by the command's document or by a mixture.
LEMMA Writes ==
  ASSUME Inv, NEW p \in Operator, WriteOut(p)
  PROVE  /\ job[p].out \in File
         /\ \A f \in File : f # job[p].out => file'[f] = file[f] /\ listed'[f] = listed[f]
         /\ file'[job[p].out] \in {job[p].doc, Mixed}
         /\ listed'[job[p].out] = IF job[p].inPlace THEN listed[job[p].out] \cup job[p].keys
                                  ELSE job[p].keys
  <1>1. job[p] \in Job /\ job[p].out \in File
    BY RunsOn DEF Runs, Job
  <1>2. PICK doc \in {job[p].doc, Mixed} : file' = [file EXCEPT ![job[p].out] = doc]
    BY DEF WriteOut, Overwritten
  <1>3. file \in [File -> Update \cup {Absent, Empty, Mixed}] /\ listed \in [File -> SUBSET Key]
    BY DEF Inv, IInv, TypeInv, FilesOK
  <1>4. listed' = [listed EXCEPT ![job[p].out] =
                     IF job[p].inPlace THEN listed[job[p].out] \cup job[p].keys ELSE job[p].keys]
    BY DEF WriteOut
  <1> QED BY <1>1, <1>2, <1>3, <1>4

LEMMA LoggedStep ==
  ASSUME Inv, LoggedInv, [Next]_vars
  PROVE  LoggedInv'
  <1>1. CASE \E p \in Operator : Starts(p)
    <2>1. PICK p \in Operator : Starts(p)
      BY <1>1
    <2>2. /\ pc[p] = "idle" /\ StartsFrom(job'[p])
          /\ \A q \in Operator : q # p => job'[q] = job[q] /\ pc'[q] = pc[q]
          /\ file' = file /\ edits' = edits
      BY <2>1, Started
    <2>3. \A q \in Operator : pc'[q] # "idle" => Makes(job'[q])
      BY <2>2 DEF LoggedInv, StartsFrom, Busy
    <2>4. ASSUME edits = 0, NEW q \in Operator, pc'[q] # "idle", NEW u, u = job'[q].base.payload
          PROVE  Logged(u)'
      <3>1. Logged(u)
        BY <2>2, <2>4 DEF LoggedInv, StartsFrom, Logged, Busy
      <3> QED BY <3>1, LoggedStays
    <2>5. ASSUME edits = 0, NEW f \in File, Parses(f)', NEW u, u = file'[f].payload
          PROVE  Logged(u)'
      <3>1. Logged(u)
        BY <2>2, <2>5 DEF LoggedInv, Parses
      <3> QED BY <3>1, LoggedStays
    <2>6. Makes(job[p])' <=> Makes(job'[p])
      BY DEF Makes
    <2> QED BY <2>2, <2>3, <2>4, <2>5 DEF LoggedInv, Busy, Logged, Makes
  <1>2. CASE \E p \in Operator : Runs(p)
    <2>1. PICK p \in Operator : Runs(p)
      BY <1>2
    <2>2. /\ Busy(p) /\ job' = job /\ \A q \in Operator : q # p => pc'[q] = pc[q]
          /\ edits' = edits
          /\ ~WriteOut(p) => \A f \in File : file'[f] \in {file[f], Empty, Mixed}
      BY <2>1, RunsOn
    <2>3. \A q \in Operator : pc'[q] # "idle" => Makes(job[q])
      BY <2>2 DEF LoggedInv, Busy
    <2>4. ASSUME edits = 0, NEW q \in Operator, pc'[q] # "idle", NEW u, u = job[q].base.payload
          PROVE  Logged(u)'
      <3>1. Logged(u)
        BY <2>2, <2>4 DEF LoggedInv, Busy
      <3> QED BY <3>1, LoggedStays
    <2>5. ASSUME edits = 0, NEW f \in File, file'[f] \in Update, NEW u, u = file'[f].payload
          PROVE  Logged(u)'
      <3>1. CASE WriteOut(p) /\ f = job[p].out
        <4>1. file'[f] = job[p].doc
          BY <2>5, <3>1, Writes, Markers
        <4> QED BY <2>2, <2>5, <3>1, <4>1, WrittenIsLogged DEF LoggedInv
      <3>2. CASE ~(WriteOut(p) /\ f = job[p].out)
        <4>1. file'[f] = file[f]
          BY <2>2, <2>5, <3>2, Writes, Markers
        <4>2. Logged(u)
          BY <2>5, <4>1 DEF LoggedInv, Parses
        <4> QED BY <4>2, LoggedStays
      <3> QED BY <3>1, <3>2
    <2> QED BY <2>2, <2>3, <2>4, <2>5 DEF LoggedInv, Busy, Parses, Logged, Makes
  <1>3. CASE \E f \in File : ByHand(f)
    <2>1. UNCHANGED <<pc, job>> /\ edits' = edits + 1 /\ edits \in Nat
      BY <1>3 DEF ByHand, Edit, Paste, Inv, RestOK, BoundsOK
    <2> QED BY <2>1 DEF LoggedInv, Busy, Makes
  <1>4. CASE UNCHANGED <<file, pc, job, events, edits, listed, missed, raced>>
    <2>1. \A q \in Operator : pc'[q] # "idle" => Makes(job[q])
      BY <1>4 DEF LoggedInv, Busy
    <2>2. ASSUME edits = 0, NEW q \in Operator, pc'[q] # "idle", NEW u, u = job[q].base.payload
          PROVE  Logged(u)'
      BY <1>4, <2>2, LoggedStays DEF LoggedInv, Busy
    <2>3. ASSUME edits = 0, NEW f \in File, file[f] \in Update, NEW u, u = file[f].payload
          PROVE  Logged(u)'
      BY <2>3, LoggedStays DEF LoggedInv, Parses
    <2> QED BY <1>4, <2>1, <2>2, <2>3 DEF LoggedInv, Busy, Parses, Logged, Makes
  <1> QED BY <1>1, <1>2, <1>3, <1>4, Steps

LEMMA ApartStep ==
  ASSUME Inv, Apart, [Next]_vars, ~raced', edits = 0, edits' = 0
  PROVE  Apart'
  <1>1. CASE \E p \in Operator : Starts(p)
    <2>1. PICK p \in Operator : Starts(p)
      BY <1>1
    <2>2. /\ pc[p] = "idle" /\ pc'[p] = "open" /\ StartsFrom(job'[p])
          /\ \A q \in Operator : q # p => job'[q] = job[q] /\ pc'[q] = pc[q]
          /\ \A q \in Operator : Busy(q) => job[q].out # job'[p].out
          /\ file' = file /\ listed' = listed
      BY <2>1, Started
    <2>3. \A q, r \in Operator :
            pc'[q] # "idle" /\ pc'[r] # "idle" /\ job'[q].out = job'[r].out => q = r
      BY <2>2 DEF Apart, Busy
    <2>4. \A q \in Operator : pc'[q] \in {"open", "write"} =>
            /\ Lists(job'[q].doc, job'[q].keys)
            /\ job'[q].inPlace => listed[job'[q].out] \subseteq job'[q].keys
      BY <2>2 DEF Apart, StartsFrom
    <2>5. \A f \in File : file'[f] \in Update => Lists(file'[f], listed[f])
      BY <2>2 DEF Apart, Parses
    <2> QED BY <2>2, <2>3, <2>4, <2>5 DEF Apart, Busy, Parses
  <1>2. CASE \E p \in Operator : Runs(p)
    <2>1. PICK p \in Operator : Runs(p)
      BY <1>2
    <2>2. /\ Busy(p) /\ job[p] \in Job /\ job' = job
          /\ \A q \in Operator : q # p => pc'[q] = pc[q]
          /\ pc[p] # "open" => pc'[p] \notin {"open", "write"}
          /\ ~WriteOut(p) => listed' = listed /\ \A f \in File : file'[f] \in {file[f], Empty, Mixed}
      BY <2>1, RunsOn
    <2>3. \A q, r \in Operator :
            pc'[q] # "idle" /\ pc'[r] # "idle" /\ job[q].out = job[r].out => q = r
      BY <2>2 DEF Apart, Busy
    <2>4. ASSUME NEW q \in Operator, pc'[q] \in {"open", "write"}
          PROVE  /\ Lists(job[q].doc, job[q].keys)
                 /\ job[q].inPlace => listed'[job[q].out] \subseteq job[q].keys
      <3>1. pc[q] \in {"open", "write"} /\ job[q].out \in File
        BY <2>2, <2>4 DEF Inv, IInv, TypeInv, ControlOK, Job, Busy
      <3>2. Lists(job[q].doc, job[q].keys)
            /\ (job[q].inPlace => listed[job[q].out] \subseteq job[q].keys)
        BY <3>1 DEF Apart
      <3>3. CASE WriteOut(p)
        <4>1. q # p
          BY <2>2, <2>4, <3>3 DEF WriteOut
        <4>2. job[q].out # job[p].out
          BY <2>2, <3>1, <4>1 DEF Apart, Busy
        <4> QED BY <3>1, <3>2, <3>3, <4>2, Writes
      <3> QED BY <2>2, <3>2, <3>3
    <2>5. ASSUME NEW f \in File, file'[f] \in Update PROVE Lists(file'[f], listed'[f])
      <3>1. CASE WriteOut(p) /\ f = job[p].out
        <4>1. /\ file'[f] = job[p].doc
              /\ listed'[f] = IF job[p].inPlace THEN listed[f] \cup job[p].keys ELSE job[p].keys
          BY <2>5, <3>1, Writes, Markers
        <4>2. /\ Lists(job[p].doc, job[p].keys)
              /\ job[p].inPlace => listed[f] \subseteq job[p].keys
          BY <3>1 DEF WriteOut, Apart
        <4>3. listed'[f] = job[p].keys
          BY <4>1, <4>2
        <4> QED BY <4>1, <4>2, <4>3
      <3>2. CASE ~(WriteOut(p) /\ f = job[p].out)
        <4>1. file'[f] = file[f] /\ listed'[f] = listed[f]
          BY <2>2, <2>5, <3>2, Writes, Markers
        <4> QED BY <2>5, <4>1 DEF Apart, Parses
      <3> QED BY <3>1, <3>2
    <2> QED BY <2>2, <2>3, <2>4, <2>5 DEF Apart, Busy, Parses
  <1>3. ~\E f \in File : ByHand(f)
    BY DEF ByHand, Edit, Paste
  <1>4. CASE UNCHANGED <<file, pc, job, events, edits, listed, missed, raced>>
    BY <1>4 DEF Apart, Busy, Parses
  <1> QED BY <1>1, <1>2, <1>3, <1>4, Steps

LEMMA ListStep ==
  ASSUME Inv, ListInv, [Next]_vars
  PROVE  ListInv'
  <1> SUFFICES ASSUME ~raced', edits' = 0 PROVE Apart'
    BY DEF ListInv
  <1>1. ~raced
    BY Steps, Started, RunsOn DEF ByHand, Edit, Paste
  <1>2. edits = 0
    <2>1. ASSUME NEW f \in File, ByHand(f)
          PROVE  FALSE
      BY <2>1 DEF ByHand, Edit, Paste, Inv, RestOK, BoundsOK
    <2> QED BY <2>1, Steps, Started, RunsOn
  <1> QED BY <1>1, <1>2, ApartStep DEF ListInv

\* Nothing that operators did is missing: a lifecycle state has its events behind
\* it, and every signature added, on whatever copy, counts in the end, as long as
\* nobody edits by hand and, for the signatures, no two commands write one file
\* (links/policy_updates.py:156-178, links/cli.py:109-134 and 707-731).
THEOREM NobodysWorkIsLost == Spec => []WorkAccumulates
  <1>1. Init => LoggedInv /\ ListInv
    BY Markers DEF Init, LoggedInv, ListInv, Apart, Busy, Parses
  <1>2. Inv /\ LoggedInv /\ [Next]_vars => LoggedInv'
    BY LoggedStep
  <1>3. Inv /\ ListInv /\ [Next]_vars => ListInv'
    BY ListStep
  <1>4. Inv /\ LoggedInv /\ ListInv => WorkAccumulates
    <2> SUFFICES ASSUME Inv, LoggedInv, ListInv PROVE WorkAccumulates
      OBVIOUS
    <2>1. TransitionsLogged
      BY DEF TransitionsLogged, LoggedInv, Logged
    <2>2. SignersAccumulate
      <3> SUFFICES ASSUME ~raced, edits = 0, NEW f \in File, Parses(f)
                   PROVE  /\ listed[f] \subseteq Signers(file[f])
                          /\ \A s \in Presented(file[f]) : s.over = file[f].payload
        BY DEF SignersAccumulate
      <3>1. Lists(file[f], listed[f])
        BY DEF ListInv, Apart
      <3> QED BY <3>1 DEF Lists, Signers, Presented
    <2> QED BY <2>1, <2>2 DEF WorkAccumulates
  <1> QED BY <1>1, <1>2, <1>3, <1>4, Invariance, PTL DEF Spec

=============================================================================
