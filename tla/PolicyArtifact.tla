---------------------------- MODULE PolicyArtifact ----------------------------
(***************************************************************************)
(* The life of policy update artifacts as files: operators draft them,     *)
(* sign them one after another, move them through the lifecycle and hand   *)
(* copies around (links policy sign-add, sign-legacy and transition), and  *)
(* the nodes that keep a village apply them: they are POSTed to one node,  *)
(* and others pull them (links policy pull).                               *)
(*                                                                         *)
(* Every command reads a file, computes a document and writes it out,      *)
(* truncating the output file first; a transition then writes an event.    *)
(* Nothing locks the files, a command may die at any step, and the files   *)
(* are plain JSON that somebody may also edit by hand.                     *)
(***************************************************************************)
EXTENDS PolicyQuorum

CONSTANTS
  Node,                 \* nodes that keep the village, each with its own policy
  Rules,                \* Rules[n]: the signature rules of n's policy
  Operator,             \* shells in which commands run
  File,                 \* paths that hold artifacts
  Absent, Empty, Mixed, \* a file that is not there, is empty, does not parse
  MaxCommands, MaxEdits, MaxCrashes, MaxTime   \* bounds on what happens, and the clock

ASSUME ArtifactAssumption ==
  /\ Rules \in [Node -> SignatureRules]
  /\ {Absent, Empty, Mixed} \cap Update = {}
  /\ {MaxCommands, MaxEdits, MaxCrashes, MaxTime} \subseteq Nat
  /\ 0..MaxTime \subseteq Time

VARIABLES
  file,      \* file[f]: what the file holds
  pc,        \* pc[p]: the next step of p's command
  job,       \* job[p]: the command, what it read and what it is to write
  events,    \* lifecycle events written under artifacts/policy_lifecycle
  now,       \* the clock
  admitted,  \* the last update that a node applied, and how and when
  commands,  \* number of commands started
  edits,     \* number of edits by hand
  crashes,   \* number of commands that died
  signed,    \* observer: every signature ever made
  listed,    \* observer: listed[f]: the keys of the sign-adds that led to file[f],
             \* or were made in place, since its payload last changed
  missed,    \* observer: events that died with their command
  raced      \* observer: two commands have been writing the same file

vars == <<file, pc, job, events, now, admitted, commands, edits, crashes,
          signed, listed, missed, raced>>

Command == {"draft", "sign-add", "sign-legacy", "transition"}
Event == [hash: Content, from: State, to: State]

Busy(p) == pc[p] # "idle"
Parses(f) == file[f] \in Update

Init ==
  /\ file = [f \in File |-> Absent]
  /\ pc = [p \in Operator |-> "idle"]
  /\ job = [p \in Operator |-> Absent]
  /\ events = {}
  /\ now = 0
  /\ admitted = Absent
  /\ commands = 0 /\ edits = 0 /\ crashes = 0
  /\ signed = {}
  /\ listed = [f \in File |-> {}]
  /\ missed = {}
  /\ raced = FALSE

-----------------------------------------------------------------------------
(* Commands *)

\* p has read base and is to write doc into out; keys will then be listed, next
\* to those that out lists when base was read from it to be signed.
Begin(p, cmd, base, doc, out, keys, inPlace) ==
  /\ pc[p] = "idle"
  /\ commands < MaxCommands
  /\ commands' = commands + 1
  /\ pc' = [pc EXCEPT ![p] = "open"]
  /\ job' = [job EXCEPT ![p] = [cmd |-> cmd, base |-> base, doc |-> doc,
                                out |-> out, keys |-> keys, inPlace |-> inPlace]]
  /\ raced' = (raced \/ \E q \in Operator : Busy(q) /\ job[q].out = out)
  /\ UNCHANGED <<file, events, now, admitted, edits, crashes, listed, missed>>

\* A new update: a proposal, or approved when a norm set was compiled into it.
Draft(p, out, policy, state, from, until, quorum) ==
  /\ state \in {"proposal", "approved"}
  /\ LET doc == Built(policy, state, from, until, quorum)
     IN  Begin(p, "draft", doc, doc, out, {}, FALSE)
  /\ UNCHANGED signed

SignAdd(p, inp, out, k) ==
  /\ Parses(inp)
  /\ Begin(p, "sign-add", file[inp], AddSignature(file[inp], k), out,
           listed[inp] \cup {k}, inp = out)
  /\ signed' = signed \cup {Sign(file[inp], k)}

SignOnce(p, inp, out, k) ==
  /\ Parses(inp)
  /\ Begin(p, "sign-legacy", file[inp], SignLegacy(file[inp], k), out, listed[inp], inp = out)
  /\ signed' = signed \cup {Sign(file[inp], k)}

Transition(p, inp, out, to) ==
  /\ Parses(inp)
  /\ Follows(file[inp].payload.state, to)
  /\ Begin(p, "transition", file[inp], Moved(file[inp], to), out, {}, FALSE)
  /\ UNCHANGED signed

OpenOut(p) ==
  /\ pc[p] = "open"
  /\ file' = [file EXCEPT ![job[p].out] = Empty]
  /\ pc' = [pc EXCEPT ![p] = "write"]
  /\ UNCHANGED <<job, events, now, admitted, commands, edits, crashes, signed, listed, missed, raced>>

\* A document written over another one may leave its tail behind.
Overwritten(old, doc) == IF old \in {Empty, doc} THEN {doc} ELSE {doc, Mixed}

WriteOut(p) ==
  /\ pc[p] = "write"
  /\ LET j == job[p]
     IN  /\ \E doc \in Overwritten(file[j.out], j.doc) : file' = [file EXCEPT ![j.out] = doc]
         /\ listed' = [listed EXCEPT ![j.out] = IF j.inPlace THEN @ \cup j.keys ELSE j.keys]
         /\ pc' = [pc EXCEPT ![p] = IF j.cmd = "transition" THEN "event" ELSE "idle"]
  /\ UNCHANGED <<job, events, now, admitted, commands, edits, crashes, signed, missed, raced>>

EventOf(j) == [hash |-> j.doc.payload.hash, from |-> j.base.payload.state,
               to |-> j.doc.payload.state]

\* write_lifecycle_event
WriteEvent(p) ==
  /\ pc[p] = "event"
  /\ events' = events \cup {EventOf(job[p])}
  /\ pc' = [pc EXCEPT ![p] = "idle"]
  /\ UNCHANGED <<file, job, now, admitted, commands, edits, crashes, signed, listed, missed, raced>>

-----------------------------------------------------------------------------
(* Faults, edits and time *)

\* A command dies: between opening and writing it leaves the file as it is or
\* with a part of the document, after writing it leaves no event.
Crash(p) ==
  /\ Busy(p)
  /\ crashes < MaxCrashes
  /\ crashes' = crashes + 1
  /\ pc' = [pc EXCEPT ![p] = "idle"]
  /\ LET out == job[p].out
     IN  file' \in IF pc[p] = "write" THEN {file, [file EXCEPT ![out] = Mixed]} ELSE {file}
  /\ missed' = IF pc[p] = "event" THEN missed \cup {EventOf(job[p])} ELSE missed
  /\ UNCHANGED <<job, events, now, admitted, commands, edits, signed, listed, raced>>

\* What an edit makes of a payload: the policy is another, with its hash or without,
\* or the lifecycle state, a time or the quorum metadata is.
Edited(old) ==
  (UNION {{[old EXCEPT !.policy = c], [old EXCEPT !.policy = c, !.hash = c]} : c \in Content})
    \cup {[old EXCEPT !.state = s] : s \in State}
    \cup {[old EXCEPT !.from = t] : t \in Time} \cup {[old EXCEPT !.until = t] : t \in Time}
    \cup {[old EXCEPT !.quorum = q] : q \in BOOLEAN}

EditedBy(u, new) == [u EXCEPT !.payload = new]

\* Somebody edits an artifact by hand; the signatures stay.
Edit(f) ==
  /\ Parses(f)
  /\ edits < MaxEdits
  /\ edits' = edits + 1
  /\ \E new \in Edited(file[f].payload) : file' = [file EXCEPT ![f] = EditedBy(@, new)]
  /\ listed' = [listed EXCEPT ![f] = {}]
  /\ UNCHANGED <<pc, job, events, now, admitted, commands, crashes,
                 signed, missed, raced>>

Pasted(u, s) == [u EXCEPT !.sigs[s.key] = Append(@, s.over)]

\* Somebody copies a signature by hand from one artifact to the end of the list of
\* another, which may then hold several entries of one key.
Paste(f, g) ==
  /\ Parses(f) /\ Parses(g)
  /\ edits < MaxEdits
  /\ edits' = edits + 1
  /\ \E s \in Presented(file[g]) : file' = [file EXCEPT ![f] = Pasted(@, s)]
  /\ UNCHANGED <<pc, job, events, now, admitted, commands, crashes,
                 signed, listed, missed, raced>>

Tick ==
  /\ now < MaxTime
  /\ now' = now + 1
  /\ UNCHANGED <<file, pc, job, events, admitted, commands, edits, crashes,
                 signed, listed, missed, raced>>

-----------------------------------------------------------------------------
(* Villages *)

Admit(n, f, by) ==
  /\ admitted' = [node |-> n, update |-> file[f], by |-> by, at |-> now]
  /\ UNCHANGED <<file, pc, job, events, now, commands, edits, crashes,
                 signed, listed, missed, raced>>

\* POST /villages/{id}/policy, for the signatures and what follows from them.
Post(n, f) ==
  /\ Parses(f)
  /\ EvaluateQuorum(Rules[n], file[f])
  /\ Admit(n, f, "post")

\* links policy pull, of a feed that offers this update, with or without a manifest
\* that is in order: it gives up before it evaluates when signature material that was
\* listed does not verify, or the manifest does not.  An update that was fetched by its
\* hash is evaluated all the same.
Pull(n, f, byHash, manifestOK) ==
  /\ Parses(f)
  /\ byHash \/ Presented(file[f]) = {} \/ VerifyAny(file[f])
  /\ manifestOK
  /\ Decision(Rules[n], file[f], now, manifestOK) = "apply"
  /\ Admit(n, f, "pull")

Next ==
  \/ \E p \in Operator :
       \/ \E out \in File, policy \in Content, state \in State, from, until \in Time,
             quorum \in BOOLEAN :
            Draft(p, out, policy, state, from, until, quorum)
       \/ \E inp, out \in File :
            \/ \E k \in Key : SignAdd(p, inp, out, k) \/ SignOnce(p, inp, out, k)
            \/ \E to \in State : Transition(p, inp, out, to)
       \/ OpenOut(p) \/ WriteOut(p) \/ WriteEvent(p)
       \/ Crash(p)
  \/ \E f \in File :
       \/ Edit(f)
       \/ \E g \in File : Paste(f, g)
       \/ \E n \in Node : \/ Post(n, f)
                         \/ \E byHash, manifestOK \in BOOLEAN : Pull(n, f, byHash, manifestOK)
  \/ Tick

Spec == Init /\ [][Next]_vars

-----------------------------------------------------------------------------
(* Properties *)

Job == [cmd: Command, base: Update, doc: Update, out: File, keys: SUBSET Key,
        inPlace: BOOLEAN]

FilesOK == /\ file \in [File -> Update \cup {Absent, Empty, Mixed}]
           /\ listed \in [File -> SUBSET Key]

ControlOK ==
  /\ pc \in [Operator -> {"idle", "open", "write", "event"}]
  /\ job \in [Operator -> Job \cup {Absent}]
  /\ \A p \in Operator : Busy(p) => job[p] \in Job

AdmittedOK ==
  admitted \in [node: Node, update: Update, by: {"post", "pull"}, at: Time] \cup {Absent}

BoundsOK ==
  /\ now \in 0..MaxTime
  /\ commands \in 0..MaxCommands /\ edits \in 0..MaxEdits /\ crashes \in 0..MaxCrashes

\* Types, and that a busy operator has a job.
TypeOK ==
  /\ FilesOK /\ ControlOK /\ AdmittedOK /\ BoundsOK
  /\ events \subseteq Event /\ missed \subseteq Event
  /\ signed \subseteq Signature
  /\ raced \in BOOLEAN

\* The keys that have signed exactly this payload.
SignedBy(payload) == {k \in Key : [key |-> k, over |-> payload] \in signed}

\* The quorum models of docs/policy-governance.md:25-40: M of the listed keys, listed
\* keys of enough weight, enough listings of every role among them.
Enough(rules, keys) ==
  LET listedKeys == {k \in keys : rules.allow # {} => k \in rules.allow}
      listings(role) == {l \in UNION {{k} \X DOMAIN rules.roles[k] : k \in listedKeys} :
                           rules.roles[l[1]][l[2]] = role}
  IN  CASE rules.model = "m_of_n" -> Cardinality(listedKeys) >= Threshold(rules)
        [] rules.model = "weighted" -> Weight(rules, listedKeys) >= rules.needWeight
        [] OTHER -> \A need \in rules.needs : Cardinality(listings(need.role)) >= need.min

\* Where signatures are required, whatever a node applies has been signed, in
\* this lifecycle state, with these times and this metadata, by keys that are enough
\* for its quorum, and the hash they signed is the hash of the policy.  A key that
\* lists a role twice fills two of its seats, as the code counts.  Where signatures
\* are optional the same holds of one key that counts, if any has signed.
Backed(rules, u) ==
  IF rules.required
  THEN HashOK(u) /\ \E keys \in SUBSET SignedBy(u.payload) : Enough(rules, keys)
  ELSE Presented(u) = {} \/ (HashOK(u) /\ Counted(rules, SignedBy(u.payload)) # {})

QuorumBacked == admitted # Absent => Backed(Rules[admitted.node], admitted.update)

\* Nothing gets ahead of the lifecycle: an update that is active or rolled back
\* has the events that took it there, unless the event's command is still
\* running or died, or the artifact was edited by hand.
Walked(h, from, to) ==
  LET e == [hash |-> h, from |-> from, to |-> to]
  IN  \/ e \in events \cup missed
      \/ \E p \in Operator : pc[p] = "event" /\ EventOf(job[p]) = e

TransitionsLogged ==
  edits = 0 => \A f \in File : Parses(f) =>
    LET u == file[f].payload
    IN  /\ u.state \in {"active", "rolled_back"} => Walked(u.hash, "approved", "active")
        /\ u.state = "rolled_back" => Walked(u.hash, "active", "rolled_back")

\* Signers who sign one after another, on whatever copies, all count in the
\* end, unless two commands have been writing one file, and no signature of an
\* earlier payload is left over.
SignersAccumulate ==
  ~raced /\ edits = 0 => \A f \in File : Parses(f) =>
    /\ listed[f] \subseteq Signers(file[f])
    /\ \A s \in Presented(file[f]) : s.over = file[f].payload

\* The work of several operators accumulates: no signature of theirs, and no event of
\* a transition, is missing in the end.
WorkAccumulates == TransitionsLogged /\ SignersAccumulate

\* Where signatures are required, one more signature never turns an acceptable
\* artifact into one that is refused, whatever else was signed, copied or edited.
\* Two things can: the new signer takes weight away, or the list held several entries
\* of one key, of which sign-add keeps the first.
SigningKeepsAcceptance ==
  \A n \in Node, p \in Operator :
    LET old == job[p].base
        doc == job[p].doc
    IN  /\ Rules[n].required
        /\ Busy(p) /\ job[p].cmd = "sign-add" /\ EvaluateQuorum(Rules[n], old)
        /\ \A k \in Key : Len(old.sigs[k]) <= 1
        /\ \A k \in Signers(doc) \ Signers(old) : Rules[n].weight[k] >= 0
        => EvaluateQuorum(Rules[n], doc)

\* links/policy_updates.py:62, "the update must not be applied after this time".
NeverAppliedLate == admitted # Absent => admitted.at <= admitted.update.payload.until

=============================================================================
