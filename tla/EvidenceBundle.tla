--------------------------- MODULE EvidenceBundle ---------------------------
(***************************************************************************)
(* Building and verifying an evidence bundle (evidence_bundle.py): the     *)
(* sources are copied into the directory of the event, each copy is        *)
(* hashed, then the manifest and the digest are written.  The sources are  *)
(* other programs' files and change meanwhile; nothing is locked, and the  *)
(* same event can be built again, by another process at the same time too. *)
(* A source that already is its own destination is hashed where it lies.   *)
(*                                                                         *)
(* The hash of a file stands for its contents.  The sources of a build     *)
(* have distinct names, none of them manifest.json or                      *)
(* evidence-digest.json (the README says what happens otherwise).          *)
(***************************************************************************)
EXTENDS Naturals

CONSTANTS
    Sources,     \* files
    Builders,    \* processes
    MaxVersion,  \* bound: how often a source changes
    MaxBuilds    \* bound

\* Contents: the version of a source that was copied, 0 for a file that is being copied.
Contents == 0..MaxVersion

VARIABLES
    source,    \* contents of each source, or 0 where it does not exist
    copy,      \* files in the bundle, with their contents
    manifest,  \* the manifest: hashes by names
    digest,    \* the digest: the manifest it is of
    job,       \* what each builder is doing
    builds,    \* how many there were
    touched    \* files of the bundle that other programs wrote since they were last hashed

vars == <<source, copy, manifest, digest, job, builds, touched>>

Idle == [pc |-> "idle"]
Building(b) == job[b].pc \notin {"idle", "built"}

\* Files that are not there, or opened and not yet written.
NoFile == [state |-> "none"]
Opened == [state |-> "opened"]
Written(m) == [state |-> "written", is |-> m]

\* Another program writes a source anew, or removes it.
Change(s) ==
    /\ \/ \E v \in 1..MaxVersion : v > source[s] /\ source' = [source EXCEPT ![s] = v]
       \/ source[s] # 0 /\ source' = [source EXCEPT ![s] = 0]
    /\ UNCHANGED <<copy, manifest, digest, job, builds, touched>>

\* Another program writes a file in the bundle: a source that lies there.
Touch(s) ==
    /\ \E v \in 1..MaxVersion :
          /\ s \in DOMAIN copy => v > copy[s]
          /\ copy' = [f \in DOMAIN copy \cup {s} |-> IF f = s THEN v ELSE copy[f]]
    /\ touched' = touched \cup {s}
    /\ UNCHANGED <<source, manifest, digest, job, builds>>

\* The sources, and those of them that are given as files of the bundle.
Start(b, chosen, inside) ==
    /\ job[b].pc \in {"idle", "built"}
    /\ builds < MaxBuilds
    /\ builds' = builds + 1
    /\ job' = [c \in Builders |->
          IF c = b THEN [pc |-> "next", left |-> chosen, inside |-> inside, hashes |-> [s \in {} |-> 0],
                         alone |-> \A d \in Builders \ {b} : ~ Building(d)]
          ELSE IF Building(c) THEN [job[c] EXCEPT !.alone = FALSE] ELSE Idle]
    /\ touched' = {}
    /\ UNCHANGED <<source, copy, manifest, digest>>

\* The next source, where it is: otherwise the build is given up half way.
OpenCopy(b, s) ==
    /\ job[b].pc = "next"
    /\ s \in job[b].left \ job[b].inside
    /\ IF source[s] = 0
       THEN job' = [job EXCEPT ![b] = Idle] /\ UNCHANGED copy
       ELSE /\ copy' = [f \in DOMAIN copy \cup {s} |-> IF f = s THEN 0 ELSE copy[f]]
            /\ job' = [job EXCEPT ![b] = [pc |-> "copy", of |-> s, was |-> source[s], left |-> @.left \ {s},
                                          inside |-> @.inside, hashes |-> @.hashes, alone |-> @.alone]]
    /\ UNCHANGED <<source, manifest, digest, builds, touched>>

\* A source that is its own destination is not copied.
FindInside(b, s) ==
    /\ job[b].pc = "next"
    /\ s \in job[b].left \cap job[b].inside
    /\ job' = [job EXCEPT ![b] =
          IF s \in DOMAIN copy
          THEN [pc |-> "hash", of |-> s, left |-> @.left \ {s}, inside |-> @.inside,
                hashes |-> @.hashes, alone |-> @.alone]
          ELSE Idle]
    /\ UNCHANGED <<source, copy, manifest, digest, builds, touched>>

\* copy2: of the source as it was opened, or as it has become since.
FillCopy(b) ==
    /\ job[b].pc = "copy"
    /\ \E v \in {job[b].was, source[job[b].of]} \ {0} : copy' = [copy EXCEPT ![job[b].of] = v]
    /\ job' = [job EXCEPT ![b].pc = "hash"]
    /\ UNCHANGED <<source, manifest, digest, builds, touched>>

\* Mutant of HashCopy: the source is hashed.
HashCopy_Source(b) ==
    /\ job[b].pc = "hash"
    /\ job' = [job EXCEPT ![b] = [pc |-> "next", left |-> @.left, inside |-> @.inside, alone |-> @.alone,
          hashes |-> [f \in DOMAIN @.hashes \cup {job[b].of} |->
                         IF f = job[b].of THEN source[f] ELSE @.hashes[f]]]]
    /\ touched' = touched \ {job[b].of}
    /\ UNCHANGED <<source, copy, manifest, digest, builds>>

\* The file in the bundle is read again.
HashCopy(b) ==
    /\ job[b].pc = "hash"
    /\ job' = [job EXCEPT ![b] = [pc |-> "next", left |-> @.left, inside |-> @.inside, alone |-> @.alone,
          hashes |-> [f \in DOMAIN @.hashes \cup {job[b].of} |->
                         IF f = job[b].of THEN copy[f] ELSE @.hashes[f]]]]
    /\ touched' = touched \ {job[b].of}
    /\ UNCHANGED <<source, copy, manifest, digest, builds>>

OpenManifest(b) ==
    /\ job[b].pc = "next" /\ job[b].left = {}
    /\ manifest' = Opened
    /\ job' = [job EXCEPT ![b].pc = "manifest"]
    /\ UNCHANGED <<source, copy, digest, builds, touched>>

FillManifest(b) ==
    /\ job[b].pc = "manifest"
    /\ manifest' = Written(job[b].hashes)
    /\ job' = [job EXCEPT ![b].pc = "digest"]
    /\ UNCHANGED <<source, copy, digest, builds, touched>>

\* The digest is of the manifest that is read back.
WriteDigest(b) ==
    /\ job[b].pc = "digest"
    /\ digest' = manifest
    /\ job' = [job EXCEPT ![b] = [pc |-> "built", alone |-> @.alone]]
    /\ UNCHANGED <<source, copy, manifest, builds, touched>>

\* The builder dies.
Die(b) ==
    /\ Building(b)
    /\ job' = [job EXCEPT ![b] = Idle]
    /\ UNCHANGED <<source, copy, manifest, digest, builds, touched>>

\* verify_evidence_bundle: the errors, of the files that the manifest names and no other.
Errors == {f \in DOMAIN manifest.is : ~ (f \in DOMAIN copy /\ copy[f] = manifest.is[f])}

Init ==
    /\ source \in [Sources -> 0..1]
    /\ copy = [f \in {} |-> 0]
    /\ manifest = NoFile /\ digest = NoFile
    /\ job = [b \in Builders |-> Idle]
    /\ builds = 0
    /\ touched = {}

Next ==
    \/ \E s \in Sources : Change(s) \/ Touch(s)
    \/ \E b \in Builders :
          \/ \E chosen \in SUBSET Sources : \E inside \in SUBSET chosen : Start(b, chosen, inside)
          \/ \E s \in Sources : OpenCopy(b, s) \/ FindInside(b, s)
          \/ FillCopy(b) \/ HashCopy(b)
          \/ OpenManifest(b) \/ FillManifest(b) \/ WriteDigest(b) \/ Die(b)

Spec == Init /\ [][Next]_vars

-----------------------------------------------------------------------------
(* Properties *)

\* A bundle that was built by one builder alone has a manifest, its digest is of that
\* manifest, and it verifies until somebody builds it again, whatever the sources outside
\* did meanwhile and whatever an earlier build has left behind: errors are found only in
\* files that another program wrote in the bundle after they were hashed, as it can a
\* source that lies there.
BuiltAloneVerifies ==
    \A b \in Builders :
        (job[b].pc = "built" /\ job[b].alone /\ \A c \in Builders : ~ Building(c))
        => manifest.state = "written" /\ Errors \subseteq touched /\ digest = manifest
=============================================================================
