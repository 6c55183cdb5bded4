------------------------------ MODULE Reconcile ------------------------------
(***************************************************************************)
(* The order of policy updates in a feed, the pages in which a feed is     *)
(* read (links/policy_feed.py), and the choice between a local and a       *)
(* remote history (links/reconcile.py).                                    *)
(*                                                                         *)
(* A feed is the set of its updates: the code sorts it by (created_at,     *)
(* policy_hash) whenever it reads it, and these two name the file an       *)
(* update is stored in.  Hashes are numbers in the order of their strings. *)
(***************************************************************************)
EXTENDS Integers, FiniteSets

CONSTANTS
  Hash,     \* hashes of policies
  NoHash,   \* no cursor, no parent, no head
  Feedable  \* the updates that may get into some feed

Update == [at: Nat, hash: Hash, prev: Hash \cup {NoHash}]

ASSUME FeedAssumption ==
  /\ Hash \subseteq Nat
  /\ NoHash \notin Hash
  /\ Feedable \subseteq Update
  /\ IsFiniteSet(Feedable)
  \* an update is the file it is stored in
  /\ \A u, v \in Feedable : u.at = v.at /\ u.hash = v.hash => u = v

-----------------------------------------------------------------------------
(* Feeds *)

Before(u, v) == u.at < v.at \/ (u.at = v.at /\ u.hash < v.hash)

Hashes(S) == {u.hash : u \in S}
Parents(S) == {u.prev : u \in S} \ {NoHash}

\* Mutant of Latest: the feed is sorted the other way round.
Latest_Reversed(S) == CHOOSE u \in S : \A v \in S : v = u \/ Before(u, v)

\* The last and the first update of a set that is not empty.
Latest(S) == CHOOSE u \in S : \A v \in S : v = u \/ Before(v, u)

Oldest(S) == CHOOSE u \in S : \A v \in S : v = u \/ Before(u, v)

Named(S, h) == {u \in S : u.hash = h}

\* filter_updates_since: what follows an update with hash h, all without one.
Since(S, h) ==
  IF h = NoHash THEN S ELSE {u \in S : \E v \in S : v.hash = h /\ Before(v, u)}

\* Mutant of Rest: the page starts one update too late.
Rest_Skipping(S, cursor) ==
  IF Named(S, cursor) = {} THEN S
  ELSE {u \in S : \E v \in S : Before(Oldest(Named(S, cursor)), v) /\ Before(v, u)}

\* Mutant of Rest: the page starts with the cursor.
Rest_Including(S, cursor) ==
  {u \in S : \A v \in Named(S, cursor) : ~Before(u, v)}

\* What paginate_updates still has to return: the first update with the
\* cursor's hash is where it goes on, and without one it starts again.
Rest(S, cursor) ==
  IF Named(S, cursor) = {} THEN S
  ELSE {u \in S : Before(Oldest(Named(S, cursor)), u)}

\* The first limit updates of S.
Page(S, limit) == {u \in S : Cardinality({v \in S : Before(v, u)}) < limit}

\* A dictionary by hash takes in items, in their order: the last one of a hash
\* stays.
Learn(known, items) ==
  {u \in known : u.hash \notin Hashes(items)}
  \cup {u \in items : \A v \in items : v.hash = u.hash => ~Before(u, v)}

-----------------------------------------------------------------------------
(* Reconciliation *)

HeadHash(S) == IF S = {} THEN NoHash ELSE Latest(S).hash

\* detect_forks finds something: two policies with one parent.
Forked(S) == \E u, v \in S : u.prev = v.prev /\ u.prev # NoHash /\ u.hash # v.hash

\* The parents named by _lineage_issues.
Orphaned(S) == Parents(S) \ Hashes(S)

\* selected_head of reconcile: the remote head when it is known locally, or
\* when the two histories fit together; otherwise the local head if there is one.
SelectedHead(local, remote) ==
  LET all == local \cup remote
      fits == HeadHash(remote) # NoHash /\ ~Forked(all) /\ Orphaned(all) = {}
  IN  IF HeadHash(remote) \in Hashes(local) \/ fits \/ local = {}
      THEN HeadHash(remote)
      ELSE HeadHash(local)

\* The update a pull goes on with: the selected one if it is a remote one, and
\* the latest remote one otherwise.
Chosen(local, remote) ==
  LET selected == Named(remote, SelectedHead(local, remote))
  IN  IF selected # {} THEN CHOOSE u \in selected : TRUE ELSE Latest(remote)

=============================================================================
