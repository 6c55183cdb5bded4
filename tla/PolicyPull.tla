------------------------------ MODULE PolicyPull ------------------------------
(***************************************************************************)
(* Federation: every node publishes the updates posted to it in a feed,    *)
(* and a node pulls from a peer (links policy pull): it asks for the       *)
(* manifest, reads the feed page by page, fetches the ancestors that the   *)
(* pages lack one by one, chooses an update and applies it.                *)
(*                                                                         *)
(* Every request is a message of its own: between two of them updates are  *)
(* posted at either node, in any order of their creation times, and an     *)
(* update that is posted again is for a moment unreadable.  Requests get   *)
(* lost.  What a pull applies is not put into its own node's feed.         *)
(***************************************************************************)
EXTENDS Reconcile

CONSTANTS
  Node,       \* nodes that keep the village
  Accepts,    \* [Node -> SUBSET Feedable]: updates a node takes as a POST
  Applies,    \* [Node -> SUBSET Feedable]: updates evaluate_policy_update applies
  Vouched,    \* [Node -> SUBSET Node]: peers whose manifest satisfies n's policy
  Unsound,    \* updates whose signature material does not verify
  Nothing,    \* no update
  Limit, MaxFetch,               \* page_limit, max_fetch
  MaxPosts, MaxPulls, MaxFaults  \* bounds on what happens

ASSUME PullAssumption ==
  /\ {Accepts, Applies} \subseteq [Node -> SUBSET Feedable]
  /\ Vouched \in [Node -> SUBSET Node]
  /\ Unsound \subseteq Feedable
  /\ Nothing \notin Feedable
  /\ Limit \in Nat \ {0}
  /\ {MaxFetch, MaxPosts, MaxPulls, MaxFaults} \subseteq Nat

VARIABLES
  feed,    \* feed[n]: updates that can be read under n's policy_updates/
  torn,    \* torn[n]: updates whose file is there but not written yet
  active,  \* active[n]: the update in force at n
  pc,      \* pc[n]: the next step of n's pull
  job,     \* job[n]: n's pull, or its last one
  posts, pulls, faults,  \* numbers of what has happened
  base     \* observer: base[n]: what n's pull was to read: updates that its peer
           \* listed when it began and at every moment since

vars == <<feed, torn, active, pc, job, posts, pulls, faults, base>>

Busy(n) == pc[n] # "idle"

NoJob == [from |-> Nothing, since |-> NoHash, cursor |-> NoHash, manifest |-> FALSE,
          got |-> {}, seen |-> {}, local |-> {}, wanted |-> {}, gone |-> {},
          fetched |-> 0, chosen |-> Nothing]

Init ==
  /\ feed = [n \in Node |-> {}]
  /\ torn = [n \in Node |-> {}]
  /\ active = [n \in Node |-> Nothing]
  /\ pc = [n \in Node |-> "idle"]
  /\ job = [n \in Node |-> NoJob]
  /\ posts = 0 /\ pulls = 0 /\ faults = 0
  /\ base = [n \in Node |-> {}]

Goto(n, at) == pc' = [pc EXCEPT ![n] = at]
Lost == faults < MaxFaults /\ faults' = faults + 1

-----------------------------------------------------------------------------
(* Posting *)

\* store_policy_update opens the file of the update, which truncates it ...
StoreOpen(n, u) ==
  /\ posts < MaxPosts
  /\ u \in Accepts[n] \ torn[n]
  /\ posts' = posts + 1
  /\ torn' = [torn EXCEPT ![n] = @ \cup {u}]
  /\ feed' = [feed EXCEPT ![n] = @ \ {u}]
  /\ base' = [q \in Node |-> IF job[q].from = n
                             THEN base[q] \cap Since(feed[n] \ {u}, job[q].since)
                             ELSE base[q]]
  /\ UNCHANGED <<active, pc, job, pulls, faults>>

\* ... and writes it; the handler goes on to apply the update.
StoreWrite(n, u) ==
  /\ u \in torn[n]
  /\ torn' = [torn EXCEPT ![n] = @ \ {u}]
  /\ feed' = [feed EXCEPT ![n] = @ \cup {u}]
  /\ active' = [active EXCEPT ![n] = u]
  /\ UNCHANGED <<pc, job, posts, pulls, faults, base>>

-----------------------------------------------------------------------------
(* Pulling *)

\* The manifest is asked for first; an answer that does not come is no manifest.
Start(n, m, since) ==
  /\ pc[n] = "idle"
  /\ n # m
  /\ pulls < MaxPulls
  /\ pulls' = pulls + 1
  /\ \E manifest \in BOOLEAN :
       /\ job' = [job EXCEPT ![n] = [NoJob EXCEPT !.from = m, !.since = since,
                                                  !.manifest = manifest]]
       /\ IF manifest THEN UNCHANGED faults ELSE Lost
  /\ base' = [base EXCEPT ![n] = Since(feed[m], since)]
  /\ Goto(n, "page")
  /\ UNCHANGED <<feed, torn, active, posts>>

\* What n's peer lists at this moment.
Listed(n) == Since(feed[job[n].from], job[n].since)

\* The next page is received; next_cursor is the hash of its last update as
\* long as the feed goes on.
NextPage(n) ==
  /\ pc[n] = "page"
  /\ LET rest == Rest(Listed(n), job[n].cursor)
         page == Page(rest, Limit)
         received == [job[n] EXCEPT !.got = Learn(@, page), !.seen = @ \cup page]
     IN  \/ /\ page = rest
            /\ job' = [job EXCEPT ![n] = received]
            /\ Goto(n, "check")
         \/ /\ page # rest
            /\ \E last \in page :
                 /\ \A u \in page : u = last \/ Before(u, last)
                 /\ job' = [job EXCEPT ![n] = [received EXCEPT !.cursor = last.hash]]
            /\ UNCHANGED pc
  /\ UNCHANGED <<feed, torn, active, posts, pulls, faults, base>>

\* A page is lost: the pull falls back on the endpoint that lists everything.
PageLost(n) ==
  /\ pc[n] = "page"
  /\ Lost
  /\ Goto(n, "whole")
  /\ UNCHANGED <<feed, torn, active, job, posts, pulls, base>>

WholeFeed(n) ==
  /\ pc[n] = "whole"
  /\ job' = [job EXCEPT ![n].got = Learn({}, Listed(n)), ![n].seen = Listed(n)]
  /\ Goto(n, "check")
  /\ UNCHANGED <<feed, torn, active, posts, pulls, faults, base>>

WholeLost(n) ==
  /\ pc[n] = "whole"
  /\ Lost
  /\ Goto(n, "idle")
  /\ UNCHANGED <<feed, torn, active, job, posts, pulls, base>>

\* No updates, signature material that does not verify, or a manifest that the
\* local policy refuses end the pull.
Stops(j, n) ==
  \/ j.seen = {}
  \/ j.seen \cap Unsound # {}
  \/ j.manifest /\ j.from \notin Vouched[n]

Refuse(n) ==
  /\ pc[n] = "check"
  /\ Stops(job[n], n)
  /\ Goto(n, "idle")
  /\ UNCHANGED <<feed, torn, active, job, posts, pulls, faults, base>>

\* The local feed is read, and the missing ancestors are listed.
Compare(n) ==
  /\ pc[n] = "check"
  /\ ~Stops(job[n], n)
  /\ job' = [job EXCEPT ![n].local = feed[n],
                        ![n].wanted = Parents(job[n].got) \ Hashes(job[n].got \cup feed[n])]
  /\ Goto(n, "fill")
  /\ UNCHANGED <<feed, torn, active, posts, pulls, faults, base>>

-----------------------------------------------------------------------------
(* fill_history_gaps: its queue is a set, it never asks twice. *)

\* Mutant of Fetched: the parent of a fetched update is not followed.
Fetched_Once(j, h, u) ==
  [j EXCEPT !.got = @ \cup {u}, !.fetched = @ + 1, !.wanted = @ \ {h}]

\* j after u has been fetched as the update with hash h: its own parent is
\* wanted next unless it is known or has been asked for in vain.
Fetched(j, h, u) ==
  LET known == Hashes(j.got \cup j.local \cup {u})
  IN  [j EXCEPT !.got = @ \cup {u}, !.fetched = @ + 1,
                !.wanted = (@ \cup Parents({u})) \ (known \cup j.gone)]

Fetch(n, h) ==
  /\ pc[n] = "fill"
  /\ h \in job[n].wanted
  /\ job[n].fetched < MaxFetch
  /\ LET found == Named(feed[job[n].from], h)
     IN  \/ /\ found # {}
            /\ job' = [job EXCEPT ![n] = Fetched(@, h, Oldest(found))]
            /\ UNCHANGED faults
         \/ \* not found, or the answer is lost
            /\ (found = {} /\ UNCHANGED faults) \/ (found # {} /\ Lost)
            /\ job' = [job EXCEPT ![n].wanted = @ \ {h}, ![n].gone = @ \cup {h}]
  /\ UNCHANGED <<feed, torn, active, pc, posts, pulls, base>>

\* Nothing is wanted any more, or too much has been fetched: an update is
\* chosen, and applied if the local policy says so.
Select(n) ==
  /\ pc[n] = "fill"
  /\ job[n].wanted = {} \/ job[n].fetched >= MaxFetch
  /\ LET j == job[n]
         chosen == Chosen(j.local, j.got)
     IN  /\ job' = [job EXCEPT ![n].chosen = chosen, ![n].wanted = {},
                               ![n].gone = @ \cup j.wanted]
         /\ active' = IF chosen \in Applies[n] THEN [active EXCEPT ![n] = chosen]
                                               ELSE active
  /\ Goto(n, "idle")
  /\ UNCHANGED <<feed, torn, posts, pulls, faults, base>>

-----------------------------------------------------------------------------

\* The steps a pull takes by itself.
Advance(n) ==
  \/ NextPage(n) \/ WholeFeed(n) \/ Refuse(n) \/ Compare(n)
  \/ \E h \in Hash : Fetch(n, h)
  \/ Select(n)

PullStep(n) == Advance(n) \/ PageLost(n) \/ WholeLost(n)

Next ==
  \E n \in Node :
    \/ \E u \in Feedable : StoreOpen(n, u) \/ StoreWrite(n, u)
    \/ \E m \in Node, since \in Hash \cup {NoHash} : Start(n, m, since)
    \/ PullStep(n)

Spec == Init /\ [][Next]_vars

\* A command that has started runs on; nobody has to post or to pull, and no
\* request has to be lost.
FairSpec == Spec /\ \A n \in Node : WF_vars(Advance(n))

-----------------------------------------------------------------------------
(* Properties *)

Job == [from: Node \cup {Nothing}, since: Hash \cup {NoHash}, cursor: Hash \cup {NoHash},
        manifest: BOOLEAN, got: SUBSET Feedable, seen: SUBSET Feedable,
        local: SUBSET Feedable, wanted: SUBSET Hash, gone: SUBSET Hash,
        fetched: Nat, chosen: Feedable \cup {Nothing}]

\* Types, and that a dictionary by hash has one update for a hash.
TypeOK ==
  /\ feed \in [Node -> SUBSET Feedable] /\ torn \in [Node -> SUBSET Feedable]
  /\ active \in [Node -> Feedable \cup {Nothing}]
  /\ pc \in [Node -> {"idle", "page", "whole", "check", "fill"}]
  /\ job \in [Node -> Job]
  /\ posts \in Nat /\ pulls \in Nat /\ faults \in Nat
  /\ base \in [Node -> SUBSET Feedable]
  /\ \A n \in Node : Busy(n) => job[n].from \in Node
  /\ \A n \in Node : \A u, v \in job[n].got : u.hash = v.hash => u = v

\* The feed of m has never returned to an earlier policy.
NoReturn(m) == \A u, v \in feed[m] \cup torn[m] : u.hash = v.hash => u = v

\* Paging misses nothing: when a pull has read its pages it has every update
\* that was in the peer's feed all the time, whatever was posted between two
\* pages, as long as no policy hash occurs twice in that feed.
PagesComplete ==
  \A n \in Node : pc[n] \in {"check", "fill"} /\ NoReturn(job[n].from) =>
    base[n] \subseteq job[n].seen

\* The history of what a pull chooses from is closed, or the receipt names the
\* parents that are missing.
GapsNamed ==
  \A n \in Node : job[n].chosen # Nothing =>
    Parents(job[n].got) \subseteq Hashes(job[n].got \cup job[n].local) \cup job[n].gone

\* A node that publishes nothing itself follows: what it applies is at least as
\* late as everything its peer had when the pull began.
FollowerNotBehind ==
  \A n \in Node :
    /\ job[n].chosen # Nothing /\ job[n].local = {}
    /\ NoReturn(job[n].from)
    => \A u \in base[n] : ~Before(job[n].chosen, u)

\* A pull never goes back behind the local head when the peer has sent all that
\* the node has, forks and gaps or not.
NeverBack ==
  \A n \in Node :
    LET j == job[n]
    IN  j.chosen # Nothing /\ j.local \subseteq j.got =>
          \A u \in j.local : ~Before(j.chosen, u)

\* Every pull ends, as long as no policy hash occurs twice in a feed.
PullEnds ==
  [](\A m \in Node : NoReturn(m)) => \A n \in Node : Busy(n) ~> ~Busy(n)

=============================================================================
