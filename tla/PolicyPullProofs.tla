---------------------------- MODULE PolicyPullProofs ----------------------------
(***************************************************************************)
(* What PolicyPull promises, for every set of nodes and updates, every     *)
(* page size and every number of posts, pulls and lost messages: paging    *)
(* misses nothing, gaps are named, a follower is not behind its peer, and  *)
(* a pull that was sent everything does not go back.                       *)
(***************************************************************************)
EXTENDS PolicyPull, WellFoundedInduction, FiniteSetTheorems, TLAPS

Unique(S) == \A u, v \in S : u.hash = v.hash => u = v

-----------------------------------------------------------------------------
(* Numbers *)

\* The library's order on the naturals, as a relation that is an ordinary set.
LEMMA LessIsWellFounded ==
  \E R : IsWellFoundedOn(R, Nat) /\ \A x, y \in Nat : y < x => <<y, x>> \in R
  <1>1. \A x, y \in Nat : y < x => <<y, x>> \in OpToRel(<, Nat)
    BY DEF OpToRel
  <1>2. IsWellFoundedOn(OpToRel(<, Nat), Nat)
    BY NatLessThanWellFounded, Zenon
  <1> QED BY <1>1, <1>2, Zenon

\* Sizes of feeds have a smallest one.
LEMMA SmallestNat ==
  ASSUME NEW T \in SUBSET Nat, T # {}
  PROVE  \E x \in T : \A y \in T : x <= y
  <1>1. PICK R : IsWellFoundedOn(R, Nat) /\ \A x, y \in Nat : y < x => <<y, x>> \in R
    BY LessIsWellFounded
  <1>2. PICK x \in T : \A y \in T : ~(<<y, x>> \in R)
    BY <1>1, WFMin
  <1>3. \A y \in T : ~(y < x)
    BY <1>1, <1>2
  <1> QED BY <1>2, <1>3

-----------------------------------------------------------------------------
(* The order of updates *)

\* An update that can be posted has a time and a hash, and they are numbers.
LEMMA FeedableType ==
  ASSUME NEW u \in Feedable
  PROVE  u.at \in Nat /\ u.hash \in Nat /\ u.hash \in Hash /\ u.hash # NoHash
         /\ u.prev \in Hash \cup {NoHash}
  BY FeedAssumption DEF Update

\* (created_at, policy_hash) orders updates totally: it names their files.
LEMMA BeforeIsTotal ==
  ASSUME NEW u \in Feedable, NEW v \in Feedable
  PROVE  /\ u = v \/ Before(u, v) \/ Before(v, u)
         /\ ~(Before(u, v) /\ Before(v, u))
         /\ ~Before(u, u)
  <1>1. u.at = v.at /\ u.hash = v.hash => u = v
    BY FeedAssumption
  <1> QED BY <1>1, FeedableType DEF Before

\* The order is transitive.
LEMMA BeforeIsTransitive ==
  ASSUME NEW u \in Feedable, NEW v \in Feedable, NEW w \in Feedable,
         Before(u, v), Before(v, w)
  PROVE  Before(u, w)
  BY FeedableType DEF Before

\* Feeds are finite.
LEMMA Finite ==
  ASSUME NEW S \in SUBSET Feedable
  PROVE  IsFiniteSet(S) /\ Cardinality(S) \in Nat
  <1>1. IsFiniteSet(S)
    BY FeedAssumption, FS_Subset
  <1> QED BY <1>1, FS_CardinalityType

\* A proper part of a set of updates is smaller.
LEMMA Smaller ==
  ASSUME NEW S \in SUBSET Feedable, NEW T \in SUBSET S, NEW x \in S, x \notin T
  PROVE  Cardinality(T) < Cardinality(S)
  <1>1. IsFiniteSet(S) /\ Cardinality(S) \in Nat
    BY Finite
  <1>2. T \in SUBSET Feedable
    OBVIOUS
  <1>3. IsFiniteSet(T) /\ Cardinality(T) \in Nat
    BY <1>2, Finite
  <1>4. Cardinality(T) <= Cardinality(S) /\ (Cardinality(S) = Cardinality(T) => S = T)
    BY <1>1, FS_Subset
  <1> QED BY <1>1, <1>3, <1>4

\* The update with the fewest updates after it has none.
LEMMA LatestExists ==
  ASSUME NEW S \in SUBSET Feedable, S # {}
  PROVE  \E u \in S : \A v \in S : v = u \/ Before(v, u)
  <1> DEFINE After(u) == {v \in S : Before(u, v)}
             Sizes == {Cardinality(After(u)) : u \in S}
  <1>1. \A u \in S : After(u) \in SUBSET Feedable
    OBVIOUS
  <1>2. \A u \in S : Cardinality(After(u)) \in Nat
    BY <1>1, Finite
  <1>3. Sizes \in SUBSET Nat /\ Sizes # {}
    BY <1>2
  <1> HIDE DEF Sizes
  <1>4. PICK x \in Sizes : \A y \in Sizes : x <= y
    BY <1>3, SmallestNat
  <1>5. PICK u \in S : x = Cardinality(After(u))
    BY <1>4 DEF Sizes
  <1>6. \A v \in S : Cardinality(After(u)) <= Cardinality(After(v))
    BY <1>4, <1>5 DEF Sizes
  <1>7. ASSUME NEW v \in S, Before(u, v) PROVE FALSE
    <2>1. After(v) \in SUBSET After(u)
      BY <1>7, BeforeIsTransitive
    <2>2. v \in After(u) /\ v \notin After(v)
      BY <1>7, BeforeIsTotal
    <2>3. After(u) \in SUBSET Feedable
      OBVIOUS
    <2> HIDE DEF After
    <2>4. Cardinality(After(v)) < Cardinality(After(u))
      BY <2>1, <2>2, <2>3, Smaller
    <2> QED BY <2>4, <1>6, <1>2
  <1>8. \A v \in S : v = u \/ Before(v, u)
    BY <1>7, BeforeIsTotal
  <1> QED BY <1>8

\* latest_policy_update returns the update that is after all others.
LEMMA LatestIs ==
  ASSUME NEW S \in SUBSET Feedable, S # {}
  PROVE  Latest(S) \in S /\ \A v \in S : v = Latest(S) \/ Before(v, Latest(S))
  <1>1. \E u \in S : \A v \in S : v = u \/ Before(v, u)
    BY LatestExists
  <1> QED BY <1>1 DEF Latest

\* The update with the fewest updates before it has none.
LEMMA OldestExists ==
  ASSUME NEW S \in SUBSET Feedable, S # {}
  PROVE  \E u \in S : \A v \in S : v = u \/ Before(u, v)
  <1> DEFINE Earlier(u) == {v \in S : Before(v, u)}
             Sizes == {Cardinality(Earlier(u)) : u \in S}
  <1>1. \A u \in S : Earlier(u) \in SUBSET Feedable
    OBVIOUS
  <1>2. \A u \in S : Cardinality(Earlier(u)) \in Nat
    BY <1>1, Finite
  <1>3. Sizes \in SUBSET Nat /\ Sizes # {}
    BY <1>2
  <1> HIDE DEF Sizes
  <1>4. PICK x \in Sizes : \A y \in Sizes : x <= y
    BY <1>3, SmallestNat
  <1>5. PICK u \in S : x = Cardinality(Earlier(u))
    BY <1>4 DEF Sizes
  <1>6. \A v \in S : Cardinality(Earlier(u)) <= Cardinality(Earlier(v))
    BY <1>4, <1>5 DEF Sizes
  <1>7. ASSUME NEW v \in S, Before(v, u) PROVE FALSE
    <2>1. Earlier(v) \in SUBSET Earlier(u)
      BY <1>7, BeforeIsTransitive
    <2>2. v \in Earlier(u) /\ v \notin Earlier(v)
      BY <1>7, BeforeIsTotal
    <2>3. Earlier(u) \in SUBSET Feedable
      OBVIOUS
    <2> HIDE DEF Earlier
    <2>4. Cardinality(Earlier(v)) < Cardinality(Earlier(u))
      BY <2>1, <2>2, <2>3, Smaller
    <2> QED BY <2>4, <1>6, <1>2
  <1>8. \A v \in S : v = u \/ Before(u, v)
    BY <1>7, BeforeIsTotal
  <1> QED BY <1>8

\* get_by_hash returns the first update of those with the hash.
LEMMA OldestIs ==
  ASSUME NEW S \in SUBSET Feedable, S # {}
  PROVE  Oldest(S) \in S /\ \A v \in S : v = Oldest(S) \/ Before(Oldest(S), v)
  <1>1. \E u \in S : \A v \in S : v = u \/ Before(u, v)
    BY OldestExists
  <1> QED BY <1>1 DEF Oldest

-----------------------------------------------------------------------------
(* Pages *)

\* filter_updates_since lists updates of the feed, and more of a longer one.
LEMMA SinceGrows ==
  ASSUME NEW S \in SUBSET Feedable, NEW T \in SUBSET S, NEW h
  PROVE  Since(T, h) \subseteq Since(S, h) /\ Since(S, h) \subseteq S
  BY DEF Since

\* A page comes before everything it leaves.
LEMMA PageIsFirst ==
  ASSUME NEW S \in SUBSET Feedable, NEW limit \in Nat \ {0}
  PROVE  /\ Page(S, limit) \subseteq S
         /\ \A x \in Page(S, limit), y \in S \ Page(S, limit) : Before(x, y)
  <1> DEFINE Earlier(u) == {v \in S : Before(v, u)}
  <1>1. ASSUME NEW x \in Page(S, limit), NEW y \in S \ Page(S, limit), Before(y, x)
        PROVE  FALSE
    <2>1. x \in S /\ Cardinality(Earlier(x)) < limit /\ ~(Cardinality(Earlier(y)) < limit)
      BY DEF Page
    <2>2. Earlier(y) \in SUBSET Earlier(x)
      BY <1>1, <2>1, BeforeIsTransitive
    <2>3. y \in Earlier(x) /\ y \notin Earlier(y)
      BY <1>1, BeforeIsTotal
    <2>4. Earlier(x) \in SUBSET Feedable /\ Earlier(y) \in SUBSET Feedable
      OBVIOUS
    <2> HIDE DEF Earlier
    <2>5. Cardinality(Earlier(y)) < Cardinality(Earlier(x))
      BY <2>2, <2>3, <2>4, Smaller
    <2>6. Cardinality(Earlier(y)) \in Nat /\ Cardinality(Earlier(x)) \in Nat
      BY <2>4, Finite
    <2> QED BY <2>1, <2>5, <2>6
  <1>2. Page(S, limit) \subseteq S
    BY DEF Page
  <1>3. \A x \in Page(S, limit), y \in S \ Page(S, limit) : x # y
    OBVIOUS
  <1> QED BY <1>1, <1>2, <1>3, BeforeIsTotal

\* What comes after the cursor is still to be returned, whether the update that
\* had the cursor's hash can be read or not.
LEMMA RestHasLater ==
  ASSUME NEW all \in SUBSET Feedable, Unique(all), NEW S \in SUBSET all,
         NEW c \in all, NEW b \in S, Before(c, b)
  PROVE  b \in Rest(S, c.hash)
  <1>1. CASE Named(S, c.hash) = {}
    BY <1>1 DEF Rest
  <1>2. CASE Named(S, c.hash) # {}
    <2>1. Named(S, c.hash) \in SUBSET Feedable
      BY DEF Named
    <2>2. Oldest(Named(S, c.hash)) \in Named(S, c.hash)
      BY <1>2, <2>1, OldestIs
    <2>3. Oldest(Named(S, c.hash)) = c
      BY <2>2 DEF Named, Unique
    <2> QED BY <1>2, <2>3 DEF Rest
  <1> QED BY <1>1, <1>2

\* Without a cursor the first page starts the list.
LEMMA RestFromTheStart ==
  ASSUME NEW S \in SUBSET Feedable
  PROVE  Rest(S, NoHash) = S
  <1>1. Named(S, NoHash) = {}
    BY FeedableType DEF Named
  <1> QED BY <1>1 DEF Rest

\* Pages hold nothing that is not listed.
LEMMA RestIsPart ==
  ASSUME NEW S, NEW cursor
  PROVE  Rest(S, cursor) \subseteq S
  BY DEF Rest

-----------------------------------------------------------------------------
(* The dictionary *)

\* A dictionary keeps one update of a hash, and is not empty after the first.
LEMMA LearnIsUnique ==
  ASSUME NEW known \in SUBSET Feedable, NEW items \in SUBSET Feedable, Unique(known)
  PROVE  /\ Learn(known, items) \subseteq known \cup items
         /\ Unique(Learn(known, items))
         /\ known \cup items # {} => Learn(known, items) # {}
  <1>1. Learn(known, items) \subseteq known \cup items
    BY DEF Learn
  <1>2. ASSUME NEW u \in Learn(known, items), NEW v \in Learn(known, items), u.hash = v.hash
        PROVE  u = v
    <2>1. \/ u \in known /\ u.hash \notin Hashes(items)
          \/ u \in items /\ \A w \in items : w.hash = u.hash => ~Before(u, w)
      BY DEF Learn
    <2>2. \/ v \in known /\ v.hash \notin Hashes(items)
          \/ v \in items /\ \A w \in items : w.hash = v.hash => ~Before(v, w)
      BY DEF Learn
    <2>3. \A w \in items : w.hash \in Hashes(items)
      BY DEF Hashes
    <2>4. CASE u \in items /\ v \in items
      <3>1. ~Before(u, v) /\ ~Before(v, u)
        BY <1>2, <2>1, <2>2, <2>3, <2>4
      <3> QED BY <2>4, <3>1, BeforeIsTotal
    <2>5. CASE u \in known /\ v \in known
      BY <1>2, <2>5 DEF Unique
    <2> QED BY <1>2, <2>1, <2>2, <2>3, <2>4, <2>5
  <1>3. ASSUME NEW x \in items PROVE Learn(known, items) # {}
    <2> DEFINE same == Named(items, x.hash)
    <2>1. same \in SUBSET Feedable /\ same # {}
      BY DEF Named
    <2>2. Latest(same) \in same /\ \A v \in same : v = Latest(same) \/ Before(v, Latest(same))
      BY <2>1, LatestIs
    <2>3. Latest(same) \in items /\ Latest(same).hash = x.hash
      BY <2>2 DEF Named
    <2>4. \A v \in items : v.hash = Latest(same).hash => v \in same
      BY <2>3 DEF Named
    <2> HIDE DEF same
    <2>5. \A v \in items : v.hash = Latest(same).hash => ~Before(Latest(same), v)
      BY <2>2, <2>3, <2>4, BeforeIsTotal
    <2> QED BY <2>3, <2>5 DEF Learn
  <1>4. ASSUME NEW x \in known, items = {} PROVE Learn(known, items) # {}
    BY <1>4 DEF Learn, Hashes
  <1> QED BY <1>1, <1>2, <1>3, <1>4 DEF Unique

\* Without repeated hashes the dictionary is the set.
LEMMA LearnIsUnion ==
  ASSUME NEW known \in SUBSET Feedable, NEW items \in SUBSET Feedable,
         Unique(known \cup items)
  PROVE  known \cup items \subseteq Learn(known, items)
  <1>1. ASSUME NEW u \in items PROVE u \in Learn(known, items)
    <2>1. \A v \in items : v.hash = u.hash => ~Before(u, v)
      BY BeforeIsTotal DEF Unique
    <2> QED BY <2>1 DEF Learn
  <1>2. ASSUME NEW u \in known, u \notin items PROVE u \in Learn(known, items)
    <2>1. u.hash \notin Hashes(items)
      BY <1>2 DEF Unique, Hashes
    <2> QED BY <2>1 DEF Learn
  <1> QED BY <1>1, <1>2

-----------------------------------------------------------------------------
(* The choice *)

\* In a dictionary a hash is an update.
LEMMA NamedOfUnique ==
  ASSUME NEW S \in SUBSET Feedable, Unique(S), NEW u \in S
  PROVE  Named(S, u.hash) = {u}
  BY DEF Named, Unique

\* A pull chooses the latest remote update or the local head, and the local head
\* only if it was sent as well and there are local updates.
LEMMA ChosenIs ==
  ASSUME NEW local \in SUBSET Feedable, NEW remote \in SUBSET Feedable,
         remote # {}, Unique(remote)
  PROVE  /\ Chosen(local, remote) \in remote
         /\ \/ Chosen(local, remote) = Latest(remote)
            \/ local # {} /\ Chosen(local, remote).hash = Latest(local).hash
  <1>1. Latest(remote) \in remote
    BY LatestIs
  <1>2. HeadHash(remote) = Latest(remote).hash
    BY DEF HeadHash
  <1>3. Named(remote, Latest(remote).hash) = {Latest(remote)}
    BY <1>1, NamedOfUnique
  <1>4. CASE SelectedHead(local, remote) = HeadHash(remote)
    <2>1. Named(remote, SelectedHead(local, remote)) = {Latest(remote)}
      BY <1>2, <1>3, <1>4
    <2>2. Chosen(local, remote) = Latest(remote)
      BY <2>1 DEF Chosen
    <2> QED BY <2>2, <1>1
  <1>5. CASE SelectedHead(local, remote) # HeadHash(remote)
    <2>1. local # {} /\ SelectedHead(local, remote) = HeadHash(local)
      BY <1>5 DEF SelectedHead
    <2>2. SelectedHead(local, remote) = Latest(local).hash
      BY <2>1 DEF HeadHash
    <2>3. CASE Named(remote, SelectedHead(local, remote)) = {}
      <3>1. Chosen(local, remote) = Latest(remote)
        BY <2>3 DEF Chosen
      <3> QED BY <3>1, <1>1
    <2>4. CASE Named(remote, SelectedHead(local, remote)) # {}
      <3>1. Chosen(local, remote) \in Named(remote, SelectedHead(local, remote))
        BY <2>4 DEF Chosen
      <3> QED BY <3>1, <2>1, <2>2 DEF Named
    <2> QED BY <2>3, <2>4
  <1> QED BY <1>4, <1>5

\* The choice is no step back for a node that was sent all it has.
LEMMA ChosenNotBack ==
  ASSUME NEW local \in SUBSET Feedable, NEW remote \in SUBSET Feedable,
         remote # {}, Unique(remote), local \subseteq remote
  PROVE  \A u \in local : ~Before(Chosen(local, remote), u)
  <1>1. Latest(remote) \in remote
        /\ \A v \in remote : v = Latest(remote) \/ Before(v, Latest(remote))
    BY LatestIs
  <1>2. CASE Chosen(local, remote) = Latest(remote)
    BY <1>1, <1>2, BeforeIsTotal
  <1>3. CASE local # {} /\ Chosen(local, remote).hash = Latest(local).hash
    <2>1. Latest(local) \in local
          /\ \A v \in local : v = Latest(local) \/ Before(v, Latest(local))
      BY <1>3, LatestIs
    <2>2. Chosen(local, remote) = Latest(local)
      BY <1>3, <2>1, ChosenIs DEF Unique
    <2> QED BY <2>1, <2>2, BeforeIsTotal
  <1> QED BY <1>2, <1>3, ChosenIs

-----------------------------------------------------------------------------
(* Pulls *)

Steps == {"idle", "page", "whole", "check", "fill"}

\* All that m lists or is writing. It never shrinks.
Offered(m) == feed[m] \cup torn[m]

\* What holds of a pull j at step pc that was to read base, from a peer that
\* offers the updates in offered.
Sound(j, at, b, offered) ==
  /\ j.seen \subseteq offered
  /\ j.seen # {} => j.got # {}
  /\ Unique(offered) => j.seen \subseteq j.got
  /\ at # "idle" => j.chosen = Nothing
  /\ at \in {"page", "whole", "check"} => j.got \subseteq j.seen
  /\ at = "page" /\ Unique(offered) =>
       \A x \in b \ j.seen :
         j.cursor = NoHash \/ \E c \in offered : c.hash = j.cursor /\ Before(c, x)
  /\ at \in {"check", "fill"} /\ Unique(offered) => b \subseteq j.seen
  /\ at = "fill" =>
       /\ j.got # {}
       /\ j.wanted \cap Hashes(j.got \cup j.local) = {}
       /\ Parents(j.got) \subseteq Hashes(j.got \cup j.local) \cup j.gone \cup j.wanted
  /\ j.chosen # Nothing =>
       /\ Parents(j.got) \subseteq Hashes(j.got \cup j.local) \cup j.gone
       /\ j.local = {} /\ Unique(offered) => \A u \in b : ~Before(j.chosen, u)
       /\ j.local \subseteq j.got => \A u \in j.local : ~Before(j.chosen, u)

\* The inductive invariant. A pull that has no peer has chosen nothing.
PullInv ==
  /\ TypeOK
  /\ \A n \in Node :
       /\ job[n].from \in Node =>
            /\ base[n] \subseteq Listed(n)
            /\ Sound(job[n], pc[n], base[n], Offered(job[n].from))
       /\ job[n].from \notin Node => job[n].chosen = Nothing

-----------------------------------------------------------------------------
(* Two lemmas for the steps *)

\* A pull stays sound when its peer offers more and it was to read less.
LEMMA SoundStays ==
  ASSUME NEW j, NEW at, NEW b, NEW b2 \in SUBSET b,
         NEW offered, NEW offered2, offered \subseteq offered2,
         Sound(j, at, b, offered)
  PROVE  Sound(j, at, b2, offered2)
  <1>1. Unique(offered2) => Unique(offered)
    BY DEF Unique
  <1> QED BY <1>1 DEF Sound

\* A step of one pull: it is enough to look at that pull.
LEMMA OnePull ==
  ASSUME PullInv, NEW n \in Node, pc[n] # "idle",
         NEW j \in Job, NEW at \in Steps,
         j.from = job[n].from, j.since = job[n].since, Unique(j.got),
         Sound(j, at, base[n], Offered(job[n].from)),
         job' = [job EXCEPT ![n] = j], pc' = [pc EXCEPT ![n] = at],
         UNCHANGED <<feed, torn, base, posts, pulls>>,
         active' \in [Node -> Feedable \cup {Nothing}], faults' \in Nat
  PROVE  PullInv'
  <1>1. job[n].from \in Node
    BY DEF PullInv, TypeOK, Busy
  <1>2. pc \in [Node -> Steps] /\ job \in [Node -> Job]
    BY DEF PullInv, TypeOK, Steps
  <1>3. \A q \in Node : job'[q] = (IF q = n THEN j ELSE job[q])
                        /\ pc'[q] = (IF q = n THEN at ELSE pc[q])
    BY <1>2
  <1>4. pc' \in [Node -> Steps] /\ job' \in [Node -> Job]
    BY <1>2
  <1>5. \A q \in Node : \A u, v \in job'[q].got : u.hash = v.hash => u = v
    BY <1>3 DEF PullInv, TypeOK, Unique
  <1>6. \A q \in Node : Busy(q)' => job'[q].from \in Node
    BY <1>1, <1>3 DEF PullInv, TypeOK, Busy
  <1>7. TypeOK'
    BY <1>4, <1>5, <1>6 DEF PullInv, TypeOK, Steps
  <1>8. \A q \in Node : Listed(q)' = Listed(q)
    BY <1>3 DEF Listed
  <1>9. \A q \in Node : job'[q].from = job[q].from
    BY <1>3
  <1>10. \A q \in Node : Offered(job[q].from)' = Offered(job'[q].from)
    BY <1>9 DEF Offered
  <1>11. ASSUME NEW q \in Node, job'[q].from \in Node
         PROVE  /\ base'[q] \subseteq Listed(q)'
                /\ Sound(job'[q], pc'[q], base'[q], Offered(job[q].from)')
    <2>1. base'[q] \subseteq Listed(q)'
      BY <1>8, <1>9, <1>11 DEF PullInv
    <2>2. CASE q = n
      BY <2>1, <2>2, <1>3, <1>9, <1>10 DEF Offered
    <2>3. CASE q # n
      BY <2>1, <2>3, <1>3, <1>9, <1>11 DEF PullInv, Offered
    <2> QED BY <2>1, <2>2, <2>3
  <1>12. ASSUME NEW q \in Node, job'[q].from \notin Node
         PROVE  job'[q].chosen = Nothing
    BY <1>1, <1>3, <1>12 DEF PullInv
  <1> QED BY <1>7, <1>11, <1>12 DEF PullInv

-----------------------------------------------------------------------------
(* The steps of a pull *)

\* What PullInv says of a pull that is under way.
LEMMA UnderWay ==
  ASSUME PullInv, NEW n \in Node, pc[n] # "idle"
  PROVE  /\ job[n].from \in Node
         /\ job[n] \in Job
         /\ Unique(job[n].got)
         /\ base[n] \subseteq Listed(n)
         /\ Listed(n) \subseteq feed[job[n].from]
         /\ Offered(job[n].from) \in SUBSET Feedable
         /\ feed[job[n].from] \subseteq Offered(job[n].from)
         /\ Sound(job[n], pc[n], base[n], Offered(job[n].from))
         /\ faults \in Nat
         /\ active \in [Node -> Feedable \cup {Nothing}]
         /\ feed[n] \in SUBSET Feedable
  <1>1. job[n].from \in Node
    BY DEF PullInv, TypeOK, Busy
  <1>2. feed[job[n].from] \in SUBSET Feedable /\ torn[job[n].from] \in SUBSET Feedable
    BY <1>1 DEF PullInv, TypeOK
  <1>3. Listed(n) \subseteq feed[job[n].from]
    BY <1>2, SinceGrows DEF Listed
  <1>4. job[n] \in Job /\ Unique(job[n].got)
    BY DEF PullInv, TypeOK, Unique
  <1> QED BY <1>1, <1>2, <1>3, <1>4 DEF PullInv, TypeOK, Offered

LEMMA PageLostOK ==
  ASSUME PullInv, NEW n \in Node, PageLost(n)
  PROVE  PullInv'
  <1>1. pc[n] = "page" /\ job' = [job EXCEPT ![n] = job[n]] /\ pc' = [pc EXCEPT ![n] = "whole"]
    BY DEF PageLost, Goto, PullInv, TypeOK
  <1>2. Sound(job[n], "whole", base[n], Offered(job[n].from))
    BY <1>1, UnderWay DEF Sound
  <1>3. faults' \in Nat /\ active' = active /\ UNCHANGED <<feed, torn, base, posts, pulls>>
    BY <1>1, UnderWay DEF PageLost, Lost
  <1> QED BY <1>1, <1>2, <1>3, UnderWay, OnePull DEF Steps

LEMMA WholeLostOK ==
  ASSUME PullInv, NEW n \in Node, WholeLost(n)
  PROVE  PullInv'
  <1>1. pc[n] = "whole" /\ job' = [job EXCEPT ![n] = job[n]] /\ pc' = [pc EXCEPT ![n] = "idle"]
    BY DEF WholeLost, Goto, PullInv, TypeOK
  <1>2. Sound(job[n], "idle", base[n], Offered(job[n].from))
    BY <1>1, UnderWay DEF Sound
  <1>3. faults' \in Nat /\ active' = active /\ UNCHANGED <<feed, torn, base, posts, pulls>>
    BY <1>1, UnderWay DEF WholeLost, Lost
  <1> QED BY <1>1, <1>2, <1>3, UnderWay, OnePull DEF Steps

LEMMA RefuseOK ==
  ASSUME PullInv, NEW n \in Node, Refuse(n)
  PROVE  PullInv'
  <1>1. pc[n] = "check" /\ job' = [job EXCEPT ![n] = job[n]] /\ pc' = [pc EXCEPT ![n] = "idle"]
    BY DEF Refuse, Goto, PullInv, TypeOK
  <1>2. Sound(job[n], "idle", base[n], Offered(job[n].from))
    BY <1>1, UnderWay DEF Sound
  <1>3. faults' \in Nat /\ active' = active /\ UNCHANGED <<feed, torn, base, posts, pulls>>
    BY <1>1, UnderWay DEF Refuse
  <1> QED BY <1>1, <1>2, <1>3, UnderWay, OnePull DEF Steps

\* A page is the beginning of what remains, so what it leaves follows its last
\* update, whose hash is the cursor.
LEMMA NextPageOK ==
  ASSUME PullInv, NEW n \in Node, NextPage(n)
  PROVE  PullInv'
  <1> DEFINE j == job[n]
             offered == Offered(j.from)
             rest == Rest(Listed(n), j.cursor)
             page == Page(rest, Limit)
             received == [j EXCEPT !.got = Learn(@, page), !.seen = @ \cup page]
  <1>1. pc[n] = "page"
    BY DEF NextPage
  <1>2. Listed(n) \subseteq offered /\ Listed(n) \in SUBSET Feedable
        /\ j \in Job /\ Unique(j.got) /\ Sound(j, "page", base[n], offered)
        /\ offered \in SUBSET Feedable /\ base[n] \subseteq Listed(n)
    BY <1>1, UnderWay
  <1>3. rest \subseteq Listed(n)
    BY RestIsPart
  <1>4. /\ page \subseteq rest
        /\ \A x \in page, y \in rest \ page : Before(x, y)
    BY <1>2, <1>3, PageIsFirst, PullAssumption
  <1>5. page \subseteq offered /\ page \in SUBSET Feedable
    BY <1>2, <1>3, <1>4
  <1>6. j.got \in SUBSET Feedable /\ j.seen \in SUBSET Feedable
    BY <1>2 DEF Job
  <1> DEFINE learnt == Learn(j.got, page)
  <1>7. learnt \subseteq j.got \cup page /\ Unique(learnt)
        /\ (j.got \cup page # {} => learnt # {})
    BY <1>2, <1>5, <1>6, LearnIsUnique
  <1>8. Unique(offered) => j.got \cup page \subseteq learnt
    <2>1. SUFFICES ASSUME Unique(offered) PROVE j.got \cup page \subseteq learnt
      OBVIOUS
    <2>2. j.got \cup page \subseteq offered
      BY <1>2, <1>5 DEF Sound
    <2>3. Unique(j.got \cup page)
      BY <2>1, <2>2 DEF Unique
    <2> QED BY <2>3, <1>5, <1>6, LearnIsUnion
  <1>9. Unique(offered) => base[n] \ j.seen \subseteq rest
    <2>1. SUFFICES ASSUME Unique(offered), NEW x \in base[n], x \notin j.seen PROVE x \in rest
      OBVIOUS
    <2>2. CASE j.cursor = NoHash
      BY <1>2, <2>1, <2>2, RestFromTheStart
    <2>3. CASE j.cursor # NoHash
      <3>1. PICK c \in offered : c.hash = j.cursor /\ Before(c, x)
        BY <1>2, <2>1, <2>3 DEF Sound
      <3> QED BY <1>2, <2>1, <3>1, RestHasLater
    <2> QED BY <2>2, <2>3
  <1>10. /\ UNCHANGED <<feed, torn, base, posts, pulls>>
         /\ faults' \in Nat /\ active' \in [Node -> Feedable \cup {Nothing}]
    BY <1>1, UnderWay DEF NextPage
  <1>11. /\ received.from = j.from /\ received.since = j.since /\ received.cursor = j.cursor
         /\ received.got = learnt /\ received.seen = j.seen \cup page
         /\ received.chosen = j.chosen /\ received.local = j.local
         /\ received.gone = j.gone /\ received.wanted = j.wanted
         /\ received \in Job
    BY <1>2, <1>5, <1>6, <1>7 DEF Job
  <1>12. CASE page = rest /\ job' = [job EXCEPT ![n] = received] /\ pc' = [pc EXCEPT ![n] = "check"]
    <2> HIDE DEF received, learnt, page, rest
    <2>1. Sound(received, "check", base[n], offered)
      BY <1>2, <1>5, <1>7, <1>8, <1>9, <1>11, <1>12 DEF Sound
    <2> QED BY <1>1, <1>2, <1>7, <1>10, <1>11, <1>12, <2>1, OnePull DEF Steps
  <1>13. CASE /\ page # rest
              /\ \E last \in page :
                   /\ \A u \in page : u = last \/ Before(u, last)
                   /\ job' = [job EXCEPT ![n] = [received EXCEPT !.cursor = last.hash]]
              /\ UNCHANGED pc
    <2>1. PICK last \in page : job' = [job EXCEPT ![n] = [received EXCEPT !.cursor = last.hash]]
      BY <1>13
    <2> DEFINE next == [received EXCEPT !.cursor = last.hash]
    <2>2. last.hash \in Hash
      BY <1>5, FeedableType
    <2> HIDE DEF received, learnt, page, rest
    <2>3. /\ next.from = j.from /\ next.since = j.since /\ next.cursor = last.hash
          /\ next.got = learnt /\ next.seen = j.seen \cup page
          /\ next.chosen = j.chosen /\ next \in Job
      BY <1>11, <2>2 DEF Job
    <2>4. pc' = [pc EXCEPT ![n] = "page"]
      BY <1>1, <1>13 DEF PullInv, TypeOK
    <2> HIDE DEF next
    <2>5. Unique(offered) =>
            \A x \in base[n] \ next.seen : next.cursor = NoHash
              \/ \E c \in offered : c.hash = next.cursor /\ Before(c, x)
      BY <1>4, <1>5, <1>9, <2>3
    <2>6. Sound(next, "page", base[n], offered)
      BY <1>2, <1>5, <1>7, <1>8, <2>3, <2>5 DEF Sound
    <2>7. job' = [job EXCEPT ![n] = next]
      BY <2>1 DEF next
    <2> QED BY <1>1, <1>2, <1>7, <1>10, <2>3, <2>4, <2>6, <2>7, OnePull DEF Steps
  <1> QED BY <1>12, <1>13 DEF NextPage, Goto

\* The whole list holds everything that was there all the time.
LEMMA WholeFeedOK ==
  ASSUME PullInv, NEW n \in Node, WholeFeed(n)
  PROVE  PullInv'
  <1> DEFINE j == job[n]
             offered == Offered(j.from)
             list == Listed(n)
             learnt == Learn({}, list)
             whole == [j EXCEPT !.got = learnt, !.seen = list]
  <1>1. pc[n] = "whole" /\ pc' = [pc EXCEPT ![n] = "check"]
    BY DEF WholeFeed, Goto
  <1>2. list \subseteq offered /\ list \in SUBSET Feedable
        /\ j \in Job /\ Sound(j, "whole", base[n], offered)
        /\ offered \in SUBSET Feedable /\ base[n] \subseteq list
    BY <1>1, UnderWay
  <1>3. learnt \subseteq list /\ Unique(learnt) /\ (list # {} => learnt # {})
    <2>1. Unique({})
      BY DEF Unique
    <2> QED BY <1>2, <2>1, LearnIsUnique
  <1>4. Unique(offered) => list \subseteq learnt
    <2>1. Unique(offered) => Unique({} \cup list)
      BY <1>2 DEF Unique
    <2> QED BY <1>2, <2>1, LearnIsUnion
  <1>5. job' = [job EXCEPT ![n] = whole]
    BY DEF WholeFeed
  <1>6. /\ UNCHANGED <<feed, torn, base, posts, pulls>>
        /\ faults' \in Nat /\ active' \in [Node -> Feedable \cup {Nothing}]
    BY <1>1, UnderWay DEF WholeFeed
  <1> HIDE DEF learnt, list
  <1>7. /\ whole.from = j.from /\ whole.since = j.since
        /\ whole.got = learnt /\ whole.seen = list
        /\ whole.chosen = j.chosen /\ whole \in Job
    BY <1>2, <1>3 DEF Job
  <1> HIDE DEF whole
  <1>8. Sound(whole, "check", base[n], offered)
    BY <1>2, <1>3, <1>4, <1>7 DEF Sound
  <1> QED BY <1>1, <1>2, <1>3, <1>5, <1>6, <1>7, <1>8, OnePull DEF Steps

LEMMA ParentsAreHashes ==
  ASSUME NEW S \in SUBSET Feedable
  PROVE  Parents(S) \in SUBSET Hash /\ Hashes(S) \in SUBSET Hash
  BY FeedableType DEF Parents, Hashes

\* The missing parents are wanted.
LEMMA CompareOK ==
  ASSUME PullInv, NEW n \in Node, Compare(n)
  PROVE  PullInv'
  <1> DEFINE j == job[n]
             offered == Offered(j.from)
             want == Parents(j.got) \ Hashes(j.got \cup feed[n])
             next == [j EXCEPT !.local = feed[n], !.wanted = want]
  <1>1. pc[n] = "check" /\ pc' = [pc EXCEPT ![n] = "fill"] /\ j.seen # {}
    BY DEF Compare, Goto, Stops
  <1>2. j \in Job /\ Unique(j.got) /\ Sound(j, "check", base[n], offered)
        /\ feed[n] \in SUBSET Feedable
    BY <1>1, UnderWay
  <1>3. job' = [job EXCEPT ![n] = next]
    BY DEF Compare
  <1>4. /\ UNCHANGED <<feed, torn, base, posts, pulls>>
        /\ faults' \in Nat /\ active' \in [Node -> Feedable \cup {Nothing}]
    BY <1>1, UnderWay DEF Compare
  <1>5. want \in SUBSET Hash
    <2>1. j.got \in SUBSET Feedable
      BY <1>2 DEF Job
    <2> QED BY <2>1, ParentsAreHashes
  <1>6. /\ next.from = j.from /\ next.since = j.since /\ next.got = j.got
        /\ next.seen = j.seen /\ next.local = feed[n] /\ next.wanted = want
        /\ next.chosen = j.chosen /\ next.gone = j.gone /\ next \in Job
    BY <1>2, <1>5 DEF Job
  <1>7. want \cap Hashes(j.got \cup feed[n]) = {}
        /\ Parents(j.got) \subseteq Hashes(j.got \cup feed[n]) \cup j.gone \cup want
    OBVIOUS
  <1> HIDE DEF next, want
  <1>8. Sound(next, "fill", base[n], offered)
    BY <1>1, <1>2, <1>6, <1>7 DEF Sound
  <1> QED BY <1>1, <1>2, <1>3, <1>4, <1>6, <1>8, OnePull DEF Steps

\* What is fetched has a hash that nothing known has; its parent is known, has
\* been asked for in vain, or is wanted.
LEMMA FetchOK ==
  ASSUME PullInv, NEW n \in Node, NEW h \in Hash, Fetch(n, h)
  PROVE  PullInv'
  <1> DEFINE j == job[n]
             offered == Offered(j.from)
             found == Named(feed[j.from], h)
             u == Oldest(found)
             known == Hashes(j.got \cup j.local \cup {u})
             next == Fetched(j, h, u)
             without == [j EXCEPT !.wanted = @ \ {h}, !.gone = @ \cup {h}]
  <1>1. pc[n] = "fill" /\ h \in j.wanted /\ pc' = [pc EXCEPT ![n] = "fill"]
    BY DEF Fetch, PullInv, TypeOK
  <1>2. j \in Job /\ Unique(j.got) /\ Sound(j, "fill", base[n], offered)
        /\ offered \in SUBSET Feedable /\ feed[j.from] \subseteq offered
    BY <1>1, UnderWay
  <1>3. /\ UNCHANGED <<feed, torn, base, posts, pulls>>
        /\ faults' \in Nat /\ active' \in [Node -> Feedable \cup {Nothing}]
    BY <1>1, UnderWay DEF Fetch, Lost
  <1>4. j.wanted \cap Hashes(j.got \cup j.local) = {}
        /\ Parents(j.got) \subseteq Hashes(j.got \cup j.local) \cup j.gone \cup j.wanted
    BY <1>2 DEF Sound
  <1>5. CASE found # {} /\ job' = [job EXCEPT ![n] = next]
    <2>1. found \in SUBSET Feedable
      BY <1>2 DEF Named
    <2>2. u \in found
      BY <1>5, <2>1, OldestIs
    <2>3. u \in Feedable /\ u.hash = h
      BY <2>1, <2>2 DEF Named
    <2>4. {u} \in SUBSET Feedable
      BY <2>3
    <2>5. Parents({u}) \in SUBSET Hash
      BY <2>4, ParentsAreHashes
    <2> HIDE DEF u, found
    <2>6. Unique(j.got \cup {u})
      BY <1>1, <1>2, <1>4, <2>3 DEF Unique, Hashes
    <2>7. Parents(j.got \cup {u}) = Parents(j.got) \cup Parents({u})
      BY DEF Parents
    <2>8. Hashes(j.got \cup j.local) \subseteq known
          /\ known = Hashes((j.got \cup {u}) \cup j.local)
      BY DEF Hashes
    <2> HIDE DEF known
    <2> DEFINE want == (j.wanted \cup Parents({u})) \ (known \cup j.gone)
    <2>9. next = [j EXCEPT !.got = j.got \cup {u}, !.fetched = j.fetched + 1, !.wanted = want]
      BY DEF Fetched, known
    <2>10. want \in SUBSET Hash /\ j.got \cup {u} \in SUBSET Feedable
      BY <1>2, <2>3, <2>5 DEF Job
    <2>11. want \cap known = {}
           /\ Parents(j.got \cup {u}) \subseteq known \cup j.gone \cup want
      BY <1>4, <2>7, <2>8
    <2> HIDE DEF want, next
    <2>12. /\ next.from = j.from /\ next.since = j.since
           /\ next.got = j.got \cup {u} /\ next.seen = j.seen /\ next.local = j.local
           /\ next.wanted = want
           /\ next.chosen = j.chosen /\ next.gone = j.gone /\ next \in Job
      <3> HIDE DEF j
      <3> DEFINE more == j.got \cup {u}
      <3>1. j.fetched + 1 \in Nat
        BY <1>2 DEF Job
      <3>2. next = [j EXCEPT !.got = more, !.fetched = j.fetched + 1, !.wanted = want]
            /\ more \in SUBSET Feedable
        BY <2>9, <2>10
      <3> HIDE DEF more
      <3>3. next \in Job /\ next.got = more /\ next.wanted = want
        BY <1>2, <2>10, <3>1, <3>2 DEF Job
      <3>4. /\ next.from = j.from /\ next.since = j.since
            /\ next.seen = j.seen /\ next.local = j.local
            /\ next.chosen = j.chosen /\ next.gone = j.gone
        BY <1>2, <3>2 DEF Job
      <3> QED BY <3>3, <3>4 DEF more
    <2>13. Sound(next, "fill", base[n], offered)
      BY <1>2, <2>8, <2>11, <2>12 DEF Sound
    <2> QED BY <1>1, <1>2, <1>3, <1>5, <2>6, <2>12, <2>13, OnePull DEF Steps
  <1>6. CASE job' = [job EXCEPT ![n] = without]
    <2>1. /\ without.from = j.from /\ without.since = j.since
          /\ without.got = j.got /\ without.seen = j.seen /\ without.local = j.local
          /\ without.wanted = j.wanted \ {h} /\ without.gone = j.gone \cup {h}
          /\ without.chosen = j.chosen /\ without \in Job
      BY <1>2 DEF Job
    <2> HIDE DEF without
    <2>2. Sound(without, "fill", base[n], offered)
      BY <1>2, <1>4, <2>1 DEF Sound
    <2> QED BY <1>1, <1>2, <1>3, <1>6, <2>1, <2>2, OnePull DEF Steps
  <1> QED BY <1>5, <1>6 DEF Fetch

\* The choice is one of the updates at hand, the latest one for a node without
\* updates of its own, and no step back for one that was sent all it has.
LEMMA SelectOK ==
  ASSUME PullInv, NEW n \in Node, Select(n)
  PROVE  PullInv'
  <1> DEFINE j == job[n]
             offered == Offered(j.from)
             chosen == Chosen(j.local, j.got)
             next == [j EXCEPT !.chosen = chosen, !.wanted = {}, !.gone = @ \cup j.wanted]
  <1>1. pc[n] = "fill" /\ pc' = [pc EXCEPT ![n] = "idle"] /\ job' = [job EXCEPT ![n] = next]
    BY DEF Select, Goto
  <1>2. j \in Job /\ Unique(j.got) /\ Sound(j, "fill", base[n], offered)
        /\ offered \in SUBSET Feedable /\ base[n] \in SUBSET Feedable
    BY <1>1, UnderWay
  <1>3. j.got \in SUBSET Feedable /\ j.local \in SUBSET Feedable /\ j.got # {}
    BY <1>2 DEF Job, Sound
  <1>4. /\ chosen \in j.got
        /\ \/ chosen = Latest(j.got)
           \/ j.local # {} /\ chosen.hash = Latest(j.local).hash
    BY <1>2, <1>3, ChosenIs
  <1>5. j.local \subseteq j.got => \A u \in j.local : ~Before(chosen, u)
    BY <1>2, <1>3, ChosenNotBack
  <1>6. j.local = {} /\ Unique(offered) => \A u \in base[n] : ~Before(chosen, u)
    <2>1. SUFFICES ASSUME j.local = {}, Unique(offered), NEW u \in base[n]
                   PROVE  ~Before(chosen, u)
      OBVIOUS
    <2>2. u \in j.got
      BY <1>2, <2>1 DEF Sound
    <2>3. chosen = Latest(j.got)
      BY <1>4, <2>1
    <2> QED BY <1>3, <2>2, <2>3, LatestIs, BeforeIsTotal
  <1>7. chosen \in Feedable /\ chosen # Nothing
    BY <1>3, <1>4, PullAssumption
  <1> HIDE DEF chosen
  <1>8. /\ next.from = j.from /\ next.since = j.since /\ next.got = j.got
        /\ next.seen = j.seen /\ next.local = j.local /\ next.chosen = chosen
        /\ next.gone = j.gone \cup j.wanted /\ next \in Job
    BY <1>2, <1>7 DEF Job
  <1>9. active' \in [Node -> Feedable \cup {Nothing}]
    BY <1>1, <1>7, UnderWay DEF Select, chosen
  <1>10. UNCHANGED <<feed, torn, base, posts, pulls>> /\ faults' \in Nat
    BY <1>1, UnderWay DEF Select
  <1> HIDE DEF next
  <1>11. Sound(next, "idle", base[n], offered)
    BY <1>2, <1>5, <1>6, <1>8 DEF Sound
  <1> QED BY <1>1, <1>2, <1>8, <1>9, <1>10, <1>11, OnePull DEF Steps

-----------------------------------------------------------------------------
(* Starting and posting *)

LEMMA StartOK ==
  ASSUME PullInv, NEW n \in Node, NEW m \in Node, NEW since \in Hash \cup {NoHash},
         Start(n, m, since)
  PROVE  PullInv'
  <1>1. PICK manifest \in BOOLEAN :
          /\ job' = [job EXCEPT ![n] = [NoJob EXCEPT !.from = m, !.since = since,
                                                     !.manifest = manifest]]
          /\ IF manifest THEN UNCHANGED faults ELSE Lost
    BY DEF Start
  <1> DEFINE j == [NoJob EXCEPT !.from = m, !.since = since, !.manifest = manifest]
             start == Since(feed[m], since)
  <1>2. /\ pc' = [pc EXCEPT ![n] = "page"] /\ base' = [base EXCEPT ![n] = start]
        /\ UNCHANGED <<feed, torn, active, posts>> /\ pulls' \in Nat /\ faults' \in Nat
    BY <1>1 DEF Start, Goto, Lost, PullInv, TypeOK
  <1>3. /\ j.from = m /\ j.since = since /\ j.cursor = NoHash /\ j.got = {} /\ j.seen = {}
        /\ j.chosen = Nothing /\ j \in Job
    BY DEF NoJob, Job
  <1>4. feed[m] \in SUBSET Feedable
    BY DEF PullInv, TypeOK
  <1>5. start \in SUBSET Feedable
    BY <1>4, SinceGrows
  <1> HIDE DEF j
  <1>6. \A q \in Node : /\ job'[q] = (IF q = n THEN j ELSE job[q])
                        /\ pc'[q] = (IF q = n THEN "page" ELSE pc[q])
                        /\ base'[q] = (IF q = n THEN start ELSE base[q])
    BY <1>1, <1>2 DEF PullInv, TypeOK, j
  <1>7. pc' \in [Node -> Steps] /\ job' \in [Node -> Job] /\ base' \in [Node -> SUBSET Feedable]
    <2> HIDE DEF start
    <2> QED BY <1>1, <1>2, <1>3, <1>5 DEF PullInv, TypeOK, Steps, j
  <1>8. \A q \in Node : \A u, v \in job'[q].got : u.hash = v.hash => u = v
    BY <1>3, <1>6 DEF PullInv, TypeOK
  <1>9. \A q \in Node : Busy(q)' => job'[q].from \in Node
    BY <1>3, <1>6 DEF PullInv, TypeOK, Busy
  <1>10. TypeOK'
    BY <1>2, <1>7, <1>8, <1>9 DEF PullInv, TypeOK, Steps
  <1>11. Sound(j, "page", start, Offered(m))
    BY <1>3 DEF Sound
  <1>12. ASSUME NEW q \in Node, job'[q].from \in Node
         PROVE  /\ base'[q] \subseteq Listed(q)'
                /\ Sound(job'[q], pc'[q], base'[q], Offered(job[q].from)')
    <2>1. CASE q = n
      <3>1. base'[q] = Listed(q)'
        BY <1>2, <1>3, <1>6, <2>1 DEF Listed
      <3>2. Offered(job[q].from)' = Offered(m)
        BY <1>2, <1>3, <1>6, <2>1 DEF Offered
      <3> HIDE DEF start
      <3> QED BY <1>6, <1>11, <2>1, <3>1, <3>2
    <2>2. CASE q # n
      <3>1. Listed(q)' = Listed(q) /\ Offered(job[q].from)' = Offered(job[q].from)
        BY <1>2, <1>6, <2>2 DEF Listed, Offered
      <3> HIDE DEF start
      <3> QED BY <1>6, <1>12, <2>2, <3>1 DEF PullInv
    <2> QED BY <2>1, <2>2
  <1>13. ASSUME NEW q \in Node, job'[q].from \notin Node
         PROVE  job'[q].chosen = Nothing
    BY <1>3, <1>6, <1>13 DEF PullInv
  <1> QED BY <1>10, <1>12, <1>13 DEF PullInv

\* Posting at one node: every pull stays sound.
LEMMA PostingOK ==
  ASSUME PullInv, UNCHANGED <<pc, job, pulls, faults>>,
         feed' \in [Node -> SUBSET Feedable], torn' \in [Node -> SUBSET Feedable],
         base' \in [Node -> SUBSET Feedable],
         active' \in [Node -> Feedable \cup {Nothing}], posts' \in Nat,
         \A m \in Node : Offered(m) \subseteq Offered(m)',
         \A q \in Node : job[q].from \in Node =>
           base'[q] \subseteq base[q] /\ base'[q] \subseteq Listed(q)'
  PROVE  PullInv'
  <1>1. TypeOK'
    BY DEF PullInv, TypeOK, Busy
  <1>2. ASSUME NEW q \in Node, job[q].from \in Node
        PROVE  Sound(job[q], pc[q], base'[q], Offered(job[q].from)')
    <2>1. Offered(job[q].from)' = feed'[job[q].from] \cup torn'[job[q].from]
      BY DEF Offered
    <2>2. Offered(job[q].from) \subseteq feed'[job[q].from] \cup torn'[job[q].from]
      BY <1>2 DEF Offered
    <2>3. Sound(job[q], pc[q], base[q], Offered(job[q].from))
      BY <1>2 DEF PullInv
    <2>4. base'[q] \in SUBSET base[q]
      BY <1>2
    <2>5. Sound(job[q], pc[q], base'[q], feed'[job[q].from] \cup torn'[job[q].from])
      BY <2>2, <2>3, <2>4, SoundStays
    <2> QED BY <2>1, <2>5
  <1> QED BY <1>1, <1>2 DEF PullInv

LEMMA StoreOpenOK ==
  ASSUME PullInv, NEW n \in Node, NEW u \in Feedable, StoreOpen(n, u)
  PROVE  PullInv'
  <1>1. /\ feed' = [feed EXCEPT ![n] = @ \ {u}] /\ torn' = [torn EXCEPT ![n] = @ \cup {u}]
        /\ feed \in [Node -> SUBSET Feedable] /\ torn \in [Node -> SUBSET Feedable]
        /\ base \in [Node -> SUBSET Feedable]
        /\ base' = [q \in Node |-> IF job[q].from = n
                                   THEN base[q] \cap Since(feed[n] \ {u}, job[q].since)
                                   ELSE base[q]]
        /\ UNCHANGED <<active, pc, job, pulls, faults>>
    BY DEF StoreOpen, PullInv, TypeOK
  <1>2. posts' \in Nat /\ active' \in [Node -> Feedable \cup {Nothing}]
    BY DEF StoreOpen, PullInv, TypeOK
  <1>3. feed' \in [Node -> SUBSET Feedable] /\ torn' \in [Node -> SUBSET Feedable]
    BY <1>1
  <1>4. base' \in [Node -> SUBSET Feedable]
    BY <1>1
  <1>5. \A m \in Node : Offered(m) \subseteq Offered(m)'
    BY <1>1 DEF Offered
  <1>6. ASSUME NEW q \in Node, job[q].from \in Node
        PROVE  base'[q] \subseteq base[q] /\ base'[q] \subseteq Listed(q)'
    <2>1. Listed(q)' = Since(feed'[job[q].from], job[q].since)
      BY <1>1 DEF Listed
    <2>2. CASE job[q].from = n
      BY <1>1, <2>1, <2>2
    <2>3. CASE job[q].from # n
      <3>1. feed'[job[q].from] = feed[job[q].from] /\ base'[q] = base[q]
        BY <1>1, <1>6, <2>3
      <3> QED BY <1>6, <2>1, <3>1 DEF PullInv, Listed
    <2> QED BY <2>2, <2>3
  <1> QED BY <1>1, <1>2, <1>3, <1>4, <1>5, <1>6, PostingOK

LEMMA StoreWriteOK ==
  ASSUME PullInv, NEW n \in Node, NEW u \in Feedable, StoreWrite(n, u)
  PROVE  PullInv'
  <1>1. /\ feed' = [feed EXCEPT ![n] = @ \cup {u}] /\ torn' = [torn EXCEPT ![n] = @ \ {u}]
        /\ feed \in [Node -> SUBSET Feedable] /\ torn \in [Node -> SUBSET Feedable]
        /\ UNCHANGED <<pc, job, pulls, faults, base>>
    BY DEF StoreWrite, PullInv, TypeOK
  <1>2. /\ posts' \in Nat /\ active' \in [Node -> Feedable \cup {Nothing}]
        /\ base' \in [Node -> SUBSET Feedable]
    BY DEF StoreWrite, PullInv, TypeOK
  <1>3. feed' \in [Node -> SUBSET Feedable] /\ torn' \in [Node -> SUBSET Feedable]
    BY <1>1
  <1>4. \A m \in Node : Offered(m) \subseteq Offered(m)'
    BY <1>1 DEF Offered
  <1>5. ASSUME NEW q \in Node, job[q].from \in Node
        PROVE  base'[q] \subseteq base[q] /\ base'[q] \subseteq Listed(q)'
    <2>1. Listed(q)' = Since(feed'[job[q].from], job[q].since)
      BY <1>1 DEF Listed
    <2>2. feed[job[q].from] \in SUBSET feed'[job[q].from]
          /\ feed'[job[q].from] \in SUBSET Feedable
      BY <1>1, <1>3, <1>5
    <2>3. Listed(q) \subseteq Listed(q)'
      BY <2>1, <2>2, SinceGrows DEF Listed
    <2> QED BY <1>1, <1>5, <2>3 DEF PullInv
  <1> QED BY <1>1, <1>2, <1>3, <1>4, <1>5, PostingOK

-----------------------------------------------------------------------------
(* The invariant *)

LEMMA InitOK == Init => PullInv
  <1> SUFFICES ASSUME Init PROVE PullInv
    OBVIOUS
  <1>1. NoJob \in Job
    BY DEF NoJob, Job
  <1>2. \A n \in Node : job[n] = NoJob /\ pc[n] = "idle" /\ base[n] = {}
    BY DEF Init
  <1>3. NoJob.got = {} /\ NoJob.seen = {} /\ NoJob.chosen = Nothing
    BY DEF NoJob
  <1>4. TypeOK
    BY <1>1, <1>2, <1>3 DEF Init, TypeOK, Busy
  <1>5. ASSUME NEW offered PROVE Sound(NoJob, "idle", {}, offered)
    BY <1>3 DEF Sound
  <1> QED BY <1>2, <1>3, <1>4, <1>5 DEF PullInv

LEMMA NextOK == PullInv /\ [Next]_vars => PullInv'
  <1> SUFFICES ASSUME PullInv, [Next]_vars PROVE PullInv'
    OBVIOUS
  <1>1. CASE UNCHANGED vars
    <2>1. UNCHANGED <<feed, torn, active, pc, job, posts, pulls, faults, base>>
      BY <1>1 DEF vars
    <2> QED BY <2>1 DEF PullInv, TypeOK, Busy, Listed, Offered
  <1>2. ASSUME NEW n \in Node, NEW u \in Feedable, StoreOpen(n, u) \/ StoreWrite(n, u)
        PROVE  PullInv'
    BY <1>2, StoreOpenOK, StoreWriteOK
  <1>3. ASSUME NEW n \in Node, NEW m \in Node, NEW since \in Hash \cup {NoHash},
               Start(n, m, since)
        PROVE  PullInv'
    BY <1>3, StartOK
  <1>4. ASSUME NEW n \in Node, PullStep(n)
        PROVE  PullInv'
    BY <1>4, NextPageOK, PageLostOK, WholeFeedOK, WholeLostOK, RefuseOK, CompareOK,
       FetchOK, SelectOK DEF PullStep, Advance
  <1> QED BY <1>1, <1>2, <1>3, <1>4 DEF Next

LEMMA Invariance == Spec => []PullInv
  BY InitOK, NextOK, PTL DEF Spec

\* The variables have their types, and the dictionary of a pull has one update
\* for a hash.
THEOREM TypeCorrect == Spec => []TypeOK
  <1>1. PullInv => TypeOK
    BY DEF PullInv
  <1> QED BY <1>1, Invariance, PTL

\* Paging (updates_page) misses nothing that was in the feed all the time,
\* whatever is posted between two pages.
THEOREM PagingIsComplete == Spec => []PagesComplete
  <1>1. PullInv => PagesComplete
    <2> SUFFICES ASSUME PullInv, NEW n \in Node, pc[n] \in {"check", "fill"},
                        NoReturn(job[n].from)
                 PROVE  base[n] \subseteq job[n].seen
      BY DEF PagesComplete
    <2>1. Unique(Offered(job[n].from))
      BY DEF NoReturn, Unique, Offered
    <2> QED BY <2>1, UnderWay DEF Sound
  <1> QED BY <1>1, Invariance, PTL

\* fill_history_gaps closes the history or names what is missing.
THEOREM EveryGapIsNamed == Spec => []GapsNamed
  <1>1. PullInv => GapsNamed
    BY DEF PullInv, Sound, GapsNamed
  <1> QED BY <1>1, Invariance, PTL

\* A node without updates of its own ends a pull at least as late as its peer
\* was at the beginning.
THEOREM FollowersKeepUp == Spec => []FollowerNotBehind
  <1>1. PullInv => FollowerNotBehind
    <2> SUFFICES ASSUME PullInv, NEW n \in Node, job[n].chosen # Nothing,
                        job[n].local = {}, NoReturn(job[n].from)
                 PROVE  \A u \in base[n] : ~Before(job[n].chosen, u)
      BY DEF FollowerNotBehind
    <2>1. Unique(Offered(job[n].from))
      BY DEF NoReturn, Unique, Offered
    <2> QED BY <2>1 DEF PullInv, Sound
  <1> QED BY <1>1, Invariance, PTL

\* reconcile never goes back behind the local head once the peer has sent all
\* that the node has.
THEOREM NoStepBack == Spec => []NeverBack
  <1>1. PullInv => NeverBack
    BY DEF PullInv, Sound, NeverBack
  <1> QED BY <1>1, Invariance, PTL

=============================================================================
