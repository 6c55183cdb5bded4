-------------------------- MODULE AuditExportProofs --------------------------
(***************************************************************************)
(* What the audit log and its exports guarantee for any callers, formats,  *)
(* rows and deaths: an export has the first events of the log and, alone,  *)
(* all that it began with; digests and signatures are of what they say;    *)
(* and the two locks never make everybody wait.                            *)
(***************************************************************************)
EXTENDS AuditExport, FiniteSetTheorems, TLAPS

-----------------------------------------------------------------------------
(* Prefixes *)

LEMMA PrefixOfItself ==
  ASSUME NEW S, NEW s \in Seq(S)
  PROVE  IsPrefix(s, s)
  BY DEF IsPrefix

LEMMA PrefixTrans ==
  ASSUME NEW S, NEW s \in Seq(S), NEW t \in Seq(S), NEW u \in Seq(S),
         IsPrefix(s, t), IsPrefix(t, u)
  PROVE  IsPrefix(s, u)
  BY DEF IsPrefix

\* What prefixes say place by place.
LEMMA PrefixPlaces ==
  ASSUME NEW S, NEW s \in Seq(S), NEW t \in Seq(S)
  PROVE  IsPrefix(s, t) <=> Len(s) <= Len(t) /\ \A i \in 1..Len(s) : s[i] = t[i]
  BY DEF IsPrefix

LEMMA FirstPlaces ==
  ASSUME NEW S, NEW s \in Seq(S), NEW i \in 0..Len(s)
  PROVE  SubSeq(s, 1, i) \in Seq(S) /\ IsPrefix(SubSeq(s, 1, i), s)
  <1>1. SubSeq(s, 1, i) \in Seq(S)
    OBVIOUS
  <1>2. PICK t \in Seq(S) : t = SubSeq(s, 1, i)
    BY <1>1
  <1>3. Len(t) = i /\ Len(s) \in Nat /\ i <= Len(s)
    BY <1>2
  <1>4. \A k \in 1..Len(t) : t[k] = s[k]
    BY <1>2, <1>3
  <1>5. IsPrefix(t, s)
    BY <1>3, <1>4, PrefixPlaces
  <1> QED
    BY <1>2, <1>5

\* Sequences with the same places are the same.
LEMMA SamePlaces ==
  ASSUME NEW S, NEW s \in Seq(S), NEW t \in Seq(S), Len(s) = Len(t),
         \A i \in 1..Len(s) : s[i] = t[i]
  PROVE  s = t
  OBVIOUS

\* What is read of a file in two parts, when both times it had the beginning of one
\* sequence, is the beginning of that.
LEMMA ReadInParts ==
  ASSUME NEW S, NEW e \in Seq(S), NEW f \in Seq(S), NEW o \in Seq(S),
         IsPrefix(e, o), IsPrefix(f, o)
  PROVE  /\ e \o SubSeq(f, Len(e) + 1, Len(f)) \in Seq(S)
         /\ IsPrefix(e \o SubSeq(f, Len(e) + 1, Len(f)), o)
  <1>1. /\ Len(e) \in Nat /\ Len(f) \in Nat /\ Len(o) \in Nat
        /\ Len(e) <= Len(o) /\ \A i \in 1..Len(e) : e[i] = o[i]
        /\ Len(f) <= Len(o) /\ \A i \in 1..Len(f) : f[i] = o[i]
    BY PrefixPlaces
  <1>2. PICK g, r : g = SubSeq(f, Len(e) + 1, Len(f)) /\ r = e \o g
    OBVIOUS
  <1>3. /\ g \in Seq(S)
        /\ Len(g) = IF Len(e) < Len(f) THEN Len(f) - Len(e) ELSE 0
        /\ \A i \in 1..Len(g) : g[i] = f[Len(e) + i]
    BY <1>1, <1>2
  <1>4. /\ r \in Seq(S) /\ Len(r) = Len(e) + Len(g)
        /\ \A i \in 1..Len(r) : r[i] = IF i <= Len(e) THEN e[i] ELSE g[i - Len(e)]
    BY <1>1, <1>2, <1>3
  <1>5. \A i \in 1..Len(r) : r[i] = o[i]
    BY <1>1, <1>3, <1>4
  <1>6. Len(r) <= Len(o)
    BY <1>1, <1>3, <1>4
  <1>7. IsPrefix(r, o)
    BY <1>4, <1>5, <1>6, PrefixPlaces
  <1> QED
    BY <1>2, <1>4, <1>7

\* A sequence is its first so many places and the others.
LEMMA InTwoParts ==
  ASSUME NEW S, NEW f \in Seq(S), NEW k \in 0..Len(f), NEW e, e = SubSeq(f, 1, k)
  PROVE  /\ e \in Seq(S) /\ Len(e) = k
         /\ SubSeq(f, k + 1, Len(f)) \in Seq(S)
         /\ e \o SubSeq(f, k + 1, Len(f)) = f
  <1>1. Len(f) \in Nat /\ k \in Nat /\ k <= Len(f)
    OBVIOUS
  <1>2. PICK g : g = SubSeq(f, k + 1, Len(f))
    OBVIOUS
  <1>3. e \in Seq(S) /\ Len(e) = k /\ \A i \in 1..k : e[i] = f[i]
    BY <1>1
  <1>4. g \in Seq(S) /\ Len(g) = Len(f) - k /\ \A i \in 1..Len(g) : g[i] = f[k + i]
    BY <1>1, <1>2
  <1>5. PICK r : r = e \o g
    OBVIOUS
  <1>6. /\ r \in Seq(S) /\ Len(r) = Len(f)
        /\ \A i \in 1..Len(r) : r[i] = IF i <= k THEN e[i] ELSE g[i - k]
    BY <1>1, <1>3, <1>4, <1>5
  <1>7. ASSUME NEW i \in 1..Len(r) PROVE r[i] = f[i]
    <2>1. i > k => i - k \in 1..Len(g) /\ g[i - k] = f[k + (i - k)] /\ k + (i - k) = i
      BY <1>1, <1>4, <1>6, <1>7
    <2> QED
      BY <1>1, <1>3, <1>6, <1>7, <2>1
  <1> QED
    BY <1>2, <1>3, <1>4, <1>5, <1>6, <1>7, SamePlaces

-----------------------------------------------------------------------------
(* The rows of the village *)

Row == [n : Nat, ours : BOOLEAN]

OursAt(s) == {k \in 1..Len(s) : s[k].ours}
UpTo(S, k) == Cardinality({j \in S : j <= k})

\* In a finite set of numbers the i-th of them is the one that has i of them up to it.
LEMMA Ranks ==
  ASSUME NEW S \in SUBSET Nat, IsFiniteSet(S)
  PROVE  /\ Cardinality(S) \in Nat
         /\ \A k \in S : UpTo(S, k) \in 1..Cardinality(S)
         /\ \A k, l \in S : UpTo(S, k) = UpTo(S, l) => k = l
         /\ \A i \in 1..Cardinality(S) : \E k \in S : UpTo(S, k) = i
  <1>1. Cardinality(S) \in Nat
    BY FS_CardinalityType
  <1>2. ASSUME NEW k \in S
        PROVE  /\ IsFiniteSet({j \in S : j <= k})
               /\ UpTo(S, k) \in 1..Cardinality(S)
    <2>1. PICK T \in SUBSET S : T = {j \in S : j <= k}
      OBVIOUS
    <2>2. IsFiniteSet(T) /\ Cardinality(T) <= Cardinality(S)
      BY FS_Subset
    <2>3. Cardinality(T) \in Nat /\ Cardinality(T) # 0
      <3>1. k \in T
        BY <2>1
      <3> QED
        BY <2>2, <3>1, FS_EmptySet, FS_CardinalityType
    <2> QED
      BY <1>1, <2>1, <2>2, <2>3 DEF UpTo
  <1>3. ASSUME NEW k \in S, NEW l \in S, k < l
        PROVE  UpTo(S, k) # UpTo(S, l)
    <2>1. PICK T, U : T = {j \in S : j <= k} /\ U = {j \in S : j <= l}
      OBVIOUS
    <2>2. l \in U /\ l \notin T
      BY <1>3, <2>1
    <2>3. T \in SUBSET U
      <3>1. \A j \in S : j <= k => j <= l
        BY <1>3
      <3> QED
        BY <2>1, <3>1
    <2>4. Cardinality(T) # Cardinality(U)
      BY <1>2, <2>1, <2>2, <2>3, FS_Subset
    <2> QED
      BY <2>1, <2>4 DEF UpTo
  <1>4. \A k, l \in S : UpTo(S, k) = UpTo(S, l) => k = l
    BY <1>3
  <1>5. ASSUME NEW i \in 1..Cardinality(S)
        PROVE  \E k \in S : UpTo(S, k) = i
    <2>1. PICK f : f = [k \in S |-> UpTo(S, k)]
      OBVIOUS
    <2>2. PICK T : T = 1..Cardinality(S)
      OBVIOUS
    <2>3. IsFiniteSet(T) /\ Cardinality(T) = Cardinality(S)
      BY <1>1, <2>2, FS_Interval
    <2>4. f \in Injection(S, T)
      BY <1>2, <1>4, <2>1, <2>2 DEF Injection, IsInjective
    <2>5. f \in Surjection(S, T)
      BY <2>3, <2>4, FS_Injection
    <2> QED
      BY <2>1, <2>2, <2>5 DEF Surjection
  <1> QED
    BY <1>1, <1>2, <1>4, <1>5

\* A row that is appended leaves the others where they are.
LEMMA RowAppended ==
  ASSUME NEW s \in Seq(Row), NEW x \in Row
  PROVE  /\ Append(s, x) \in Seq(Row) /\ Len(Append(s, x)) = Len(s) + 1
         /\ \A k \in 1..Len(s) : Append(s, x)[k] = s[k]
  OBVIOUS

LEMMA OursType ==
  ASSUME NEW s \in Seq(Row)
  PROVE  /\ Ours(s) \in Seq(Row)
         /\ Len(Ours(s)) = Cardinality(OursAt(s))
         /\ \A k \in OursAt(s) : \E i \in 1..Len(Ours(s)) : Ours(s)[i] = s[k]
  <1>1. PICK S : S = OursAt(s)
    OBVIOUS
  <1>2. S \subseteq 1..Len(s) /\ Len(s) \in Nat
    BY <1>1 DEF OursAt
  <1>3. S \in SUBSET Nat /\ IsFiniteSet(S)
    <2>1. IsFiniteSet(1..Len(s))
      BY <1>2, FS_Interval
    <2>2. IsFiniteSet(S)
      BY <1>2, <2>1, FS_Subset
    <2>3. S \in SUBSET Nat
      BY <1>2
    <2> QED
      BY <2>2, <2>3
  <1>4. PICK n \in Nat : n = Cardinality(S)
    BY <1>3, Ranks
  <1> DEFINE nth(i) == CHOOSE k \in S : UpTo(S, k) = i
  <1>5. Ours(s) = [i \in 1..n |-> s[nth(i)]]
    BY <1>1, <1>4 DEF Ours, OursAt, UpTo
  <1>6. ASSUME NEW i \in 1..n
        PROVE  nth(i) \in S /\ UpTo(S, nth(i)) = i
    <2>1. \E k \in S : UpTo(S, k) = i
      BY <1>3, <1>4, Ranks
    <2> QED
      BY <2>1
  <1> HIDE DEF nth
  <1>7. \A i \in 1..n : s[nth(i)] \in Row
    <2>1. \A k \in 1..Len(s) : s[k] \in Row
      OBVIOUS
    <2> QED
      BY <1>2, <1>6, <2>1
  <1>8. Ours(s) \in Seq(Row) /\ Len(Ours(s)) = n
    BY <1>5, <1>7
  <1>9. ASSUME NEW k \in S PROVE \E i \in 1..n : Ours(s)[i] = s[k]
    <2>1. PICK i \in 1..n : i = UpTo(S, k)
      BY <1>3, <1>4, Ranks
    <2>2. nth(i) \in S /\ UpTo(S, nth(i)) = UpTo(S, k)
      BY <1>6, <2>1
    <2>3. nth(i) = k
      BY <1>3, <2>2, Ranks
    <2> QED
      BY <1>5, <2>3
  <1> QED
    BY <1>1, <1>4, <1>8, <1>9

\* What has been exported stays the beginning of what there is to export.
LEMMA OursGrows ==
  ASSUME NEW s \in Seq(Row), NEW x \in Row
  PROVE  IsPrefix(Ours(s), Ours(Append(s, x)))
  <1>1. PICK t \in Seq(Row) : t = Append(s, x)
    BY RowAppended
  <1>2. PICK S, T : S = OursAt(s) /\ T = OursAt(t)
    OBVIOUS
  <1>3. /\ S \subseteq 1..Len(s) /\ T \subseteq 1..(Len(s) + 1) /\ Len(s) \in Nat
        /\ T \cap (1..Len(s)) = S
    <2>1. /\ 1..Len(s) \subseteq 1..Len(s) /\ 1..Len(t) \subseteq 1..Len(t)
          /\ Len(t) = Len(s) + 1 /\ Len(s) \in Nat
      BY <1>1, RowAppended
    <2>2. \A k \in 1..Len(s) : t[k] = s[k] /\ (k \in 1..Len(t) <=> k \in 1..Len(s))
      BY <1>1, RowAppended
    <2> QED
      BY <1>2, <2>1, <2>2 DEF OursAt
  <1>4. PICK l \in Nat : l = Len(s)
    BY <1>3
  <1>5. S \in SUBSET Nat /\ T \in SUBSET Nat /\ IsFiniteSet(S) /\ IsFiniteSet(T)
    <2>1. IsFiniteSet(1..l) /\ IsFiniteSet(1..(l + 1))
      BY FS_Interval
    <2>2. IsFiniteSet(S) /\ IsFiniteSet(T)
      BY <1>3, <1>4, <2>1, FS_Subset
    <2> QED
      BY <1>3, <1>4, <2>2
  <1>6. S \subseteq T
    BY <1>3
  <1>7. PICK m, n \in Nat : m = Cardinality(S) /\ n = Cardinality(T)
    BY <1>5, Ranks
  <1>8. m <= n
    BY <1>5, <1>6, <1>7, FS_Subset
  <1>9. \A k \in S : UpTo(T, k) = UpTo(S, k)
    <2>1. SUFFICES ASSUME NEW k \in S PROVE {j \in T : j <= k} = {j \in S : j <= k}
      BY DEF UpTo
    <2>2. \A j \in T : j <= k => j \in S
      BY <1>3, <1>4, <1>5
    <2> QED
      BY <1>6, <2>2
  <1>10. ASSUME NEW i \in 1..m
         PROVE  \A k \in T : UpTo(T, k) = i <=> k \in S /\ UpTo(S, k) = i
    <2>1. PICK k \in S : UpTo(S, k) = i
      BY <1>5, <1>7, Ranks
    <2>2. ASSUME NEW j \in T, UpTo(T, j) = i PROVE j = k
      BY <1>5, <1>6, <1>9, <2>1, <2>2, Ranks
    <2> QED
      BY <1>9, <2>1, <2>2
  <1> DEFINE nth(i) == CHOOSE k \in S : UpTo(S, k) = i
             nthT(i) == CHOOSE k \in T : UpTo(T, k) = i
  <1>11. ASSUME NEW i \in 1..m PROVE nthT(i) \in S /\ nth(i) = nthT(i)
    <2>1. PICK k \in S : UpTo(S, k) = i
      BY <1>5, <1>7, Ranks
    <2>2. nth(i) \in S /\ UpTo(S, nth(i)) = i
      BY <2>1
    <2>3. k \in T /\ UpTo(T, k) = i
      BY <1>6, <1>9, <2>1
    <2>4. nthT(i) \in T /\ UpTo(T, nthT(i)) = i
      BY <2>3
    <2>5. nthT(i) \in S /\ UpTo(S, nthT(i)) = i
      BY <1>10, <2>4
    <2> HIDE DEF nth, nthT
    <2>6. \A a, b \in S : UpTo(S, a) = UpTo(S, b) => a = b
      BY <1>5, Ranks
    <2> QED
      BY <2>2, <2>5, <2>6
  <1>12. /\ Ours(s) = [i \in 1..m |-> s[nth(i)]]
         /\ Ours(t) = [i \in 1..n |-> t[nthT(i)]]
    BY <1>2, <1>7 DEF Ours, OursAt, UpTo
  <1> HIDE DEF nth, nthT
  <1>13. \A i \in 1..m : Ours(t)[i] = Ours(s)[i]
    <2>1. \A k \in 1..l : t[k] = s[k]
      BY <1>1, <1>4, RowAppended
    <2> QED
      BY <1>3, <1>4, <1>8, <1>11, <1>12, <2>1
  <1>14. PICK u, v \in Seq(Row) : u = Ours(s) /\ v = Ours(t) /\ Len(u) = m /\ Len(v) = n
    BY <1>2, <1>7, OursType
  <1>15. SubSeq(u, 1, m) = SubSeq(v, 1, m)
    BY <1>8, <1>13, <1>14
  <1> QED
    BY <1>1, <1>8, <1>14, <1>15 DEF IsPrefix

-----------------------------------------------------------------------------
(* The invariant *)

Content == {Absent, Empty, Mixed} \cup [state : {"whole"}, events : Seq(Row)]
WriteJob == [op : {"write"}, pc : {"lock", "unlock", "close"}, row : Row, long : BOOLEAN]
ExportPc ==
    {"lock log", "open filtered", "lock filtered", "unlock filtered", "close filtered",
     "unlock log", "read", "read on", "open", "fill", "read back", "digest", "sign", "done"}
ExportJob ==
    [op : {"export"}, pc : ExportPc,
     fmt : Formats, sign : BOOLEAN, alone : BOOLEAN, before : SUBSET Nat,
     buffer : Seq(Row), events : Seq(Row), digest : Content]
Job == {Idle} \cup WriteJob \cup ExportJob

TypeOK ==
    /\ log \in Seq(Row) /\ filtered \in Seq(Row)
    /\ data \in [Formats -> Content] /\ sha \in [Formats -> Content] /\ sig \in [Formats -> Content]
    /\ job \in [Procs -> Job]
    /\ rows \in Nat

\* Who has a lock, and who is in between taking it and releasing it.
HoldsLog(j) ==
    \/ j.op = "write" /\ j.pc = "unlock"
    \/ j.op = "export" /\ j.pc \in {"open filtered", "lock filtered", "unlock filtered",
                                    "close filtered", "unlock log"}
HoldsFiltered(j) == j.op = "export" /\ j.pc \in {"unlock filtered", "read on"}
LocksInv ==
    /\ logLock \in Procs \cup {NoOne} /\ filteredLock \in Procs \cup {NoOne}
    /\ \A p \in Procs : /\ HoldsLog(job[p]) <=> logLock = p
                        /\ HoldsFiltered(job[p]) <=> filteredLock = p

\* The filtered file has the first events of the log, and is the log holder's: it is
\* empty before he filters, and with what is in his buffer it is still of the log.
FilterOf(j) == j.op = "export" =>
    /\ IsPrefix(j.events, Ours(log))
    /\ j.pc = "lock filtered" => filtered = <<>>
    /\ j.pc \in {"unlock filtered", "close filtered"} => IsPrefix(filtered \o j.buffer, Ours(log))
FilterInv ==
    /\ IsPrefix(filtered, Ours(log))
    /\ \A p \in Procs : FilterOf(job[p])
    /\ \A f \in Formats : data[f].state = "whole" => IsPrefix(data[f].events, Ours(log))

\* An export that is alone finds in each place what it left there.
Covers(j, s) == \A k \in j.before : log[k].ours => \E i \in 1..Len(s) : s[i] = log[k]
LoneOf(j) == j.op = "export" =>
    /\ j.before \subseteq 1..Len(log)
    /\ j.alone =>
          /\ j.pc \in {"unlock filtered", "close filtered"} => Covers(j, filtered \o j.buffer)
          /\ j.pc \in {"unlock log", "read", "read on"} => Covers(j, filtered)
          /\ j.pc = "read on" => \E k \in 0..Len(filtered) : j.events = SubSeq(filtered, 1, k)
          /\ j.pc \in {"open", "fill", "read back", "digest", "sign", "done"} => Covers(j, j.events)
LoneInv ==
    /\ \A p, q \in Procs : Exporting(p) /\ Exporting(q) /\ job[p].alone => p = q
    /\ \A p \in Procs : LoneOf(job[p])

\* From the moment a file is opened until it is signed its format is stale; an export
\* that is alone finds there what it wrote.
SealOf(j) == j.op = "export" =>
    /\ j.pc \in {"fill", "read back", "digest", "sign"} => j.fmt \in stale
    /\ j.pc = "read back" => j.fmt # "json"
    /\ j.pc \in {"digest", "sign", "done"} /\ (j.fmt = "json" \/ j.alone)
          => j.digest = Whole(j.events)
    /\ j.alone =>
          /\ j.pc = "fill" => data[j.fmt] = Empty
          /\ j.pc \in {"read back", "digest", "sign"} => data[j.fmt] = Whole(j.events)
          /\ j.pc = "sign" => sha[j.fmt] = j.digest
SealInv ==
    /\ \A p \in Procs : SealOf(job[p])
    /\ SignatureIsOfTheFile

-----------------------------------------------------------------------------
(* What a step of one caller leaves to the others *)

LEMMA JobFields ==
  ASSUME NEW j \in Job
  PROVE  /\ j.op = "write" => j \in WriteJob
         /\ j.op = "export" => j \in ExportJob
         /\ Idle \in Job /\ Idle.op = "none"
  <1>1. Idle \in Job /\ Idle.op = "none"
    BY DEF Job, Idle
  <1>2. j \in WriteJob => j.op = "write"
    BY DEF WriteJob
  <1>3. j \in ExportJob => j.op = "export"
    BY DEF ExportJob
  <1> QED
    BY <1>1, <1>2, <1>3 DEF Job

LogGrows == log' = log \/ \E x \in Row : log' = Append(log, x)

LEMMA GrowsMeans ==
  ASSUME TypeOK, LogGrows
  PROVE  /\ log' \in Seq(Row)
         /\ Len(log) \in Nat /\ Len(log') \in Nat /\ Len(log) <= Len(log')
         /\ \A k \in 1..Len(log) : log'[k] = log[k]
         /\ 1..Len(log) \subseteq 1..Len(log') /\ 1..Len(log) \subseteq 1..Len(log)
         /\ \A s \in Seq(Row) : IsPrefix(s, Ours(log)) => IsPrefix(s, Ours(log'))
  <1>1. PICK s \in Seq(Row) : s = log
    BY DEF TypeOK
  <1>2. 1..Len(s) \subseteq 1..Len(s) /\ Len(s) \in Nat
    OBVIOUS
  <1>3. CASE log' = log
    BY <1>1, <1>2, <1>3
  <1>4. ASSUME NEW x \in Row, log' = Append(log, x)
        PROVE  /\ log' \in Seq(Row)
               /\ Len(log) \in Nat /\ Len(log') \in Nat /\ Len(log) <= Len(log')
               /\ \A k \in 1..Len(log) : log'[k] = log[k]
               /\ 1..Len(log) \subseteq 1..Len(log')
               /\ \A r \in Seq(Row) : IsPrefix(r, Ours(log)) => IsPrefix(r, Ours(log'))
    <2>1. PICK t \in Seq(Row) : t = Append(s, x) /\ log' = t
      BY <1>1, <1>4, RowAppended
    <2>2. 1..Len(s) \subseteq 1..Len(t)
      BY <1>2, <2>1, RowAppended
    <2>3. PICK u, v \in Seq(Row) : u = Ours(s) /\ v = Ours(t)
      BY OursType
    <2>4. IsPrefix(u, v)
      BY <2>1, <2>3, OursGrows
    <2>5. \A r \in Seq(Row) : IsPrefix(r, u) => IsPrefix(r, v)
      BY <2>4, PrefixTrans
    <2> QED
      BY <1>1, <1>2, <2>1, <2>2, <2>3, <2>5, RowAppended
  <1> QED
    BY <1>1, <1>2, <1>3, <1>4 DEF LogGrows

\* p's job becomes k.
Moves(p, k) == job' = [job EXCEPT ![p] = k]

\* A lock that p takes, has or releases.
LockMoves(p, lock, after) == after = lock \/ {lock, after} \subseteq {p, NoOne}

LEMMA LocksMove ==
  ASSUME TypeOK, LocksInv, NEW p \in Procs, NEW k, Moves(p, k),
         LockMoves(p, logLock, logLock'), HoldsLog(k) <=> logLock' = p,
         LockMoves(p, filteredLock, filteredLock'), HoldsFiltered(k) <=> filteredLock' = p
  PROVE  LocksInv'
  <1>1. \A q \in Procs : job'[q] = IF q = p THEN k ELSE job[q]
    BY DEF Moves, TypeOK
  <1>2. \A q \in Procs : q # NoOne
    BY ExportAssumption
  <1>3. \A q \in Procs \ {p} : /\ logLock' = q <=> logLock = q
                               /\ filteredLock' = q <=> filteredLock = q
    BY <1>2 DEF LockMoves
  <1>4. logLock' \in Procs \cup {NoOne} /\ filteredLock' \in Procs \cup {NoOne}
    BY DEF LockMoves, LocksInv
  <1> QED
    BY <1>1, <1>3, <1>4 DEF LocksInv

\* The log grows, the filtered file stays.
LEMMA FilterStays ==
  ASSUME TypeOK, LogGrows, filtered' = filtered, NEW j \in Job, FilterOf(j)
  PROVE  FilterOf(j)'
  <1>1. ASSUME j.op = "export"
        PROVE  /\ IsPrefix(j.events, Ours(log'))
               /\ j.pc = "lock filtered" => filtered = <<>>
               /\ j.pc \in {"unlock filtered", "close filtered"}
                     => IsPrefix(filtered \o j.buffer, Ours(log'))
    <2>1. j.events \in Seq(Row) /\ j.buffer \in Seq(Row)
      BY <1>1, JobFields DEF ExportJob
    <2>2. filtered \o j.buffer \in Seq(Row)
      BY <2>1 DEF TypeOK
    <2> QED
      BY <1>1, <2>1, <2>2, GrowsMeans DEF FilterOf
  <1> QED
    BY <1>1 DEF FilterOf

LEMMA FilterRest ==
  ASSUME TypeOK, FilterInv, LogGrows, filtered' = filtered,
         NEW p \in Procs, NEW k \in Job, Moves(p, k), FilterOf(k),
         \A f \in Formats : data'[f].state = "whole" =>
            data'[f].events \in Seq(Row) /\ IsPrefix(data'[f].events, Ours(log))
  PROVE  FilterInv'
  <1>1. ASSUME NEW q \in Procs PROVE FilterOf(job[q])'
    <2>1. PICK j : j = job'[q]
      OBVIOUS
    <2>2. j \in Job /\ FilterOf(j)
      BY <2>1 DEF Moves, TypeOK, FilterInv
    <2>3. FilterOf(j)'
      BY <2>2, FilterStays
    <2> QED
      BY <2>1, <2>3 DEF FilterOf
  <1>2. IsPrefix(filtered, Ours(log'))
    BY GrowsMeans DEF TypeOK, FilterInv
  <1>3. \A f \in Formats : data'[f].state = "whole" => IsPrefix(data'[f].events, Ours(log'))
    BY GrowsMeans
  <1> QED
    BY <1>1, <1>2, <1>3 DEF FilterInv

\* Where the exported files stay, what is in them is of the log.
LEMMA DataOfLog ==
  ASSUME TypeOK, FilterInv
  PROVE  \A f \in Formats : data[f].state = "whole" =>
            data[f].events \in Seq(Row) /\ IsPrefix(data[f].events, Ours(log))
  <1>1. ASSUME NEW f \in Formats, data[f].state = "whole" PROVE data[f].events \in Seq(Row)
    <2>1. PICK c \in Content : c = data[f]
      BY DEF TypeOK
    <2> QED
      BY <1>1, <2>1 DEF Content, Absent, Empty, Mixed
  <1> QED
    BY <1>1 DEF FilterInv

\* The filtered file is changed by him who holds the lock of the log.
LEMMA FilterOwn ==
  ASSUME TypeOK, LocksInv, FilterInv, UNCHANGED <<log, data>>,
         NEW p \in Procs, NEW k, Moves(p, k), HoldsLog(job[p]),
         IsPrefix(filtered', Ours(log)), FilterOf(k)'
  PROVE  FilterInv'
  <1>1. ASSUME NEW q \in Procs PROVE FilterOf(job[q])'
    <2>1. PICK j : j = job'[q]
      OBVIOUS
    <2>2. CASE q = p
      <3>1. j = k
        BY <2>1, <2>2 DEF Moves, TypeOK
      <3> QED
        BY <2>1, <3>1 DEF FilterOf
    <2>3. CASE q # p
      <3>1. j = job[q] /\ j \in Job /\ FilterOf(j)
        BY <2>1, <2>3 DEF Moves, TypeOK, FilterInv
      <3>2. ~ HoldsLog(j)
        BY <2>3, <3>1 DEF LocksInv
      <3>3. FilterOf(j)'
        BY <3>1, <3>2 DEF FilterOf, HoldsLog
      <3> QED
        BY <2>1, <3>3 DEF FilterOf
    <2> QED
      BY <2>2, <2>3
  <1> QED
    BY <1>1 DEF FilterInv

\* Nobody but p is exporting, or p is not alone.
LEMMA CoversStays ==
  ASSUME TypeOK, LogGrows, NEW j, j.before \subseteq 1..Len(log), NEW s, Covers(j, s)
  PROVE  Covers(j, s)'
  <1>1. \A i \in j.before : log'[i] = log[i]
    BY GrowsMeans
  <1> QED
    BY <1>1 DEF Covers

LEMMA LoneStays ==
  ASSUME TypeOK, LogGrows, filtered' = filtered, NEW j, LoneOf(j)
  PROVE  LoneOf(j)'
  <1>1. CASE j.op # "export"
    BY <1>1 DEF LoneOf
  <1>2. CASE j.op = "export"
    <2>1. j.before \subseteq 1..Len(log) /\ j.before \subseteq 1..Len(log')
      BY <1>2, GrowsMeans DEF LoneOf
    <2>2. PICK g : g = filtered
      OBVIOUS
    <2>3. Covers(j, g) => Covers(j, g)'
      BY <2>1, CoversStays
    <2>4. Covers(j, g \o j.buffer) => Covers(j, g \o j.buffer)'
      BY <2>1, CoversStays
    <2>5. Covers(j, j.events) => Covers(j, j.events)'
      BY <2>1, CoversStays
    <2> QED
      BY <1>2, <2>1, <2>2, <2>3, <2>4, <2>5 DEF LoneOf, Covers
  <1> QED
    BY <1>1, <1>2

LEMMA PairsStay ==
  ASSUME TypeOK, LoneInv, NEW p \in Procs, NEW k, Moves(p, k),
         k.op = "export" => Exporting(p) /\ (k.alone => job[p].alone)
  PROVE  \A q, r \in Procs : Exporting(q)' /\ Exporting(r)' /\ job'[q].alone => q = r
  <1>1. \A q \in Procs : job'[q] = IF q = p THEN k ELSE job[q]
    BY DEF Moves, TypeOK
  <1>2. ASSUME NEW q \in Procs, Exporting(q)'
        PROVE  Exporting(q) /\ (job'[q].alone => job[q].alone)
    BY <1>1, <1>2 DEF Exporting
  <1> QED
    BY <1>2 DEF LoneInv

LEMMA LoneRest ==
  ASSUME TypeOK, LoneInv, LogGrows, filtered' = filtered,
         NEW p \in Procs, NEW k, Moves(p, k), LoneOf(k),
         k.op = "export" => Exporting(p) /\ (k.alone => job[p].alone)
  PROVE  LoneInv'
  <1>1. ASSUME NEW q \in Procs PROVE LoneOf(job[q])'
    <2>1. PICK j : j = job'[q]
      OBVIOUS
    <2>2. LoneOf(j)
      BY <2>1 DEF Moves, TypeOK, LoneInv
    <2>3. LoneOf(j)'
      BY <2>2, LoneStays
    <2> QED
      BY <2>1, <2>3 DEF LoneOf, Covers
  <1> QED
    BY <1>1, PairsStay DEF LoneInv

LEMMA LoneOwn ==
  ASSUME TypeOK, LoneInv, log' = log,
         NEW p \in Procs, NEW k, Moves(p, k), LoneOf(k)', Exporting(p),
         k.alone => job[p].alone
  PROVE  LoneInv'
  <1>1. ASSUME NEW q \in Procs PROVE LoneOf(job[q])'
    <2>1. PICK j : j = job'[q]
      OBVIOUS
    <2>2. CASE q = p
      <3>1. k = job'[q]
        BY <2>2 DEF Moves, TypeOK
      <3> QED
        BY <3>1 DEF LoneOf, Covers
    <2>3. CASE q # p
      <3>1. j = job[q] /\ LoneOf(j)
        BY <2>1, <2>3 DEF Moves, TypeOK, LoneInv
      <3>2. j.op = "export" => ~ j.alone
        BY <2>3, <3>1 DEF LoneInv, Exporting
      <3>3. LoneOf(j)'
        BY <3>1, <3>2 DEF LoneOf
      <3> QED
        BY <2>1, <3>3 DEF LoneOf, Covers
    <2> QED
      BY <2>2, <2>3
  <1> QED
    BY <1>1, PairsStay DEF LoneInv

LEMMA SealRest ==
  ASSUME TypeOK, SealInv, UNCHANGED <<data, sha, sig, stale>>,
         NEW p \in Procs, NEW k, Moves(p, k), SealOf(k)
  PROVE  SealInv'
  <1>1. ASSUME NEW q \in Procs PROVE SealOf(job[q])'
    <2>1. PICK j : j = job'[q]
      OBVIOUS
    <2>2. SealOf(j)
      BY <2>1 DEF Moves, TypeOK, SealInv
    <2> QED
      BY <2>1, <2>2 DEF SealOf
  <1> QED
    BY <1>1 DEF SealInv, SignatureIsOfTheFile

LEMMA SealOwn ==
  ASSUME TypeOK, LoneInv, SealInv,
         NEW p \in Procs, NEW k, Moves(p, k), Exporting(p), SealOf(k)',
         stale \subseteq stale' \/ job[p].alone, SignatureIsOfTheFile'
  PROVE  SealInv'
  <1>1. ASSUME NEW q \in Procs PROVE SealOf(job[q])'
    <2>1. PICK j : j = job'[q]
      OBVIOUS
    <2>2. CASE q = p
      <3>1. j = k
        BY <2>1, <2>2 DEF Moves, TypeOK
      <3> QED
        BY <2>1, <3>1 DEF SealOf
    <2>3. CASE q # p
      <3>1. j = job[q] /\ SealOf(j)
        BY <2>1, <2>3 DEF Moves, TypeOK, SealInv
      <3>2. j.op = "export" => ~ j.alone /\ stale \subseteq stale'
        BY <2>3, <3>1 DEF LoneInv, Exporting
      <3>3. SealOf(j)'
        BY <3>1, <3>2 DEF SealOf
      <3> QED
        BY <2>1, <3>3 DEF SealOf
    <2> QED
      BY <2>2, <2>3
  <1> QED
    BY <1>1 DEF SealInv

-----------------------------------------------------------------------------
(* Steps that leave the files alone *)

Inv == TypeOK /\ LocksInv /\ FilterInv /\ LoneInv /\ SealInv

LEMMA StepRest ==
  ASSUME Inv, NEW p \in Procs, NEW k \in Job, Moves(p, k),
         UNCHANGED <<files, rows, stale>>,
         LockMoves(p, logLock, logLock'), HoldsLog(k) <=> logLock' = p,
         LockMoves(p, filteredLock, filteredLock'), HoldsFiltered(k) <=> filteredLock' = p,
         k.op = "export" => Exporting(p) /\ (k.alone => job[p].alone),
         FilterOf(k), LoneOf(k), SealOf(k)
  PROVE  Inv'
  <1>1. UNCHANGED <<log, filtered, data, sha, sig, rows, stale>>
    BY DEF files
  <1>2. TypeOK'
    BY <1>1 DEF Inv, TypeOK, Moves
  <1>3. LocksInv'
    BY LocksMove DEF Inv
  <1>5. LogGrows
    BY <1>1 DEF LogGrows
  <1>6. FilterInv'
    <2>1. \A f \in Formats : data'[f].state = "whole" =>
             data'[f].events \in Seq(Row) /\ IsPrefix(data'[f].events, Ours(log))
      BY <1>1, DataOfLog DEF Inv
    <2> QED
      BY <1>1, <1>5, <2>1, FilterRest DEF Inv
  <1>7. LoneInv'
    BY <1>1, <1>5, LoneRest DEF Inv
  <1>8. SealInv'
    BY <1>1, SealRest DEF Inv
  <1> QED
    BY <1>2, <1>3, <1>6, <1>7, <1>8 DEF Inv

\* A caller at rest has nothing to keep.
LEMMA IdleKeeps ==
  /\ Idle \in Job /\ Idle.op = "none"
  /\ ~ HoldsLog(Idle) /\ ~ HoldsFiltered(Idle)
  /\ FilterOf(Idle) /\ LoneOf(Idle) /\ SealOf(Idle)
  <1>1. Idle \in Job /\ Idle.op = "none"
    BY DEF Job, Idle
  <1> QED
    BY <1>1 DEF HoldsLog, HoldsFiltered, FilterOf, LoneOf, SealOf

LEMMA WriteKeeps ==
  ASSUME NEW k \in WriteJob
  PROVE  /\ k \in Job /\ k.op = "write"
         /\ ~ HoldsFiltered(k)
         /\ HoldsLog(k) <=> k.pc = "unlock"
         /\ FilterOf(k) /\ LoneOf(k) /\ SealOf(k)
  <1>1. k \in Job /\ k.op = "write"
    BY DEF Job, WriteJob
  <1> QED
    BY <1>1 DEF HoldsLog, HoldsFiltered, FilterOf, LoneOf, SealOf

Same(k, j) ==
    /\ k.fmt = j.fmt /\ k.sign = j.sign /\ k.alone = j.alone /\ k.before = j.before
    /\ k.buffer = j.buffer /\ k.events = j.events /\ k.digest = j.digest

LEMMA DieKept ==
  ASSUME Inv, NEW p \in Procs, Die(p)
  PROVE  Inv'
  <1>1. /\ Moves(p, Idle) /\ UNCHANGED <<files, rows, stale>>
        /\ logLock' = (IF logLock = p THEN NoOne ELSE logLock)
        /\ filteredLock' = (IF filteredLock = p THEN NoOne ELSE filteredLock)
    BY DEF Die, Moves
  <1>2. p # NoOne
    BY ExportAssumption
  <1>3. LockMoves(p, logLock, logLock') /\ LockMoves(p, filteredLock, filteredLock')
    BY <1>1 DEF LockMoves
  <1> QED
    BY <1>1, <1>2, <1>3, IdleKeeps, StepRest

LEMMA UnlockWrittenKept ==
  ASSUME Inv, NEW p \in Procs, UnlockWritten(p)
  PROVE  Inv'
  <1>1. PICK j \in WriteJob : j = job[p] /\ j.pc = "unlock"
    BY JobFields DEF Inv, TypeOK, UnlockWritten, Writing
  <1>2. PICK k : k = [j EXCEPT !.pc = "close"]
    OBVIOUS
  <1>3. k \in WriteJob /\ k.row = j.row /\ k.long = j.long /\ k.pc = "close"
    BY <1>2 DEF WriteJob
  <1>4. /\ Moves(p, k) /\ logLock' = NoOne
        /\ UNCHANGED <<files, rows, stale, filteredLock>>
    BY <1>1, <1>2 DEF UnlockWritten, Goto, Moves, counters
  <1>5. HoldsLog(j) /\ ~ HoldsFiltered(j) /\ Writing(p)
    BY <1>1, WriteKeeps DEF Writing
  <1>6. logLock = p /\ filteredLock # p /\ p # NoOne
    BY <1>1, <1>5, ExportAssumption DEF Inv, LocksInv
  <1>7. LockMoves(p, logLock, logLock') /\ LockMoves(p, filteredLock, filteredLock')
    BY <1>4, <1>6 DEF LockMoves
  <1> QED
    BY <1>1, <1>3, <1>4, <1>5, <1>6, <1>7, WriteKeeps, StepRest

LEMMA ExporterHas ==
  ASSUME Inv, NEW p \in Procs, NEW j, j = job[p], j.op = "export"
  PROVE  /\ j \in ExportJob /\ Exporting(p)
         /\ FilterOf(j) /\ LoneOf(j) /\ SealOf(j)
         /\ HoldsLog(j) <=> logLock = p
         /\ HoldsFiltered(j) <=> filteredLock = p
  BY JobFields DEF Inv, TypeOK, LocksInv, FilterInv, LoneInv, SealInv, Exporting

LEMMA LockLogKept ==
  ASSUME Inv, NEW p \in Procs, LockLog(p)
  PROVE  Inv'
  <1>1. PICK j : j = job[p]
    OBVIOUS
  <1>2. j.op = "export" /\ j.pc = "lock log"
    BY <1>1 DEF LockLog, Exporting
  <1>3. j \in ExportJob /\ Exporting(p) /\ FilterOf(j) /\ LoneOf(j)
        /\ (HoldsFiltered(j) <=> filteredLock = p)
    BY <1>1, <1>2, ExporterHas
  <1>4. PICK k : k = [j EXCEPT !.pc = "open filtered"]
    OBVIOUS
  <1>5. k \in Job /\ k.op = "export" /\ k.pc = "open filtered" /\ Same(k, j)
    <2>1. "open filtered" \in ExportPc
      BY DEF ExportPc
    <2> QED
      BY <1>3, <1>4, <2>1 DEF ExportJob, Job, Same
  <1>6. /\ Moves(p, k) /\ logLock = NoOne /\ logLock' = p
        /\ UNCHANGED <<files, rows, stale, filteredLock>>
    BY <1>1, <1>4 DEF LockLog, Goto, Moves, counters
  <1>7. HoldsLog(k) /\ ~ HoldsFiltered(k) /\ ~ HoldsFiltered(j)
    BY <1>2, <1>5 DEF HoldsLog, HoldsFiltered
  <1>8. LockMoves(p, logLock, logLock') /\ LockMoves(p, filteredLock, filteredLock')
    BY <1>6 DEF LockMoves
  <1>9. FilterOf(k) /\ LoneOf(k) /\ SealOf(k)
    BY <1>2, <1>3, <1>5 DEF FilterOf, LoneOf, SealOf, Same
  <1>10. k.alone = job[p].alone
    BY <1>1, <1>5 DEF Same
  <1> QED
    BY <1>3, <1>5, <1>6, <1>7, <1>8, <1>9, <1>10, StepRest

LEMMA UnlockFilteredKept ==
  ASSUME Inv, NEW p \in Procs, UnlockFiltered(p)
  PROVE  Inv'
  <1>1. PICK j : j = job[p]
    OBVIOUS
  <1>2. j.op = "export" /\ j.pc = "unlock filtered"
    BY <1>1 DEF UnlockFiltered, Exporting
  <1>3. j \in ExportJob /\ Exporting(p) /\ FilterOf(j) /\ LoneOf(j)
        /\ (HoldsLog(j) <=> logLock = p) /\ (HoldsFiltered(j) <=> filteredLock = p)
    BY <1>1, <1>2, ExporterHas
  <1>4. PICK k : k = [j EXCEPT !.pc = "close filtered"]
    OBVIOUS
  <1>5. k \in Job /\ k.op = "export" /\ k.pc = "close filtered" /\ Same(k, j)
    <2>1. "close filtered" \in ExportPc
      BY DEF ExportPc
    <2> QED
      BY <1>3, <1>4, <2>1 DEF ExportJob, Job, Same
  <1>6. /\ Moves(p, k) /\ filteredLock' = NoOne
        /\ UNCHANGED <<files, rows, stale, logLock>>
    BY <1>1, <1>4 DEF UnlockFiltered, Goto, Moves, counters
  <1>7. HoldsLog(k) /\ HoldsLog(j) /\ ~ HoldsFiltered(k) /\ HoldsFiltered(j)
    BY <1>2, <1>5 DEF HoldsLog, HoldsFiltered
  <1>8. /\ LockMoves(p, logLock, logLock') /\ LockMoves(p, filteredLock, filteredLock')
        /\ p # NoOne
    BY <1>3, <1>6, <1>7, ExportAssumption DEF LockMoves
  <1>9. FilterOf(k) /\ LoneOf(k) /\ SealOf(k)
    <2>1. PICK g : g = filtered \o j.buffer /\ g = filtered \o k.buffer
      BY <1>5 DEF Same
    <2>2. Covers(j, g) => Covers(k, g)
      BY <1>5 DEF Same, Covers
    <2> QED
      BY <1>2, <1>3, <1>5, <2>1, <2>2 DEF FilterOf, LoneOf, SealOf, Same
  <1>10. k.alone = job[p].alone
    BY <1>1, <1>5 DEF Same
  <1> QED
    BY <1>3, <1>5, <1>6, <1>7, <1>8, <1>9, <1>10, StepRest

LEMMA UnlockLogKept ==
  ASSUME Inv, NEW p \in Procs, UnlockLog(p)
  PROVE  Inv'
  <1>1. PICK j : j = job[p]
    OBVIOUS
  <1>2. j.op = "export" /\ j.pc = "unlock log"
    BY <1>1 DEF UnlockLog, Exporting
  <1>3. j \in ExportJob /\ Exporting(p) /\ FilterOf(j) /\ LoneOf(j)
        /\ (HoldsLog(j) <=> logLock = p) /\ (HoldsFiltered(j) <=> filteredLock = p)
    BY <1>1, <1>2, ExporterHas
  <1>4. PICK k : k = [j EXCEPT !.pc = "read"]
    OBVIOUS
  <1>5. k \in Job /\ k.op = "export" /\ k.pc = "read" /\ Same(k, j)
    <2>1. "read" \in ExportPc
      BY DEF ExportPc
    <2> QED
      BY <1>3, <1>4, <2>1 DEF ExportJob, Job, Same
  <1>6. /\ Moves(p, k) /\ logLock' = NoOne
        /\ UNCHANGED <<files, rows, stale, filteredLock>>
    BY <1>1, <1>4 DEF UnlockLog, Goto, Moves, counters
  <1>7. ~ HoldsLog(k) /\ HoldsLog(j) /\ ~ HoldsFiltered(k) /\ ~ HoldsFiltered(j)
    BY <1>2, <1>5 DEF HoldsLog, HoldsFiltered
  <1>8. /\ LockMoves(p, logLock, logLock') /\ LockMoves(p, filteredLock, filteredLock')
        /\ p # NoOne
    BY <1>3, <1>6, <1>7, ExportAssumption DEF LockMoves
  <1>9. FilterOf(k) /\ LoneOf(k) /\ SealOf(k)
    BY <1>2, <1>3, <1>5 DEF FilterOf, LoneOf, SealOf, Same, Covers
  <1>10. k.alone = job[p].alone
    BY <1>1, <1>5 DEF Same
  <1> QED
    BY <1>3, <1>5, <1>6, <1>7, <1>8, <1>9, <1>10, StepRest

LEMMA AnswerKept ==
  ASSUME Inv, NEW p \in Procs, Answer(p)
  PROVE  Inv'
  <1>1. PICK j : j = job[p]
    OBVIOUS
  <1>2. j.op = "export" /\ j.pc = "done"
    BY <1>1 DEF Answer, Exporting
  <1>3. (HoldsLog(j) <=> logLock = p) /\ (HoldsFiltered(j) <=> filteredLock = p)
    BY <1>1, <1>2, ExporterHas
  <1>4. Moves(p, Idle) /\ UNCHANGED <<files, rows, stale, logLock, filteredLock>>
    BY DEF Answer, Moves, locks, counters
  <1>5. logLock' # p /\ filteredLock' # p
    BY <1>2, <1>3, <1>4 DEF HoldsLog, HoldsFiltered
  <1>6. LockMoves(p, logLock, logLock') /\ LockMoves(p, filteredLock, filteredLock')
    BY <1>4 DEF LockMoves
  <1> QED
    BY <1>4, <1>5, <1>6, IdleKeeps, StepRest

\* The filtered file is read in two parts, in between which it may be another.
LEMMA ReadSomeKept ==
  ASSUME Inv, NEW p \in Procs, ReadSome(p)
  PROVE  Inv'
  <1>1. PICK j : j = job[p]
    OBVIOUS
  <1>2. j.op = "export" /\ j.pc = "read"
    BY <1>1 DEF ReadSome, Exporting
  <1>3. j \in ExportJob /\ Exporting(p) /\ FilterOf(j) /\ LoneOf(j)
        /\ (HoldsLog(j) <=> logLock = p)
    BY <1>1, <1>2, ExporterHas
  <1>4. PICK i \in 0..Len(filtered) :
           job' = [job EXCEPT ![p].pc = "read on", ![p].events = SubSeq(filtered, 1, i)]
    BY DEF ReadSome
  <1>5. PICK e \in Seq(Row) : e = SubSeq(filtered, 1, i) /\ IsPrefix(e, filtered)
    <2>1. PICK g \in Seq(Row) : g = filtered
      BY DEF Inv, TypeOK
    <2> QED
      BY <2>1, FirstPlaces
  <1>6. PICK k : k = [j EXCEPT !.pc = "read on", !.events = e]
    OBVIOUS
  <1>7. /\ k \in Job /\ k.op = "export" /\ k.pc = "read on" /\ k.events = e
        /\ k.alone = j.alone /\ k.before = j.before
    BY <1>3, <1>6 DEF ExportJob, ExportPc, Job
  <1>8. /\ Moves(p, k) /\ filteredLock = NoOne /\ filteredLock' = p
        /\ UNCHANGED <<files, rows, stale, logLock>>
    BY <1>1, <1>4, <1>5, <1>6 DEF ReadSome, Moves, counters
  <1>9. ~ HoldsLog(k) /\ ~ HoldsLog(j) /\ HoldsFiltered(k)
    BY <1>2, <1>7 DEF HoldsLog, HoldsFiltered
  <1>10. LockMoves(p, logLock, logLock') /\ LockMoves(p, filteredLock, filteredLock')
    BY <1>8 DEF LockMoves
  <1>11. IsPrefix(e, Ours(log))
    <2>1. PICK g, o \in Seq(Row) : g = filtered /\ o = Ours(log) /\ IsPrefix(g, o)
      BY OursType DEF Inv, TypeOK, FilterInv
    <2> QED
      BY <1>5, <2>1, PrefixTrans
  <1>12. FilterOf(k) /\ SealOf(k)
    BY <1>7, <1>11 DEF FilterOf, SealOf
  <1>13. LoneOf(k)
    <2>1. PICK g : g = filtered
      OBVIOUS
    <2>2. Covers(j, g) => Covers(k, g)
      BY <1>7 DEF Covers
    <2> QED
      BY <1>2, <1>3, <1>4, <1>5, <1>7, <2>1, <2>2 DEF LoneOf
  <1> QED
    BY <1>1, <1>3, <1>7, <1>8, <1>9, <1>10, <1>12, <1>13, StepRest

LEMMA ReadOnKept ==
  ASSUME Inv, NEW p \in Procs, ReadOn(p)
  PROVE  Inv'
  <1>1. PICK j : j = job[p]
    OBVIOUS
  <1>2. j.op = "export" /\ j.pc = "read on"
    BY <1>1 DEF ReadOn, Exporting
  <1>3. j \in ExportJob /\ Exporting(p) /\ FilterOf(j) /\ LoneOf(j)
        /\ (HoldsLog(j) <=> logLock = p) /\ (HoldsFiltered(j) <=> filteredLock = p)
    BY <1>1, <1>2, ExporterHas
  <1>4. PICK g, o \in Seq(Row) : g = filtered /\ o = Ours(log) /\ IsPrefix(g, o)
    BY OursType DEF Inv, TypeOK, FilterInv
  <1>5. PICK e : e = j.events \o SubSeq(g, Len(j.events) + 1, Len(g))
    OBVIOUS
  <1>6. /\ e \in Seq(Row) /\ IsPrefix(e, o)
        /\ (\E i \in 0..Len(g) : j.events = SubSeq(g, 1, i)) => e = g
    <2>1. PICK d : d = j.events
      OBVIOUS
    <2>2. d \in Seq(Row) /\ IsPrefix(d, o)
      BY <1>2, <1>3, <1>4, <2>1 DEF FilterOf, ExportJob
    <2>3. e = d \o SubSeq(g, Len(d) + 1, Len(g))
      BY <1>5, <2>1
    <2>4. e \in Seq(Row) /\ IsPrefix(e, o)
      BY <1>4, <2>2, <2>3, ReadInParts
    <2>5. ASSUME NEW i \in 0..Len(g), d = SubSeq(g, 1, i) PROVE e = g
      BY <2>3, <2>5, InTwoParts
    <2> QED
      BY <2>1, <2>4, <2>5
  <1>7. PICK k : k = [j EXCEPT !.pc = "open", !.events = e]
    OBVIOUS
  <1>8. /\ k \in Job /\ k.op = "export" /\ k.pc = "open" /\ k.events = e
        /\ k.alone = j.alone /\ k.before = j.before
    BY <1>3, <1>6, <1>7 DEF ExportJob, ExportPc, Job
  <1>9. /\ Moves(p, k) /\ filteredLock' = NoOne
        /\ UNCHANGED <<files, rows, stale, logLock>>
    BY <1>1, <1>4, <1>5, <1>7 DEF ReadOn, Moves, counters
  <1>10. ~ HoldsLog(k) /\ ~ HoldsLog(j) /\ ~ HoldsFiltered(k) /\ HoldsFiltered(j)
    BY <1>2, <1>8 DEF HoldsLog, HoldsFiltered
  <1>11. /\ LockMoves(p, logLock, logLock') /\ LockMoves(p, filteredLock, filteredLock')
         /\ p # NoOne
    BY <1>3, <1>9, <1>10, ExportAssumption DEF LockMoves
  <1>12. FilterOf(k) /\ SealOf(k)
    BY <1>4, <1>6, <1>8 DEF FilterOf, SealOf
  <1>13. LoneOf(k)
    <2>1. Covers(j, g) => Covers(k, g)
      BY <1>8 DEF Covers
    <2>2. k.alone => Covers(k, e)
      BY <1>2, <1>3, <1>4, <1>6, <1>8, <2>1 DEF LoneOf
    <2> QED
      BY <1>2, <1>3, <1>8, <2>2 DEF LoneOf
  <1> QED
    BY <1>1, <1>3, <1>8, <1>9, <1>10, <1>11, <1>12, <1>13, StepRest

LEMMA ReadBackKept ==
  ASSUME Inv, NEW p \in Procs, ReadBack(p)
  PROVE  Inv'
  <1>1. PICK j : j = job[p]
    OBVIOUS
  <1>2. j.op = "export" /\ j.pc = "read back"
    BY <1>1 DEF ReadBack, Exporting
  <1>3. j \in ExportJob /\ Exporting(p) /\ FilterOf(j) /\ LoneOf(j) /\ SealOf(j)
        /\ (HoldsLog(j) <=> logLock = p) /\ (HoldsFiltered(j) <=> filteredLock = p)
    BY <1>1, <1>2, ExporterHas
  <1>4. PICK c \in Content : c = data[j.fmt]
    BY <1>3 DEF Inv, TypeOK, ExportJob
  <1>5. PICK to \in {"digest", "done"} : to = IF j.sign THEN "digest" ELSE "done"
    OBVIOUS
  <1>6. PICK k : k = [j EXCEPT !.pc = to, !.digest = c]
    OBVIOUS
  <1>7. /\ k \in Job /\ k.op = "export" /\ k.pc = to /\ k.digest = c /\ k.events = j.events
        /\ k.alone = j.alone /\ k.before = j.before /\ k.fmt = j.fmt
    BY <1>3, <1>6 DEF ExportJob, ExportPc, Job
  <1>8. /\ Moves(p, k) /\ UNCHANGED <<files, rows, stale, logLock, filteredLock>>
    BY <1>1, <1>4, <1>5, <1>6 DEF ReadBack, Moves, counters, locks
  <1>9. ~ HoldsLog(k) /\ ~ HoldsLog(j) /\ ~ HoldsFiltered(k) /\ ~ HoldsFiltered(j)
    BY <1>2, <1>7 DEF HoldsLog, HoldsFiltered
  <1>10. LockMoves(p, logLock, logLock') /\ LockMoves(p, filteredLock, filteredLock')
    BY <1>8 DEF LockMoves
  <1>11. FilterOf(k)
    BY <1>2, <1>3, <1>7 DEF FilterOf
  <1>12. LoneOf(k)
    <2>1. PICK e : e = j.events
      OBVIOUS
    <2>2. Covers(j, e) => Covers(k, e)
      BY <1>7 DEF Covers
    <2> QED
      BY <1>2, <1>3, <1>7, <2>1, <2>2 DEF LoneOf
  <1>13. SealOf(k)
    BY <1>2, <1>3, <1>4, <1>7 DEF SealOf
  <1> QED
    BY <1>1, <1>3, <1>7, <1>8, <1>9, <1>10, <1>11, <1>12, <1>13, StepRest

-----------------------------------------------------------------------------
(* Steps on the filtered file *)

LEMMA HolderKeeps ==
  ASSUME Inv, NEW p \in Procs, NEW k \in Job, Moves(p, k),
         Exporting(p), k.op = "export", k.alone = job[p].alone,
         HoldsLog(job[p]), HoldsLog(k),
         UNCHANGED <<log, data, sha, sig, logLock, rows, stale>>,
         LockMoves(p, filteredLock, filteredLock'), HoldsFiltered(k) <=> filteredLock' = p,
         filtered' \in Seq(Row), IsPrefix(filtered', Ours(log)),
         FilterOf(k)', LoneOf(k)', SealOf(k)
  PROVE  Inv'
  <1>1. TypeOK'
    BY DEF Inv, TypeOK, Moves
  <1>2. LocksInv'
    <2>1. HoldsLog(k) <=> logLock' = p
      BY DEF Inv, LocksInv
    <2>2. LockMoves(p, logLock, logLock')
      BY DEF LockMoves
    <2> QED
      BY <2>1, <2>2, LocksMove DEF Inv
  <1>4. FilterInv'
    BY FilterOwn DEF Inv
  <1>5. LoneInv'
    BY LoneOwn DEF Inv
  <1>6. SealInv'
    BY SealRest DEF Inv
  <1> QED
    BY <1>1, <1>2, <1>4, <1>5, <1>6 DEF Inv

LEMMA OpenFilteredKept ==
  ASSUME Inv, NEW p \in Procs, OpenFiltered(p)
  PROVE  Inv'
  <1>1. PICK j : j = job[p]
    OBVIOUS
  <1>2. j.op = "export" /\ j.pc = "open filtered"
    BY <1>1 DEF OpenFiltered, Exporting
  <1>3. j \in ExportJob /\ Exporting(p) /\ FilterOf(j) /\ LoneOf(j)
        /\ (HoldsFiltered(j) <=> filteredLock = p)
    BY <1>1, <1>2, ExporterHas
  <1>4. PICK k : k = [j EXCEPT !.pc = "lock filtered"]
    OBVIOUS
  <1>5. k \in Job /\ k.op = "export" /\ k.pc = "lock filtered" /\ Same(k, j)
    <2>1. "lock filtered" \in ExportPc
      BY DEF ExportPc
    <2> QED
      BY <1>3, <1>4, <2>1 DEF ExportJob, Job, Same
  <1>6. /\ Moves(p, k) /\ filtered' = <<>>
        /\ UNCHANGED <<log, data, sha, sig, logLock, filteredLock, rows, stale>>
    BY <1>1, <1>4 DEF OpenFiltered, Goto, Moves, counters, locks
  <1>7. HoldsLog(k) /\ HoldsLog(j) /\ ~ HoldsFiltered(k) /\ ~ HoldsFiltered(j)
    BY <1>2, <1>5 DEF HoldsLog, HoldsFiltered
  <1>8. LockMoves(p, filteredLock, filteredLock')
    BY <1>6 DEF LockMoves
  <1>9. filtered' \in Seq(Row) /\ IsPrefix(filtered', Ours(log))
    <2>1. PICK o \in Seq(Row) : o = Ours(log)
      BY OursType DEF Inv, TypeOK
    <2>2. <<>> \in Seq(Row) /\ IsPrefix(<<>>, o)
      BY DEF IsPrefix
    <2> QED
      BY <1>6, <2>1, <2>2
  <1>10. FilterOf(k)' /\ LoneOf(k)' /\ SealOf(k)
    BY <1>2, <1>3, <1>5, <1>6 DEF FilterOf, LoneOf, SealOf, Same
  <1> QED
    BY <1>1, <1>3, <1>5, <1>6, <1>7, <1>8, <1>9, <1>10, HolderKeeps DEF Same

\* All rows of the village are in the file or in the buffer of him who filters.
LEMMA FilterKept ==
  ASSUME Inv, NEW p \in Procs, Filter(p)
  PROVE  Inv'
  <1>1. PICK j : j = job[p]
    OBVIOUS
  <1>2. j.op = "export" /\ j.pc = "lock filtered"
    BY <1>1 DEF Filter, Exporting
  <1>3. j \in ExportJob /\ Exporting(p) /\ FilterOf(j) /\ LoneOf(j)
    BY <1>1, <1>2, ExporterHas
  <1>4. PICK o \in Seq(Row) : o = Ours(log)
    BY OursType DEF Inv, TypeOK
  <1>5. PICK i \in 0..Len(o) :
           /\ filtered' = filtered \o SubSeq(o, 1, i)
           /\ job' = [job EXCEPT ![p].pc = "unlock filtered",
                                 ![p].buffer = SubSeq(o, i + 1, Len(o))]
    BY <1>4 DEF Filter
  <1>6. PICK e, b : e = SubSeq(o, 1, i) /\ b = SubSeq(o, i + 1, Len(o))
    OBVIOUS
  <1>7. e \in Seq(Row) /\ b \in Seq(Row) /\ e \o b = o
    BY <1>6, InTwoParts
  <1>8. PICK k : k = [j EXCEPT !.pc = "unlock filtered", !.buffer = b]
    OBVIOUS
  <1>9. /\ k \in Job /\ k.op = "export" /\ k.pc = "unlock filtered" /\ k.buffer = b
        /\ k.alone = j.alone /\ k.before = j.before /\ k.events = j.events
    BY <1>3, <1>7, <1>8 DEF ExportJob, ExportPc, Job
  <1>10. /\ Moves(p, k) /\ filteredLock = NoOne /\ filteredLock' = p
         /\ UNCHANGED <<log, data, sha, sig, logLock, rows, stale>>
    BY <1>1, <1>5, <1>6, <1>8 DEF Filter, Moves, counters
  <1>11. filtered' = e
    <2>1. filtered = <<>>
      BY <1>2, <1>3 DEF FilterOf
    <2>2. <<>> \o e = e
      BY <1>7
    <2> QED
      BY <1>5, <1>6, <2>1, <2>2
  <1>12. HoldsLog(k) /\ HoldsLog(j) /\ HoldsFiltered(k)
    BY <1>2, <1>9 DEF HoldsLog, HoldsFiltered
  <1>13. LockMoves(p, filteredLock, filteredLock')
    BY <1>10 DEF LockMoves
  <1>14. IsPrefix(e, o) /\ IsPrefix(o, o)
    BY <1>6, FirstPlaces, PrefixOfItself
  <1>15. FilterOf(k)'
    <2>1. IsPrefix(k.events, o)
      BY <1>2, <1>3, <1>4, <1>9 DEF FilterOf
    <2> QED
      BY <1>4, <1>7, <1>9, <1>10, <1>11, <1>14, <2>1 DEF FilterOf
  <1>16. LoneOf(k)'
    <2>1. k.before \subseteq 1..Len(log)
      BY <1>2, <1>3, <1>9 DEF LoneOf
    <2>2. ASSUME NEW x \in k.before, log[x].ours
          PROVE  \E n \in 1..Len(o) : o[n] = log[x]
      <3>1. x \in OursAt(log)
        BY <2>1, <2>2 DEF OursAt
      <3> QED
        BY <1>4, <3>1, OursType DEF Inv, TypeOK
    <2>3. Covers(k, o)'
      BY <1>10, <2>2 DEF Covers
    <2>4. (filtered \o k.buffer)' = o
      BY <1>7, <1>9, <1>11
    <2> QED
      BY <1>9, <1>10, <2>1, <2>3, <2>4 DEF LoneOf, Covers
  <1>17. SealOf(k)
    BY <1>9 DEF SealOf
  <1> QED
    BY <1>1, <1>3, <1>4, <1>7, <1>9, <1>10, <1>11, <1>12, <1>13, <1>14, <1>15, <1>16, <1>17,
       HolderKeeps

LEMMA CloseFilteredKept ==
  ASSUME Inv, NEW p \in Procs, CloseFiltered(p)
  PROVE  Inv'
  <1>1. PICK j : j = job[p]
    OBVIOUS
  <1>2. j.op = "export" /\ j.pc = "close filtered"
    BY <1>1 DEF CloseFiltered, Exporting
  <1>3. j \in ExportJob /\ Exporting(p) /\ FilterOf(j) /\ LoneOf(j)
        /\ (HoldsFiltered(j) <=> filteredLock = p)
    BY <1>1, <1>2, ExporterHas
  <1>4. PICK b \in Seq(Row) : b = j.buffer
    BY <1>3 DEF ExportJob
  <1>5. PICK k : k = [j EXCEPT !.pc = "unlock log", !.buffer = <<>>]
    OBVIOUS
  <1>6. /\ k \in Job /\ k.op = "export" /\ k.pc = "unlock log"
        /\ k.alone = j.alone /\ k.before = j.before /\ k.events = j.events
    <2>0. <<>> \in Seq(Row)
      OBVIOUS
    <2>1. PICK n \in Seq(Row) : n = <<>>
      BY <2>0
    <2>2. k = [j EXCEPT !.pc = "unlock log", !.buffer = n]
      BY <1>5, <2>1
    <2> QED
      BY <1>3, <2>1, <2>2 DEF ExportJob, ExportPc, Job
  <1>7. /\ Moves(p, k) /\ filtered' = filtered \o b
        /\ UNCHANGED <<log, data, sha, sig, logLock, filteredLock, rows, stale>>
    BY <1>1, <1>4, <1>5 DEF CloseFiltered, Moves, counters, locks
  <1>8. HoldsLog(k) /\ HoldsLog(j) /\ ~ HoldsFiltered(k) /\ ~ HoldsFiltered(j)
    BY <1>2, <1>6 DEF HoldsLog, HoldsFiltered
  <1>9. LockMoves(p, filteredLock, filteredLock')
    BY <1>7 DEF LockMoves
  <1>10. filtered' \in Seq(Row) /\ IsPrefix(filtered', Ours(log))
    <2>1. PICK g \in Seq(Row) : g = filtered
      BY DEF Inv, TypeOK
    <2>2. g \o b \in Seq(Row)
      OBVIOUS
    <2>3. IsPrefix(g \o b, Ours(log))
      BY <1>2, <1>3, <1>4, <2>1 DEF FilterOf
    <2> QED
      BY <1>7, <2>1, <2>2, <2>3
  <1>11. FilterOf(k)' /\ SealOf(k)
    BY <1>2, <1>3, <1>6, <1>7 DEF FilterOf, SealOf
  <1>12. LoneOf(k)'
    <2>1. PICK g : g = filtered \o b
      OBVIOUS
    <2>2. k.before \subseteq 1..Len(log)
      BY <1>2, <1>3, <1>6 DEF LoneOf
    <2>3. Covers(j, g) => Covers(k, g)'
      BY <1>6, <1>7 DEF Covers
    <2>4. k.alone => Covers(j, g)
      BY <1>2, <1>3, <1>4, <1>6, <2>1 DEF LoneOf
    <2> QED
      BY <1>6, <1>7, <2>1, <2>2, <2>3, <2>4 DEF LoneOf, Covers
  <1> QED
    BY <1>1, <1>3, <1>6, <1>7, <1>8, <1>9, <1>10, <1>11, <1>12, HolderKeeps

-----------------------------------------------------------------------------
(* Steps on the exported files *)

HoldsNone(j) == ~ HoldsLog(j) /\ ~ HoldsFiltered(j)

LEMMA FilesKeep ==
  ASSUME Inv, NEW p \in Procs, NEW k \in Job, Moves(p, k),
         Exporting(p), k.op = "export", k.alone = job[p].alone,
         HoldsNone(job[p]), HoldsNone(k),
         UNCHANGED <<log, filtered, logLock, filteredLock, rows>>,
         data' \in [Formats -> Content], sha' \in [Formats -> Content],
         sig' \in [Formats -> Content],
         \A f \in Formats : data'[f].state = "whole" =>
            data'[f].events \in Seq(Row) /\ IsPrefix(data'[f].events, Ours(log)),
         FilterOf(k), LoneOf(k), SealOf(k)',
         stale \subseteq stale' \/ job[p].alone, SignatureIsOfTheFile'
  PROVE  Inv'
  <1>1. TypeOK'
    BY DEF Inv, TypeOK, Moves
  <1>2. LocksInv'
    <2>1. (HoldsLog(k) <=> logLock' = p) /\ (HoldsFiltered(k) <=> filteredLock' = p)
      BY DEF HoldsNone, Inv, LocksInv
    <2>2. LockMoves(p, logLock, logLock') /\ LockMoves(p, filteredLock, filteredLock')
      BY DEF LockMoves
    <2> QED
      BY <2>1, <2>2, LocksMove DEF Inv
  <1>4. LogGrows
    BY DEF LogGrows
  <1>5. FilterInv'
    BY <1>4, FilterRest DEF Inv
  <1>6. LoneInv'
    BY <1>4, LoneRest DEF Inv
  <1>7. SealInv'
    BY SealOwn DEF Inv
  <1> QED
    BY <1>1, <1>2, <1>5, <1>6, <1>7 DEF Inv

LEMMA ContentHas ==
  /\ Absent \in Content /\ Empty \in Content /\ Mixed \in Content
  /\ \A e \in Seq(Row) : Whole(e) \in Content /\ Whole(e).events = e
  /\ Empty.state # "whole" /\ Mixed.state # "whole"
  BY DEF Content, Absent, Empty, Mixed, Whole

LEMMA OpenDataKept ==
  ASSUME Inv, NEW p \in Procs, OpenData(p)
  PROVE  Inv'
  <1>1. PICK j : j = job[p]
    OBVIOUS
  <1>2. j.op = "export" /\ j.pc = "open"
    BY <1>1 DEF OpenData, Exporting
  <1>3. j \in ExportJob /\ Exporting(p) /\ FilterOf(j) /\ LoneOf(j)
    BY <1>1, <1>2, ExporterHas
  <1>4. PICK f \in Formats : f = j.fmt
    BY <1>3 DEF ExportJob
  <1>5. PICK k : k = [j EXCEPT !.pc = "fill"]
    OBVIOUS
  <1>6. k \in Job /\ k.op = "export" /\ k.pc = "fill" /\ Same(k, j)
    <2>1. "fill" \in ExportPc
      BY DEF ExportPc
    <2> QED
      BY <1>3, <1>5, <2>1 DEF ExportJob, Job, Same
  <1>7. /\ Moves(p, k) /\ data' = [data EXCEPT ![f] = Empty] /\ stale' = stale \cup {f}
        /\ UNCHANGED <<log, filtered, sha, sig, logLock, filteredLock, rows>>
    BY <1>1, <1>4, <1>5 DEF OpenData, Goto, Moves, counters, locks
  <1>8. HoldsNone(j) /\ HoldsNone(k)
    BY <1>2, <1>6 DEF HoldsNone, HoldsLog, HoldsFiltered
  <1>9. /\ data' \in [Formats -> Content] /\ sha' \in [Formats -> Content]
        /\ sig' \in [Formats -> Content]
        /\ \A g \in Formats : data'[g] = IF g = f THEN Empty ELSE data[g]
    BY <1>7, ContentHas DEF Inv, TypeOK
  <1>10. \A g \in Formats : data'[g].state = "whole" =>
            data'[g].events \in Seq(Row) /\ IsPrefix(data'[g].events, Ours(log))
    BY <1>9, DataOfLog, ContentHas DEF Inv
  <1>11. FilterOf(k)
    BY <1>2, <1>3, <1>6 DEF FilterOf, Same
  <1>12. LoneOf(k)
    BY <1>2, <1>3, <1>6 DEF LoneOf, Covers, Same
  <1>13. SealOf(k)'
    BY <1>4, <1>6, <1>7, <1>9 DEF SealOf, Same
  <1>14. SignatureIsOfTheFile'
    BY <1>7, <1>9 DEF Inv, SealInv, SignatureIsOfTheFile
  <1> QED
    BY <1>1, <1>3, <1>6, <1>7, <1>8, <1>9, <1>10, <1>11, <1>12, <1>13, <1>14, FilesKeep DEF Same

\* A file that was emptied has what is written; another may get mixed up.
LEMMA FillDataKept ==
  ASSUME Inv, NEW p \in Procs, FillData(p)
  PROVE  Inv'
  <1>1. PICK j : j = job[p]
    OBVIOUS
  <1>2. j.op = "export" /\ j.pc = "fill"
    BY <1>1 DEF FillData, Exporting
  <1>3. j \in ExportJob /\ Exporting(p) /\ FilterOf(j) /\ LoneOf(j) /\ SealOf(j)
    BY <1>1, <1>2, ExporterHas
  <1>4. PICK f \in Formats : f = j.fmt
    BY <1>3 DEF ExportJob
  <1>5. PICK e \in Seq(Row) : e = j.events
    BY <1>3 DEF ExportJob
  <1>6. PICK w \in Content : w = Whole(e) /\ w.events = e
    BY ContentHas
  <1>7. PICK c : c \in Over(data[f], e) /\ data' = [data EXCEPT ![f] = c]
    BY <1>1, <1>4, <1>5 DEF FillData
  <1>8. c = Mixed \/ c = w
    <2>1. PICK old : old = data[f]
      OBVIOUS
    <2>2. Over(old, e) \subseteq {Mixed, w}
      BY <1>6 DEF Over
    <2> QED
      BY <1>7, <2>1, <2>2
  <1>9. data[f] = Empty => c = w
    BY <1>6, <1>7 DEF Over, Empty
  <1>10. PICK to \in {"digest", "done", "read back"}, d \in Content :
            /\ f = "json" => to \in {"digest", "done"} /\ d = w
            /\ f # "json" => to = "read back" /\ d = j.digest
            /\ job' = [job EXCEPT ![p].pc = to, ![p].digest = d]
    <2>1. CASE f = "json"
      <3>1. job' = [job EXCEPT ![p].pc = IF j.sign THEN "digest" ELSE "done", ![p].digest = w]
        BY <1>1, <1>4, <1>5, <1>6, <2>1 DEF FillData
      <3> QED
        BY <2>1, <3>1
    <2>2. CASE f # "json"
      <3>1. job' = [job EXCEPT ![p] = [job[p] EXCEPT !.pc = "read back"]]
        BY <1>1, <1>4, <2>2 DEF FillData, Goto
      <3>2. [j EXCEPT !.pc = "read back"] = [j EXCEPT !.pc = "read back", !.digest = j.digest]
        BY <1>3 DEF ExportJob
      <3>3. j.digest \in Content
        BY <1>3 DEF ExportJob
      <3>4. job' = [job EXCEPT ![p].pc = "read back", ![p].digest = j.digest]
        <4>1. [job EXCEPT ![p].pc = "read back", ![p].digest = j.digest]
                = [job EXCEPT ![p] = [j EXCEPT !.pc = "read back", !.digest = j.digest]]
          BY <1>1
        <4> QED
          BY <1>1, <3>1, <3>2, <4>1
      <3> QED
        BY <2>2, <3>3, <3>4
    <2> QED
      BY <2>1, <2>2
  <1>11. PICK k : k = [j EXCEPT !.pc = to, !.digest = d]
    OBVIOUS
  <1>12. /\ k \in Job /\ k.op = "export" /\ k.pc = to /\ k.digest = d /\ k.fmt = f
         /\ k.alone = j.alone /\ k.before = j.before /\ k.events = e
    BY <1>3, <1>4, <1>5, <1>11 DEF ExportJob, ExportPc, Job
  <1>13. /\ Moves(p, k)
         /\ UNCHANGED <<log, filtered, sha, sig, logLock, filteredLock, rows, stale>>
    BY <1>1, <1>10, <1>11 DEF FillData, Moves, counters, locks
  <1>14. HoldsNone(j) /\ HoldsNone(k)
    BY <1>2, <1>12 DEF HoldsNone, HoldsLog, HoldsFiltered
  <1>15. /\ data' \in [Formats -> Content] /\ sha' \in [Formats -> Content]
         /\ sig' \in [Formats -> Content]
         /\ \A g \in Formats : data'[g] = IF g = f THEN c ELSE data[g]
    BY <1>7, <1>8, <1>13, ContentHas DEF Inv, TypeOK
  <1>16. IsPrefix(e, Ours(log))
    BY <1>2, <1>3, <1>5 DEF FilterOf
  <1>17. \A g \in Formats : data'[g].state = "whole" =>
            data'[g].events \in Seq(Row) /\ IsPrefix(data'[g].events, Ours(log))
    BY <1>6, <1>8, <1>15, <1>16, DataOfLog, ContentHas DEF Inv
  <1>18. FilterOf(k)
    BY <1>12, <1>16 DEF FilterOf
  <1>19. LoneOf(k)
    <2>1. Covers(j, e) => Covers(k, e)
      BY <1>12 DEF Covers
    <2> QED
      BY <1>2, <1>3, <1>5, <1>12, <2>1 DEF LoneOf
  <1>20. SealOf(k)'
    <2>1. f \in stale /\ (j.alone => data[f] = Empty)
      BY <1>2, <1>3, <1>4 DEF SealOf
    <2> QED
      BY <1>6, <1>9, <1>10, <1>12, <1>13, <1>15, <2>1 DEF SealOf
  <1>21. SignatureIsOfTheFile'
    <2>1. f \in stale
      BY <1>2, <1>3, <1>4 DEF SealOf
    <2> QED
      BY <1>13, <1>15, <2>1 DEF Inv, SealInv, SignatureIsOfTheFile
  <1> QED
    BY <1>1, <1>3, <1>12, <1>13, <1>14, <1>15, <1>17, <1>18, <1>19, <1>20, <1>21, FilesKeep

LEMMA WriteDigestKept ==
  ASSUME Inv, NEW p \in Procs, WriteDigest(p)
  PROVE  Inv'
  <1>1. PICK j : j = job[p]
    OBVIOUS
  <1>2. j.op = "export" /\ j.pc = "digest"
    BY <1>1 DEF WriteDigest, Exporting
  <1>3. j \in ExportJob /\ Exporting(p) /\ FilterOf(j) /\ LoneOf(j) /\ SealOf(j)
    BY <1>1, <1>2, ExporterHas
  <1>4. PICK f \in Formats : f = j.fmt
    BY <1>3 DEF ExportJob
  <1>5. PICK d \in Content : d = j.digest
    BY <1>3 DEF ExportJob
  <1>6. PICK k : k = [j EXCEPT !.pc = "sign"]
    OBVIOUS
  <1>7. k \in Job /\ k.op = "export" /\ k.pc = "sign" /\ Same(k, j)
    <2>1. "sign" \in ExportPc
      BY DEF ExportPc
    <2> QED
      BY <1>3, <1>6, <2>1 DEF ExportJob, Job, Same
  <1>8. /\ Moves(p, k) /\ sha' = [sha EXCEPT ![f] = d]
        /\ UNCHANGED <<log, filtered, data, sig, logLock, filteredLock, rows, stale>>
    BY <1>1, <1>4, <1>5, <1>6 DEF WriteDigest, Goto, Moves, counters, locks
  <1>9. HoldsNone(j) /\ HoldsNone(k)
    BY <1>2, <1>7 DEF HoldsNone, HoldsLog, HoldsFiltered
  <1>10. /\ data' \in [Formats -> Content] /\ sha' \in [Formats -> Content]
         /\ sig' \in [Formats -> Content]
         /\ \A g \in Formats : sha'[g] = IF g = f THEN d ELSE sha[g]
    BY <1>8 DEF Inv, TypeOK
  <1>11. \A g \in Formats : data'[g].state = "whole" =>
            data'[g].events \in Seq(Row) /\ IsPrefix(data'[g].events, Ours(log))
    BY <1>8, DataOfLog DEF Inv
  <1>12. FilterOf(k)
    BY <1>2, <1>3, <1>7 DEF FilterOf, Same
  <1>13. LoneOf(k)
    BY <1>2, <1>3, <1>7 DEF LoneOf, Covers, Same
  <1>14. SealOf(k)'
    BY <1>2, <1>3, <1>4, <1>5, <1>7, <1>8, <1>10 DEF SealOf, Same
  <1>15. SignatureIsOfTheFile'
    <2>1. f \in stale
      BY <1>2, <1>3, <1>4 DEF SealOf
    <2> QED
      BY <1>8, <1>10, <2>1 DEF Inv, SealInv, SignatureIsOfTheFile
  <1> QED
    BY <1>1, <1>3, <1>7, <1>8, <1>9, <1>10, <1>11, <1>12, <1>13, <1>14, <1>15, FilesKeep DEF Same

\* The signature makes the format fresh again, when it is of an export that is alone.
LEMMA WriteSignatureKept ==
  ASSUME Inv, NEW p \in Procs, WriteSignature(p)
  PROVE  Inv'
  <1>1. PICK j : j = job[p]
    OBVIOUS
  <1>2. j.op = "export" /\ j.pc = "sign"
    BY <1>1 DEF WriteSignature, Exporting
  <1>3. j \in ExportJob /\ Exporting(p) /\ FilterOf(j) /\ LoneOf(j) /\ SealOf(j)
    BY <1>1, <1>2, ExporterHas
  <1>4. PICK f \in Formats : f = j.fmt
    BY <1>3 DEF ExportJob
  <1>5. PICK d \in Content : d = j.digest
    BY <1>3 DEF ExportJob
  <1>6. PICK k : k = [j EXCEPT !.pc = "done"]
    OBVIOUS
  <1>7. k \in Job /\ k.op = "export" /\ k.pc = "done" /\ Same(k, j)
    <2>1. "done" \in ExportPc
      BY DEF ExportPc
    <2> QED
      BY <1>3, <1>6, <2>1 DEF ExportJob, Job, Same
  <1>8. /\ Moves(p, k) /\ sig' = [sig EXCEPT ![f] = d]
        /\ stale' = (IF j.alone THEN stale \ {f} ELSE stale)
        /\ UNCHANGED <<log, filtered, data, sha, logLock, filteredLock, rows>>
    BY <1>1, <1>4, <1>5, <1>6 DEF WriteSignature, Goto, Moves, counters, locks
  <1>9. HoldsNone(j) /\ HoldsNone(k)
    BY <1>2, <1>7 DEF HoldsNone, HoldsLog, HoldsFiltered
  <1>10. /\ data' \in [Formats -> Content] /\ sha' \in [Formats -> Content]
         /\ sig' \in [Formats -> Content]
         /\ \A g \in Formats : sig'[g] = IF g = f THEN d ELSE sig[g]
    BY <1>8 DEF Inv, TypeOK
  <1>11. \A g \in Formats : data'[g].state = "whole" =>
            data'[g].events \in Seq(Row) /\ IsPrefix(data'[g].events, Ours(log))
    BY <1>8, DataOfLog DEF Inv
  <1>12. FilterOf(k)
    BY <1>2, <1>3, <1>7 DEF FilterOf, Same
  <1>13. LoneOf(k)
    BY <1>2, <1>3, <1>7 DEF LoneOf, Covers, Same
  <1>14. SealOf(k)'
    BY <1>2, <1>3, <1>7, <1>8 DEF SealOf, Same
  <1>15. SignatureIsOfTheFile'
    <2>1. f \in stale
      BY <1>2, <1>3, <1>4 DEF SealOf
    <2>2. j.alone => data[f] = sha[f] /\ sha[f] = d
      BY <1>2, <1>3, <1>4, <1>5 DEF SealOf
    <2>3. \A g \in Formats \ stale : data[g] = sha[g] /\ sha[g] = sig[g]
      BY DEF Inv, SealInv, SignatureIsOfTheFile
    <2> QED
      BY <1>8, <1>10, <2>1, <2>2, <2>3 DEF SignatureIsOfTheFile
  <1>16. stale \subseteq stale' \/ job[p].alone
    BY <1>1, <1>8
  <1> QED
    BY <1>1, <1>3, <1>7, <1>8, <1>9, <1>10, <1>11, <1>12, <1>13, <1>14, <1>15, <1>16,
       FilesKeep DEF Same

-----------------------------------------------------------------------------
(* An export begins: nobody is alone any more, or only who begins *)

LEMMA NotAlone ==
  ASSUME NEW j \in ExportJob, NEW k, k = [j EXCEPT !.alone = FALSE]
  PROVE  /\ k \in Job /\ k.op = "export" /\ ~ k.alone
         /\ (HoldsLog(k) <=> HoldsLog(j)) /\ (HoldsFiltered(k) <=> HoldsFiltered(j))
         /\ FilterOf(j) => FilterOf(k)
         /\ LoneOf(j) => LoneOf(k)
         /\ SealOf(j) => SealOf(k)
  <1>1. /\ k \in Job /\ k.op = "export" /\ k.alone = FALSE /\ k.pc = j.pc /\ k.fmt = j.fmt
        /\ k.before = j.before /\ k.buffer = j.buffer /\ k.events = j.events
        /\ k.digest = j.digest /\ j.op = "export"
    BY DEF ExportJob, Job
  <1>2. (HoldsLog(k) <=> HoldsLog(j)) /\ (HoldsFiltered(k) <=> HoldsFiltered(j))
    BY <1>1 DEF HoldsLog, HoldsFiltered
  <1>3. FilterOf(j) => FilterOf(k)
    BY <1>1 DEF FilterOf
  <1>4. LoneOf(j) => LoneOf(k)
    BY <1>1 DEF LoneOf
  <1>5. SealOf(j) => SealOf(k)
    BY <1>1 DEF SealOf
  <1> QED
    BY <1>1, <1>2, <1>3, <1>4, <1>5

LEMMA BeginExportKept ==
  ASSUME Inv, NEW p \in Procs, NEW fmt \in Formats, NEW sign \in BOOLEAN,
         BeginExport(p, fmt, sign)
  PROVE  Inv'
  <1>1. PICK alone \in BOOLEAN : alone = \A q \in Procs : ~ Exporting(q)
    OBVIOUS
  <1>2. PICK m : m = [op |-> "export", pc |-> "lock log", fmt |-> fmt, sign |-> sign,
                      alone |-> alone, before |-> DOMAIN log, buffer |-> <<>>,
                      events |-> <<>>, digest |-> Absent]
    OBVIOUS
  <1>3. /\ m \in Job /\ m.op = "export" /\ m.pc = "lock log" /\ m.alone = alone
        /\ m.before = DOMAIN log /\ m.events = <<>>
    <2>1. DOMAIN log \in SUBSET Nat
      BY DEF Inv, TypeOK
    <2>2. <<>> \in Seq(Row)
      OBVIOUS
    <2>3. "lock log" \in ExportPc
      BY DEF ExportPc
    <2> QED
      BY <1>2, <2>1, <2>2, <2>3, ContentHas DEF Job, ExportJob
  <1>4. /\ \A q \in Procs : job'[q] = IF q = p THEN m
                                      ELSE IF Exporting(q) THEN [job[q] EXCEPT !.alone = FALSE]
                                      ELSE job[q]
        /\ job' = [q \in Procs |-> job'[q]]
        /\ UNCHANGED <<log, filtered, data, sha, sig, logLock, filteredLock, rows, stale>>
        /\ job[p] = Idle
    <2>1. job' = [q \in Procs |-> IF q = p THEN m
                                  ELSE IF Exporting(q) THEN [job[q] EXCEPT !.alone = FALSE]
                                  ELSE job[q]]
      BY <1>1, <1>2 DEF BeginExport
    <2>2. job' = [q \in Procs |-> job'[q]]
      BY <2>1
    <2> QED
      BY <2>1, <2>2 DEF BeginExport, files, locks
  <1>5. FilterOf(m) /\ LoneOf(m) /\ SealOf(m) /\ ~ HoldsLog(m) /\ ~ HoldsFiltered(m)
    <2>1. IsPrefix(<<>>, Ours(log))
      <3>1. PICK o \in Seq(Row) : o = Ours(log)
        BY OursType DEF Inv, TypeOK
      <3>2. IsPrefix(<<>>, o)
        BY DEF IsPrefix
      <3> QED
        BY <3>1, <3>2
    <2>2. DOMAIN log \subseteq 1..Len(log)
      BY DEF Inv, TypeOK
    <2> QED
      BY <1>3, <2>1, <2>2 DEF FilterOf, LoneOf, SealOf, HoldsLog, HoldsFiltered
  <1>6. ASSUME NEW q \in Procs
        PROVE  /\ job'[q] \in Job
               /\ (HoldsLog(job'[q]) <=> HoldsLog(job[q]))
               /\ (HoldsFiltered(job'[q]) <=> HoldsFiltered(job[q]))
               /\ FilterOf(job'[q]) /\ LoneOf(job'[q]) /\ SealOf(job'[q])
               /\ q # p /\ job'[q].op = "export" => ~ job'[q].alone /\ Exporting(q)
               /\ job'[q].op = "write" => job'[q] = job[q]
    <2>1. PICK j, k : j = job[q] /\ k = job'[q]
      OBVIOUS
    <2>2. j \in Job /\ FilterOf(j) /\ LoneOf(j) /\ SealOf(j)
      BY <2>1 DEF Inv, TypeOK, FilterInv, LoneInv, SealInv
    <2>3. CASE q = p
      <3>1. k = m /\ j = Idle
        BY <1>4, <2>1, <2>3
      <3> QED
        BY <1>3, <1>5, <2>1, <2>3, <3>1, IdleKeeps
    <2>4. CASE q # p /\ ~ Exporting(q)
      <3>1. k = j /\ j.op # "export"
        BY <1>4, <2>1, <2>4 DEF Exporting
      <3> QED
        BY <2>1, <2>2, <2>4, <3>1
    <2>5. CASE q # p /\ Exporting(q)
      <3>1. j \in ExportJob
        BY <2>1, <2>2, <2>5, JobFields DEF Exporting
      <3>2. k = [j EXCEPT !.alone = FALSE]
        BY <1>4, <2>1, <2>5
      <3> QED
        BY <2>1, <2>2, <2>5, <3>1, <3>2, NotAlone
    <2> QED
      BY <2>3, <2>4, <2>5
  <1>7. TypeOK'
    <2>1. job' \in [Procs -> Job]
      BY <1>4, <1>6
    <2> QED
      BY <1>4, <2>1 DEF Inv, TypeOK
  <1>8. LocksInv'
    BY <1>4, <1>6 DEF Inv, LocksInv
  <1>10. FilterInv'
    <2>1. ASSUME NEW q \in Procs PROVE FilterOf(job[q])'
      BY <1>4, <1>6 DEF FilterOf
    <2> QED
      BY <1>4, <2>1 DEF Inv, FilterInv
  <1>11. LoneInv'
    <2>1. ASSUME NEW q \in Procs PROVE LoneOf(job[q])'
      <3>1. PICK k : k = job'[q]
        OBVIOUS
      <3>2. LoneOf(k) /\ LogGrows
        BY <1>4, <1>6, <3>1 DEF LogGrows
      <3>3. LoneOf(k)'
        BY <1>4, <3>2, LoneStays DEF Inv
      <3> QED
        BY <3>1, <3>3 DEF LoneOf, Covers
    <2>2. ASSUME NEW q \in Procs, NEW r \in Procs,
                 Exporting(q)', Exporting(r)', job'[q].alone
          PROVE  q = r
      <3>1. q = p
        BY <1>6, <2>2 DEF Exporting
      <3>2. alone
        BY <1>3, <1>4, <2>2, <3>1
      <3>3. r # p => Exporting(r)
        BY <1>6, <2>2 DEF Exporting
      <3> QED
        BY <1>1, <3>1, <3>2, <3>3
    <2> QED
      BY <2>1, <2>2 DEF LoneInv
  <1>12. SealInv'
    <2>1. ASSUME NEW q \in Procs PROVE SealOf(job[q])'
      BY <1>4, <1>6 DEF SealOf
    <2> QED
      BY <1>4, <2>1 DEF Inv, SealInv, SignatureIsOfTheFile
  <1> QED
    BY <1>7, <1>8, <1>10, <1>11, <1>12 DEF Inv

-----------------------------------------------------------------------------
(* Steps of those who write *)

LEMMA WriterKeeps ==
  ASSUME Inv, NEW p \in Procs, NEW k \in Job, Moves(p, k), LogGrows,
         k.op # "export", rows' \in Nat, UNCHANGED <<filtered, data, sha, sig, stale>>,
         LockMoves(p, logLock, logLock'), HoldsLog(k) <=> logLock' = p,
         LockMoves(p, filteredLock, filteredLock'), filteredLock' # p
  PROVE  Inv'
  <1>1. TypeOK'
    BY GrowsMeans DEF Inv, TypeOK, Moves
  <1>2. ~ HoldsFiltered(k) /\ FilterOf(k) /\ LoneOf(k) /\ SealOf(k)
    BY DEF HoldsFiltered, FilterOf, LoneOf, SealOf
  <1>3. LocksInv'
    BY <1>2, LocksMove DEF Inv
  <1>4. FilterInv'
    <2>1. \A f \in Formats : data'[f].state = "whole" =>
            data'[f].events \in Seq(Row) /\ IsPrefix(data'[f].events, Ours(log))
      BY DataOfLog DEF Inv
    <2> QED
      BY <1>2, <2>1, FilterRest DEF Inv
  <1>5. LoneInv'
    BY <1>2, LoneRest DEF Inv
  <1>6. SealInv'
    BY <1>2, SealRest DEF Inv
  <1> QED
    BY <1>1, <1>3, <1>4, <1>5, <1>6 DEF Inv

LEMMA BeginWriteKept ==
  ASSUME Inv, NEW p \in Procs, NEW ours \in BOOLEAN, NEW long \in BOOLEAN, BeginWrite(p, ours, long)
  PROVE  Inv'
  <1>1. PICK row \in Row : row = [n |-> rows + 1, ours |-> ours]
    <2>1. rows + 1 \in Nat
      BY DEF Inv, TypeOK
    <2>2. [n |-> rows + 1, ours |-> ours] \in Row
      BY <2>1 DEF Row
    <2> QED
      BY <2>2, Zenon
  <1>2. PICK k \in WriteJob : k = [op |-> "write", pc |-> "lock", row |-> row, long |-> long]
    BY DEF WriteJob
  <1>3. /\ Moves(p, k) /\ job[p] = Idle /\ rows' = rows + 1
        /\ UNCHANGED <<log, filtered, data, sha, sig, logLock, filteredLock, stale>>
    BY <1>1, <1>2 DEF BeginWrite, Moves, files, locks
  <1>4. k \in Job /\ k.op # "export" /\ ~ HoldsLog(k) /\ LogGrows
    BY <1>2, <1>3, WriteKeeps DEF LogGrows
  <1>5. /\ logLock' # p /\ filteredLock' # p /\ rows' \in Nat
        /\ LockMoves(p, logLock, logLock') /\ LockMoves(p, filteredLock, filteredLock')
    BY <1>3, IdleKeeps DEF Inv, TypeOK, LocksInv, LockMoves
  <1> QED
    BY <1>3, <1>4, <1>5, WriterKeeps

LEMMA LockToWriteKept ==
  ASSUME Inv, NEW p \in Procs, LockToWrite(p)
  PROVE  Inv'
  <1>1. PICK j \in WriteJob : j = job[p] /\ j.pc = "lock"
    BY JobFields DEF Inv, TypeOK, LockToWrite, Writing
  <1>2. PICK k : k = [j EXCEPT !.pc = "unlock"]
    OBVIOUS
  <1>3. k \in WriteJob /\ k.pc = "unlock"
    BY <1>2 DEF WriteJob
  <1>4. /\ Moves(p, k) /\ logLock = NoOne /\ logLock' = p
        /\ log' = (IF j.long THEN Append(log, j.row) ELSE log)
        /\ UNCHANGED <<filtered, data, sha, sig, filteredLock, rows, stale>>
    BY <1>1, <1>2 DEF LockToWrite, Goto, Moves, counters
  <1>5. j.row \in Row /\ LogGrows
    BY <1>4 DEF WriteJob, LogGrows
  <1>6. k \in Job /\ k.op # "export" /\ HoldsLog(k) /\ ~ HoldsFiltered(j)
    BY <1>1, <1>3, WriteKeeps
  <1>7. /\ filteredLock' # p /\ rows' \in Nat
        /\ LockMoves(p, logLock, logLock') /\ LockMoves(p, filteredLock, filteredLock')
    BY <1>1, <1>4, <1>6 DEF Inv, TypeOK, LocksInv, LockMoves
  <1> QED
    BY <1>4, <1>5, <1>6, <1>7, WriterKeeps

LEMMA CloseWrittenKept ==
  ASSUME Inv, NEW p \in Procs, CloseWritten(p)
  PROVE  Inv'
  <1>1. PICK j \in WriteJob : j = job[p] /\ j.pc = "close"
    BY JobFields DEF Inv, TypeOK, CloseWritten, Writing
  <1>2. /\ Moves(p, Idle) /\ log' = (IF j.long THEN log ELSE Append(log, j.row))
        /\ UNCHANGED <<filtered, data, sha, sig, logLock, filteredLock, rows, stale>>
    BY <1>1 DEF CloseWritten, Moves, counters, locks
  <1>3. j.row \in Row /\ LogGrows
    BY <1>2 DEF WriteJob, LogGrows
  <1>4. ~ HoldsLog(j) /\ ~ HoldsFiltered(j)
    BY <1>1, WriteKeeps
  <1>5. /\ filteredLock' # p /\ logLock' # p /\ rows' \in Nat
        /\ LockMoves(p, logLock, logLock') /\ LockMoves(p, filteredLock, filteredLock')
    BY <1>1, <1>2, <1>4 DEF Inv, TypeOK, LocksInv, LockMoves
  <1> QED
    BY <1>2, <1>3, <1>5, IdleKeeps, WriterKeeps

-----------------------------------------------------------------------------
(* The theorems *)

LEMMA StepKept ==
  ASSUME Inv, [Next]_vars
  PROVE  Inv'
  <1>1. CASE UNCHANGED vars
    <2>1. UNCHANGED <<log, filtered, data, sha, sig, logLock, filteredLock, job, rows, stale>>
      BY <1>1 DEF vars, files, locks, counters
    <2>2. TypeOK'
      BY <2>1 DEF Inv, TypeOK
    <2>3. LocksInv'
      BY <2>1 DEF Inv, LocksInv
    <2>5. FilterInv'
      BY <2>1 DEF Inv, FilterInv, FilterOf
    <2>6. LoneInv'
      BY <2>1, ZenonT(40) DEF Inv, LoneInv, LoneOf, Covers, Exporting
    <2>7. SealInv'
      BY <2>1 DEF Inv, SealInv, SealOf, SignatureIsOfTheFile
    <2> QED
      BY <2>2, <2>3, <2>5, <2>6, <2>7 DEF Inv
  <1>2. ASSUME NEW p \in Procs, Write(p) PROVE Inv'
    BY <1>2, BeginWriteKept, LockToWriteKept, UnlockWrittenKept, CloseWrittenKept DEF Write
  <1>3. ASSUME NEW p \in Procs, Export(p) PROVE Inv'
    <2>1. CASE \E fmt \in Formats, sign \in BOOLEAN : BeginExport(p, fmt, sign)
      BY <2>1, BeginExportKept
    <2>2. CASE LockLog(p) \/ OpenFiltered(p) \/ Filter(p) \/ UnlockFiltered(p) \/ CloseFiltered(p)
      BY <2>2, LockLogKept, OpenFilteredKept, FilterKept, UnlockFilteredKept, CloseFilteredKept
    <2>3. CASE UnlockLog(p) \/ ReadSome(p) \/ ReadOn(p) \/ OpenData(p) \/ FillData(p) \/ ReadBack(p)
      BY <2>3, UnlockLogKept, ReadSomeKept, ReadOnKept, OpenDataKept, FillDataKept, ReadBackKept
    <2>4. CASE WriteDigest(p) \/ WriteSignature(p) \/ Answer(p)
      BY <2>4, WriteDigestKept, WriteSignatureKept, AnswerKept
    <2> QED
      BY <1>3, <2>1, <2>2, <2>3, <2>4 DEF Export
  <1>4. ASSUME NEW p \in Procs, Die(p) PROVE Inv'
    BY <1>4, DieKept
  <1> QED
    BY <1>1, <1>2, <1>3, <1>4 DEF Next

LEMMA InitInv ==
  ASSUME Init
  PROVE  Inv
  <1>1. /\ log = <<>> /\ filtered = <<>> /\ rows = 0 /\ logLock = NoOne /\ filteredLock = NoOne
        /\ job = [p \in Procs |-> Idle]
        /\ data = [f \in Formats |-> Absent] /\ sha = [f \in Formats |-> Absent]
        /\ sig = [f \in Formats |-> Absent]
    BY DEF Init
  <1>2. log \in Seq(Row) /\ filtered \in Seq(Row) /\ Len(log) = 0
    BY <1>1
  <1>3. TypeOK
    <2>1. job \in [Procs -> Job]
      BY <1>1, IdleKeeps
    <2>2. /\ data \in [Formats -> Content] /\ sha \in [Formats -> Content]
          /\ sig \in [Formats -> Content]
      BY <1>1, ContentHas
    <2> QED
      BY <1>1, <1>2, <2>1, <2>2 DEF TypeOK
  <1>4. \A p \in Procs : job[p] = Idle /\ ~ Writing(p) /\ ~ Exporting(p)
    BY <1>1, IdleKeeps DEF Writing, Exporting
  <1>5. LocksInv
    BY <1>1, <1>4, IdleKeeps, ExportAssumption DEF LocksInv
  <1>7. FilterInv
    <2>1. IsPrefix(filtered, Ours(log))
      <3>1. PICK o \in Seq(Row) : o = Ours(log)
        BY <1>2, OursType
      <3>2. IsPrefix(<<>>, o)
        BY DEF IsPrefix
      <3> QED
        BY <1>1, <3>1, <3>2
    <2>2. \A f \in Formats : data[f].state # "whole"
      BY <1>1 DEF Absent
    <2>3. \A p \in Procs : FilterOf(job[p])
      BY <1>4, IdleKeeps
    <2> QED
      BY <2>1, <2>2, <2>3 DEF FilterInv
  <1>8. LoneInv
    <2>1. \A p \in Procs : LoneOf(job[p])
      BY <1>4, IdleKeeps
    <2> QED
      BY <1>4, <2>1 DEF LoneInv
  <1>9. SealInv
    <2>1. \A p \in Procs : SealOf(job[p])
      BY <1>4, IdleKeeps
    <2> QED
      BY <1>1, <2>1 DEF SealInv, SignatureIsOfTheFile
  <1> QED
    BY <1>3, <1>5, <1>7, <1>8, <1>9 DEF Inv

LEMMA Invariance ==
  Spec => []Inv
  <1>1. Init => Inv
    BY InitInv
  <1>2. Inv /\ [Next]_vars => Inv'
    BY StepKept
  <1> QED
    BY <1>1, <1>2, PTL DEF Spec

\* Whatever exports and writers run together, and whoever dies, an export has the first
\* events of the village's in the log and, when it is alone, all it began with.
THEOREM ExportsAreFaithful ==
  Spec => []ExportFaithful
  <1>1. Inv => ExportFaithful
    <2>1. Inv => ExportIsPrefix
      BY DEF Inv, FilterInv, FilterOf, ExportIsPrefix, Exporting
    <2>2. Inv => LoneExportIsComplete
      BY DEF Inv, LoneInv, LoneOf, Covers, LoneExportIsComplete, Exporting
    <2> QED
      BY <2>1, <2>2 DEF ExportFaithful
  <1> QED
    BY <1>1, Invariance, PTL

\* The digest in an answer is that of the events it counts, and where the last export of
\* a format was signed and alone, the file, its digest and its signature belong together.
THEOREM SealsMatch ==
  Spec => []SealMatches
  <1>1. Inv => SealMatches
    BY DEF Inv, SealInv, SealOf, SealMatches, AnswerIsOfOneExport, Exporting
  <1> QED
    BY <1>1, Invariance, PTL

\* Whoever waits for a lock waits for somebody who has it, and he who has the filtered
\* file's waits for nobody: they are never all waiting.
THEOREM NobodyWaitsForever ==
  Spec => []SomebodyGoesOn
  <1>1. ASSUME Inv PROVE SomebodyGoesOn
    <2>1. SUFFICES ASSUME NEW p \in Procs, job[p] # Idle,
                          \A q \in Procs : job[q] # Idle =>
                             \/ job[q].pc \in {"lock", "lock log"} /\ logLock # NoOne
                             \/ job[q].pc \in {"lock filtered", "read"} /\ filteredLock # NoOne
                   PROVE  FALSE
      BY DEF SomebodyGoesOn
    <2>2. filteredLock = NoOne
      <3>1. SUFFICES ASSUME filteredLock # NoOne PROVE FALSE
        OBVIOUS
      <3>2. PICK h \in Procs : h = filteredLock /\ HoldsFiltered(job[h])
        BY <1>1, <3>1 DEF Inv, LocksInv
      <3>3. job[h] # Idle /\ job[h].pc \in {"unlock filtered", "read on"}
        BY <3>2, IdleKeeps DEF HoldsFiltered
      <3> QED
        BY <2>1, <3>3
    <2>3. logLock # NoOne
      BY <2>1, <2>2
    <2>4. PICK h \in Procs : h = logLock /\ HoldsLog(job[h])
      BY <1>1, <2>3 DEF Inv, LocksInv
    <2>5. job[h] # Idle /\ job[h].pc \notin {"lock", "lock log", "read"}
      BY <2>4, IdleKeeps DEF HoldsLog
    <2> QED
      BY <2>1, <2>2, <2>5
  <1> QED
    BY <1>1, Invariance, PTL

=============================================================================
