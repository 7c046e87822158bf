------------------------- MODULE LevelTablesProofs -------------------------
(***************************************************************************)
(* A lookup in LevelDB's tables finds the last write of its key, for any   *)
(* number of keys, levels, writes and tables, and whatever flushes and     *)
(* compactions do to them.                                                 *)
(*                                                                         *)
(* The theorems are for a build whose outputs do not end between two       *)
(* versions of a key, or for a program that takes no snapshots: with both, *)
(* they are false.                                                         *)
(***************************************************************************)
EXTENDS LevelTables, FiniteSetTheorems, WellFoundedInduction, TLAPS

----------------------------------------------------------------------------
(* Numbers and finite sets: induction, the least and the greatest.         *)

\* Of finitely many elements, any family of sets has a smallest one.
LEMMA SmallestSet ==
  ASSUME NEW S, IsFiniteSet(S), NEW J, J \subseteq SUBSET S, J # {}
  PROVE  \E I \in J : \A K \in J : ~ (<<K, I>> \in StrictSubsetOrdering(S))
<1> DEFINE R == StrictSubsetOrdering(S)
<1>1. IsWellFoundedOn(R, SUBSET S)
  BY FS_StrictSubsetOrderingWellFounded, FS_FiniteSubsetsOfFinite
<1> HIDE DEF R
<1>2. \E I \in J : \A K \in J : ~ (<<K, I>> \in R)
  BY <1>1, WFMin
<1> QED
  BY <1>2 DEF R

\* A set of numbers that is not empty has a smallest one.
LEMMA LeastNat ==
  ASSUME NEW T \in SUBSET Nat, T # {}
  PROVE  \E n \in T : \A m \in T : n <= m
<1>1. PICK t \in T : TRUE
  OBVIOUS
<1> DEFINE S == 0 .. t
           J == {0 .. m - 1 : m \in {k \in T : k <= t}}
<1>2. J \subseteq SUBSET S /\ J # {}
  <2>1. \A m \in T : m <= t => 0 .. m - 1 \subseteq S
    OBVIOUS
  <2> QED
    BY <2>1
<1>3. IsFiniteSet(S)
  BY FS_Interval
<1>4. PICK I \in J : \A K \in J : ~ (<<K, I>> \in StrictSubsetOrdering(S))
  <2> HIDE DEF S, J
  <2> QED
    BY <1>2, <1>3, SmallestSet
<1>5. PICK n \in T : n <= t /\ I = 0 .. n - 1
  OBVIOUS
<1>6. ASSUME NEW m \in T, m < n
      PROVE  FALSE
  <2>1. 0 .. m - 1 \in J
    BY <1>5, <1>6
  <2>2. <<0 .. m - 1, I>> \in StrictSubsetOrdering(S)
    BY <1>2, <1>5, <1>6, <2>1 DEF StrictSubsetOrdering
  <2> QED
    BY <2>1, <2>2, <1>4
<1> QED
  BY <1>6

\* Induction: a set that has 0, and with each number the next.
LEMMA NatSet ==
  ASSUME NEW S, 0 \in S, \A n \in Nat : n \in S => n + 1 \in S
  PROVE  Nat \subseteq S
<1> SUFFICES ASSUME Nat \ S # {}
             PROVE  FALSE
  OBVIOUS
<1>1. PICK n \in Nat \ S : \A m \in Nat \ S : n <= m
  <2> DEFINE T == Nat \ S
  <2> HIDE DEF T
  <2> QED
    BY LeastNat DEF T
<1>2. n - 1 \in Nat /\ n - 1 \in S
  BY <1>1
<1> QED
  BY <1>1, <1>2

\* What Min finds, in a set of numbers.
LEMMA MinIs ==
  ASSUME NEW T \in SUBSET Nat, T # {}
  PROVE  Min(T) \in T /\ \A t \in T : Min(T) <= t
  BY LeastNat, Zenon DEF Min

\* What Max finds, in a finite one.
LEMMA MaxIs ==
  ASSUME NEW T \in SUBSET Nat, T # {}, IsFiniteSet(T)
  PROVE  Max(T) \in T /\ \A t \in T : t <= Max(T)
<1> DEFINE J == {{u \in T : u > t} : t \in T}
<1>1. J \subseteq SUBSET T /\ J # {}
  OBVIOUS
<1>2. PICK I \in J : \A K \in J : ~ (<<K, I>> \in StrictSubsetOrdering(T))
  <2> HIDE DEF J
  <2> QED
    BY <1>1, SmallestSet
<1>3. PICK n \in T : I = {u \in T : u > n}
  OBVIOUS
<1>4. ASSUME NEW m \in T, m > n
      PROVE  FALSE
  <2> DEFINE K == {u \in T : u > m}
  <2>1. K \in J
    OBVIOUS
  <2>2. <<K, I>> \in StrictSubsetOrdering(T)
    <3> HIDE DEF J
    <3>1. \A u \in T : u > m => u > n
      BY <1>4
    <3>2. K \subseteq I
      BY <1>3, <3>1
    <3>3. m \in I /\ m \notin K /\ K \subseteq T /\ I \subseteq T
      BY <1>3, <1>4
    <3> QED
      BY <3>2, <3>3 DEF StrictSubsetOrdering
  <2> QED
    BY <2>1, <2>2, <1>2
<1>5. \E x \in T : \A y \in T : x >= y
  BY <1>4
<1> QED
  BY <1>5, Zenon DEF Max

\* ... or in one that a number bounds.
LEMMA MaxBounded ==
  ASSUME NEW T \in SUBSET Nat, T # {}, NEW b \in Nat, \A t \in T : t <= b
  PROVE  Max(T) \in T /\ \A t \in T : t <= Max(T)
  BY FS_BoundedSetOfNaturals, MaxIs

----------------------------------------------------------------------------
(* The inductive invariant.                                                *)

\* The writes as entries, and the entries there are.
Entry(i) == [key |-> written[i].key, seq |-> i, kind |-> written[i].kind]
Wrote == {Entry(i) : i \in 1 .. last}

Held(fs) == UNION {f.entries : f \in fs}
Everything == mem \cup UNION {Held(files[l]) : l \in Levels}

\* A table is not empty and holds nothing but writes.
IsTable(f) ==
    /\ f = [num |-> f.num, entries |-> f.entries]
    /\ f.num \in Nat
    /\ f.entries # {} /\ f.entries \subseteq Wrote

\* The type invariant of LevelTables: the state is of its types, and the tables
\* of level 0 have different ranks.
Types ==
    /\ written \in Seq([key : Keys, kind : Kinds]) /\ last <= MaxWrites
    /\ mem \subseteq Wrote
    /\ snaps \subseteq 1 .. last
    /\ MaxSnapshots = 0 => snaps = {}
    /\ files = [l \in Levels |-> files[l]]
    /\ \A l \in Levels : IsFiniteSet(files[l]) /\ \A f \in files[l] : IsTable(f)
    /\ \A f, g \in files[0] : f.num = g.num => f = g

\* Of one key, all of es is newer than all of ds.
Newer(es, ds) == \A e \in es, d \in ds : e.key = d.key => e.seq > d.seq

\* The memory table is above level 0.
MemNewest == \A l \in Levels : \A f \in files[l] : Newer(mem, f.entries)

\* The sequence numbers at which lookups are made.
Shown == snaps \cup {last}

\* The last write to a key by any such number is there, or it is a deletion and
\* nothing of the key is left that is as old.
Visible ==
    \A i \in 1 .. last, s \in Shown :
        i <= s /\ (\A j \in i + 1 .. s : written[j].key # written[i].key) =>
            \/ Entry(i) \in Everything
            \/ /\ written[i].kind = "deletion"
               /\ \A e \in Everything : e.key = written[i].key => e.seq > i

\* The tables of a compaction, and the keys from the first of their entries to
\* the last.
Inputs(c) == c.in0 \cup c.in1
Within(c, k) == \E e, d \in Held(Inputs(c)) : e.key <= k /\ k <= d.key

\* What a compaction can rely on from the settling of its inputs to the install,
\* with writes, snapshots and a flush in between: the inputs leave no key out,
\* of the tables of their levels that stay none of the lower reaches into them
\* and those of the upper are newer, no snapshot is taken below the oldest one,
\* and what lies below shares a key with the inputs only where IsBaseLevelForKey
\* looks.
Compacting(c) ==
    /\ c.level \in 0 .. NumLevels - 2
    /\ c.in0 # {} /\ c.in0 \subseteq files[c.level] /\ c.in1 \subseteq files[c.level + 1]
    /\ \A k \in Keys : Within(c, k) => \E f \in Inputs(c) : Touches(f, k, k)
    /\ \A g \in files[c.level + 1] \ c.in1, k \in Keys : Within(c, k) => ~Touches(g, k, k)
    /\ \A f \in files[c.level] \ c.in0, g \in c.in0 : Newer(f.entries, g.entries)
    /\ c.smallest_snapshot \in Nat
    /\ \A s \in Shown : c.smallest_snapshot <= s
    /\ \A m \in Levels : m >= c.level + 2 =>
          \A f \in files[m] : f \in c.below \/ \A e \in f.entries, d \in Held(Inputs(c)) : e.key # d.key
    /\ MaxSnapshots = 0 => \A e \in Held(Inputs(c)) : e.seq <= c.smallest_snapshot

CompactionWell == comp = NoCompaction \/ Compacting(comp)

\* NewerAbove and LevelsDisjoint are not inductive: what an install adds to a
\* level is above the rest only by what Compacting says of its inputs.
IInv == Types /\ LevelsDisjoint /\ NewerAbove /\ MemNewest /\ Visible /\ CompactionWell

\* Internal keys: user keys rise, and under one user key sequence numbers fall.
LEMMA PlaceOrder ==
  ASSUME NEW k \in Nat, NEW s \in 0 .. MaxWrites, NEW l \in Nat, NEW t \in 0 .. MaxWrites
  PROVE  /\ Internal(k, s) \in Nat
         /\ Internal(k, s) < Internal(l, t) <=> k < l \/ (k = l /\ s > t)
         /\ Internal(k, s) <= Internal(l, t) <=> k < l \/ (k = l /\ s >= t)
<1> DEFINE W == MaxWrites + 2
           p == MaxWrites + 1 - s
           q == MaxWrites + 1 - t
<1>1. W \in Nat /\ p \in 1 .. W - 1 /\ q \in 1 .. W - 1
  BY TablesAssumption
<1>2. Internal(k, s) = k * W + p /\ Internal(l, t) = l * W + q
  BY DEF Internal
<1>3. p < q <=> s > t
  BY TablesAssumption
<1> HIDE DEF W, p, q
<1>4. k * W \in Nat /\ l * W \in Nat
  BY <1>1
<1>5. ASSUME NEW a \in Nat, NEW b \in Nat, a < b
      PROVE  a * W + W <= b * W
  <2>1. PICK d \in Nat : b = a + 1 + d
    <3>1. b - a - 1 \in Nat /\ b = a + 1 + (b - a - 1)
      BY <1>5
    <3> QED
      BY <3>1
  <2>2. b * W = a * W + W + d * W
    BY <2>1, <1>1
  <2>3. d * W >= 0 /\ d * W \in Nat /\ a * W \in Nat
    BY <1>1
  <2> QED
    BY <2>2, <2>3, <1>1
<1>6. k < l => k * W + W <= l * W
  BY <1>5
<1>7. l < k => l * W + W <= k * W
  BY <1>5
<1>8. CASE k < l
  BY <1>8, <1>1, <1>2, <1>4, <1>6
<1>9. CASE l < k
  BY <1>9, <1>1, <1>2, <1>4, <1>7
<1>10. CASE k = l
  <2>1. k * W + p < l * W + q <=> p < q
    BY <1>10, <1>1, <1>4
  <2>2. k * W + p <= l * W + q <=> p <= q
    BY <1>10, <1>1, <1>4
  <2>3. p <= q <=> s >= t
    BY TablesAssumption DEF p, q
  <2> QED
    BY <1>10, <1>1, <1>2, <1>3, <1>4, <2>1, <2>2, <2>3
<1> QED
  BY <1>8, <1>9, <1>10

\* The first and the last key of a table.
Keyed(f) == f.entries # {} /\ \A e \in f.entries : e.key \in Keys

\* FirstKey and LastKey are the least and the greatest key of a table.
LEMMA Span ==
  ASSUME NEW f, Keyed(f)
  PROVE  /\ FirstKey(f) \in Keys /\ LastKey(f) \in Keys /\ FirstKey(f) <= LastKey(f)
         /\ \A e \in f.entries : FirstKey(f) <= e.key /\ e.key <= LastKey(f)
         /\ \E e \in f.entries : e.key = FirstKey(f)
         /\ \E e \in f.entries : e.key = LastKey(f)
<1> DEFINE T == {e.key : e \in f.entries}
<1>1. T \in SUBSET Nat /\ T # {} /\ T \subseteq Keys
  BY TablesAssumption DEF Keyed, Keys
<1>2. NumKeys \in Nat /\ \A t \in T : t <= NumKeys
  BY <1>1, TablesAssumption DEF Keys
<1>3. Min(T) \in T /\ \A t \in T : Min(T) <= t
  <2> HIDE DEF T
  <2> QED
    BY <1>1, MinIs
<1>4. Max(T) \in T /\ \A t \in T : t <= Max(T)
  <2> HIDE DEF T
  <2> QED
    BY <1>1, <1>2, MaxBounded
<1>5. FirstKey(f) = Min(T) /\ LastKey(f) = Max(T)
  BY DEF FirstKey, LastKey
<1> QED
  BY <1>1, <1>3, <1>4, <1>5, TablesAssumption DEF Keys

\* GetRange spans all of its tables, and no more than these.
LEMMA RangeIs ==
  ASSUME NEW fs, fs # {}, \A f \in fs : Keyed(f)
  PROVE  /\ RangeOf(fs) = <<RangeOf(fs)[1], RangeOf(fs)[2]>>
         /\ RangeOf(fs)[1] \in Keys /\ RangeOf(fs)[2] \in Keys
         /\ RangeOf(fs)[1] <= RangeOf(fs)[2]
         /\ \A f \in fs : RangeOf(fs)[1] <= FirstKey(f) /\ LastKey(f) <= RangeOf(fs)[2]
         /\ \E f \in fs : RangeOf(fs)[1] = FirstKey(f)
         /\ \E f \in fs : RangeOf(fs)[2] = LastKey(f)
<1> DEFINE S == {FirstKey(f) : f \in fs}
           T == {LastKey(f) : f \in fs}
<1>1. \A f \in fs : FirstKey(f) \in Keys /\ LastKey(f) \in Keys /\ FirstKey(f) <= LastKey(f)
  BY Span
<1>2. /\ S \in SUBSET Nat /\ S # {} /\ S \subseteq Keys
      /\ T \in SUBSET Nat /\ T # {} /\ T \subseteq Keys
  BY <1>1, TablesAssumption DEF Keys
<1>3. NumKeys \in Nat /\ \A t \in T : t <= NumKeys
  BY <1>2, TablesAssumption DEF Keys
<1>4. Min(S) \in S /\ \A t \in S : Min(S) <= t
  <2> HIDE DEF S, T
  <2> QED
    BY <1>2, MinIs
<1>5. Max(T) \in T /\ \A t \in T : t <= Max(T)
  <2> HIDE DEF S, T
  <2> QED
    BY <1>2, <1>3, MaxBounded
<1>6. RangeOf(fs) = <<Min(S), Max(T)>>
  BY DEF RangeOf
<1>7. Min(S) <= Max(T)
  <2>1. PICK f \in fs : Min(S) = FirstKey(f)
    BY <1>4
  <2>2. LastKey(f) \in T
    OBVIOUS
  <2>3. FirstKey(f) <= LastKey(f) /\ LastKey(f) <= Max(T)
    BY <2>2, <1>1, <1>5
  <2>4. FirstKey(f) \in Nat /\ LastKey(f) \in Nat /\ Max(T) \in Nat
    BY <2>2, <1>1, <1>2, <1>5, <2>1
  <2> HIDE DEF S, T
  <2> QED
    BY <2>1, <2>3, <2>4
<1>8. \A f \in fs : Min(S) <= FirstKey(f) /\ LastKey(f) <= Max(T)
  BY <1>4, <1>5
<1>9. (\E f \in fs : Min(S) = FirstKey(f)) /\ (\E f \in fs : Max(T) = LastKey(f))
  BY <1>4, <1>5
<1>10. Min(S) \in Keys /\ Max(T) \in Keys
  BY <1>2, <1>4, <1>5
<1> HIDE DEF S, T
<1> QED
  BY <1>6, <1>7, <1>8, <1>9, <1>10

----------------------------------------------------------------------------
(* GetOverlappingInputs.                                                   *)

Widened(level, r) ==
    RangeOf({[entries |-> {[key |-> r[1]], [key |-> r[2]]}]}
                \union {f \in files[level] : Touches(f, r[1], r[2])})

\* One turn of the search of level 0: the range covers the tables it touched and
\* leaves no key out that neither it nor they cover; it stays if none sticks out.
LEMMA WidenedIs ==
  ASSUME NEW level, \A f \in files[level] : Keyed(f),
         NEW lo \in Keys, NEW hi \in Keys, lo <= hi
  PROVE  \E a, b \in Keys :
           /\ Widened(level, <<lo, hi>>) = <<a, b>>
           /\ a <= lo /\ hi <= b
           /\ \A f \in files[level] : Touches(f, lo, hi) => a <= FirstKey(f) /\ LastKey(f) <= b
           /\ \A k \in Keys : a <= k /\ k <= b =>
                 \/ lo <= k /\ k <= hi
                 \/ \E f \in files[level] : Touches(f, lo, hi) /\ Touches(f, k, k)
           /\ (\A f \in files[level] : Touches(f, lo, hi) =>
                  lo <= FirstKey(f) /\ LastKey(f) <= hi) => a = lo /\ b = hi
<1> DEFINE p == [entries |-> {[key |-> lo], [key |-> hi]}]
           T == {f \in files[level] : Touches(f, lo, hi)}
           fs == {p} \union T
<1>1. p.entries = {[key |-> lo], [key |-> hi]}
  OBVIOUS
<1>2. Keyed(p)
  <2>1. \A e \in {[key |-> lo], [key |-> hi]} : e.key \in Keys
    OBVIOUS
  <2> HIDE DEF p
  <2> QED
    BY <2>1, <1>1 DEF Keyed
<1>3. FirstKey(p) = lo /\ LastKey(p) = hi
  <2>1. /\ FirstKey(p) \in Keys /\ LastKey(p) \in Keys
        /\ \A e \in p.entries : FirstKey(p) <= e.key /\ e.key <= LastKey(p)
        /\ \E e \in p.entries : e.key = FirstKey(p)
        /\ \E e \in p.entries : e.key = LastKey(p)
    BY <1>2, Span
  <2>2. /\ FirstKey(p) \in {lo, hi} /\ LastKey(p) \in {lo, hi}
        /\ FirstKey(p) <= lo /\ hi <= LastKey(p)
    <3> HIDE DEF p
    <3> QED
      BY <2>1, <1>1
  <2> QED
    BY <2>1, <2>2, TablesAssumption DEF Keys
<1>4. \A f \in T : Keyed(f) /\ FirstKey(f) \in Keys /\ LastKey(f) \in Keys
  BY Span
<1>5. Widened(level, <<lo, hi>>) = RangeOf(fs)
  BY DEF Widened
<1> DEFINE a == RangeOf(fs)[1]
           b == RangeOf(fs)[2]
<1>6. /\ RangeOf(fs) = <<a, b>> /\ a \in Keys /\ b \in Keys
      /\ \A f \in fs : a <= FirstKey(f) /\ LastKey(f) <= b
      /\ \E f \in fs : a = FirstKey(f)
      /\ \E f \in fs : b = LastKey(f)
  <2>1. fs # {} /\ \A f \in fs : Keyed(f)
    BY <1>2
  <2> HIDE DEF fs
  <2> QED
    BY <2>1, RangeIs
<1> HIDE DEF p, a, b
<1>7. a <= lo /\ hi <= b
  BY <1>3, <1>6
<1>8. \A f \in T : a <= FirstKey(f) /\ LastKey(f) <= b
  BY <1>6
<1>9. (a = lo \/ \E f \in T : a = FirstKey(f)) /\ (b = hi \/ \E f \in T : b = LastKey(f))
  BY <1>3, <1>6
<1>10. ASSUME NEW k \in Keys, a <= k, k <= b, ~(lo <= k /\ k <= hi)
       PROVE  \E f \in T : Touches(f, k, k)
  <2>1. CASE k < lo
    <3>1. PICK f \in T : a = FirstKey(f)
      BY <2>1, <1>9, <1>10, <1>6, TablesAssumption DEF Keys
    <3>2. Touches(f, k, k)
      BY <3>1, <2>1, <1>10, <1>4, TablesAssumption DEF Touches, Keys
    <3> QED
      BY <3>2
  <2>2. CASE k > hi
    <3>1. PICK f \in T : b = LastKey(f)
      BY <2>2, <1>9, <1>10, <1>6, TablesAssumption DEF Keys
    <3>2. Touches(f, k, k)
      BY <3>1, <2>2, <1>10, <1>4, TablesAssumption DEF Touches, Keys
    <3> QED
      BY <3>2
  <2> QED
    BY <2>1, <2>2, <1>10, TablesAssumption DEF Keys
<1>11. (\A f \in T : lo <= FirstKey(f) /\ LastKey(f) <= hi) => a = lo /\ b = hi
  BY <1>7, <1>9, <1>6, TablesAssumption DEF Keys
<1> QED
  BY <1>5, <1>6, <1>7, <1>8, <1>10, <1>11

\* The search of level 0 starts over as often as there are tables.
Searched(level, lo, hi, n, R) ==
    R = [m \in 0 .. n |-> IF m = 0 \/ level > 0 THEN <<lo, hi>> ELSE Widened(level, R[m - 1])]

\* The turns are a recursive function, which there is for any number of them.
LEMMA SearchedOnce ==
  ASSUME NEW level, NEW lo, NEW hi, NEW n \in Nat
  PROVE  \E R : Searched(level, lo, hi, n, R)
<1> DEFINE S == {m \in Nat : \E R : Searched(level, lo, hi, m, R)}
<1>1. 0 \in S
  <2> DEFINE R == [m \in 0 .. 0 |-> <<lo, hi>>]
  <2>1. R = [m \in 0 .. 0 |-> IF m = 0 \/ level > 0 THEN <<lo, hi>> ELSE Widened(level, R[m - 1])]
    OBVIOUS
  <2> QED
    BY <2>1 DEF Searched
<1>2. ASSUME NEW m \in Nat, m \in S
      PROVE  m + 1 \in S
  <2>1. PICK R : Searched(level, lo, hi, m, R)
    BY <1>2
  <2> DEFINE Q == [i \in 0 .. m + 1 |-> IF i = 0 \/ level > 0 THEN <<lo, hi>> ELSE Widened(level, R[i - 1])]
  <2>2. \A i \in 0 .. m : Q[i] = R[i]
    <3>1. \A i \in 0 .. m : R[i] = IF i = 0 \/ level > 0 THEN <<lo, hi>> ELSE Widened(level, R[i - 1])
      BY <2>1 DEF Searched
    <3> QED
      BY <3>1
  <2>3. \A i \in 0 .. m + 1 : i # 0 => i - 1 \in 0 .. m
    OBVIOUS
  <2>4. Q = [i \in 0 .. m + 1 |-> IF i = 0 \/ level > 0 THEN <<lo, hi>> ELSE Widened(level, Q[i - 1])]
    <3> HIDE DEF Q
    <3>1. \A i \in 0 .. m + 1 : i # 0 => R[i - 1] = Q[i - 1]
      BY <2>2, <2>3
    <3>2. \A i \in 0 .. m + 1 : (IF i = 0 \/ level > 0 THEN <<lo, hi>> ELSE Widened(level, R[i - 1]))
             = (IF i = 0 \/ level > 0 THEN <<lo, hi>> ELSE Widened(level, Q[i - 1]))
      BY <3>1
    <3> QED
      BY <3>2, Zenon DEF Q
  <2> HIDE DEF Q
  <2> QED
    BY <2>4 DEF Searched
<1>3. Nat \subseteq S
  <2> HIDE DEF S
  <2> QED
    BY <1>1, <1>2, NatSet
<1> QED
  BY <1>3

\* GetOverlappingInputs: the tables that touch a range around the one it was given,
\* and in level 0 none of them sticks out of it: the search has come to its end
\* after as many turns as there are tables.
LEMMA OverlapIs ==
  ASSUME NEW level \in Nat, IsFiniteSet(files[level]), \A f \in files[level] : Keyed(f),
         NEW lo \in Keys, NEW hi \in Keys, lo <= hi
  PROVE  \E a, b \in Keys :
           /\ a <= lo /\ hi <= b
           /\ GetOverlappingInputs(level, lo, hi) = {f \in files[level] : Touches(f, a, b)}
           /\ \A k \in Keys : a <= k /\ k <= b =>
                 \/ lo <= k /\ k <= hi
                 \/ \E f \in GetOverlappingInputs(level, lo, hi) : Touches(f, k, k)
           /\ level = 0 => \A f \in GetOverlappingInputs(level, lo, hi) :
                              a <= FirstKey(f) /\ LastKey(f) <= b
           /\ level > 0 => a = lo /\ b = hi
<1> DEFINE N == Cardinality(files[level])
           Result(R) == {f \in files[level] : Touches(f, R[N][1], R[N][2])}
           O == GetOverlappingInputs(level, lo, hi)
<1>1. N \in Nat
  BY FS_CardinalityType
<1>2. PICK R : Searched(level, lo, hi, N, R) /\ O = Result(R)
  <2>1. \E R : Searched(level, lo, hi, N, R)
    BY <1>1, SearchedOnce
  <2>2. \E R : /\ R = CHOOSE Q : Searched(level, lo, hi, N, Q)
              /\ O = Result(R)
    BY Zenon DEF GetOverlappingInputs, Searched, Widened
  <2> QED
    BY <2>1, <2>2, Zenon
<1>3. /\ R[0] = <<lo, hi>>
      /\ \A m \in 0 .. N : level > 0 => R[m] = <<lo, hi>>
      /\ \A m \in 1 .. N : level = 0 => R[m] = Widened(level, R[m - 1])
  <2> HIDE DEF N
  <2>1. R = [m \in 0 .. N |-> IF m = 0 \/ level > 0 THEN <<lo, hi>> ELSE Widened(level, R[m - 1])]
    BY <1>2 DEF Searched
  <2>2. \A m \in 0 .. N : R[m] = IF m = 0 \/ level > 0 THEN <<lo, hi>> ELSE Widened(level, R[m - 1])
    BY <2>1
  <2> QED
    BY <1>1, <2>2
<1> HIDE DEF N, O
<1> SUFFICES \E a, b \in Keys :
           /\ a <= lo /\ hi <= b
           /\ O = {f \in files[level] : Touches(f, a, b)}
           /\ \A k \in Keys : a <= k /\ k <= b =>
                 \/ lo <= k /\ k <= hi
                 \/ \E f \in O : Touches(f, k, k)
           /\ level = 0 => \A f \in O : a <= FirstKey(f) /\ LastKey(f) <= b
           /\ level > 0 => a = lo /\ b = hi
  BY DEF O
<1>4. CASE level > 0
  <2>1. R[N] = <<lo, hi>>
    BY <1>1, <1>3, <1>4
  <2>2. O = {f \in files[level] : Touches(f, lo, hi)}
    BY <2>1, <1>2
  <2> QED
    BY <2>2, <1>4, TablesAssumption DEF Keys
<1>5. CASE level = 0
  <2> DEFINE Hit(m) == {f \in files[level] : Touches(f, R[m][1], R[m][2])}
             \* The search is over, or has come past one more table.
             Good(m) ==
               \E a, b \in Keys :
                 /\ R[m] = <<a, b>> /\ a <= lo /\ hi <= b
                 /\ \A k \in Keys : a <= k /\ k <= b =>
                      (lo <= k /\ k <= hi) \/ \E f \in Hit(m) : Touches(f, k, k)
                 /\ \/ \A f \in Hit(m) : a <= FirstKey(f) /\ LastKey(f) <= b
                    \/ Cardinality(Hit(m)) >= m + 1
             S == {m \in Nat : m <= N => Good(m)}
  <2>1. 0 \in S
    <3>1. Hit(0) = {} \/ Cardinality(Hit(0)) >= 1
      <4>1. IsFiniteSet(Hit(0))
        BY FS_Subset
      <4> HIDE DEF Hit
      <4> QED
        BY <4>1, FS_EmptySet, FS_CardinalityType
    <3> HIDE DEF Hit
    <3>2. Good(0)
      BY <3>1, <1>3, TablesAssumption DEF Keys
    <3> QED
      BY <3>2
  <2>2. ASSUME NEW m \in Nat, m \in S
        PROVE  m + 1 \in S
    <3> SUFFICES ASSUME m + 1 <= N
                 PROVE  Good(m + 1)
      OBVIOUS
    <3>1. PICK a, b \in Keys :
                 /\ R[m] = <<a, b>> /\ a <= lo /\ hi <= b
                 /\ \A k \in Keys : a <= k /\ k <= b =>
                      (lo <= k /\ k <= hi) \/ \E f \in Hit(m) : Touches(f, k, k)
                 /\ \/ \A f \in Hit(m) : a <= FirstKey(f) /\ LastKey(f) <= b
                    \/ Cardinality(Hit(m)) >= m + 1
      <4>1. Good(m)
        BY <2>2, <1>1
      <4> QED
        BY <4>1
    <3>2. a <= b
      BY <3>1, TablesAssumption DEF Keys
    <3>3. R[m + 1] = Widened(level, <<a, b>>)
      BY <3>1, <1>1, <1>3, <1>5
    <3>4. Hit(m) = {f \in files[level] : Touches(f, a, b)}
      BY <3>1
    <3>5. PICK c, d \in Keys :
           /\ R[m + 1] = <<c, d>>
           /\ c <= a /\ b <= d
           /\ \A f \in files[level] : Touches(f, a, b) => c <= FirstKey(f) /\ LastKey(f) <= d
           /\ \A k \in Keys : c <= k /\ k <= d =>
                 \/ a <= k /\ k <= b
                 \/ \E f \in files[level] : Touches(f, a, b) /\ Touches(f, k, k)
           /\ (\A f \in files[level] : Touches(f, a, b) =>
                  a <= FirstKey(f) /\ LastKey(f) <= b) => c = a /\ d = b
      BY <3>2, <3>3, WidenedIs
    <3>6. Hit(m + 1) = {f \in files[level] : Touches(f, c, d)}
      BY <3>5
    <3> HIDE DEF Hit
    <3>7. Hit(m) \subseteq Hit(m + 1)
      <4>1. ASSUME NEW f \in files[level], Touches(f, a, b)
            PROVE  Touches(f, c, d)
        <5>1. FirstKey(f) \in Keys /\ LastKey(f) \in Keys
          BY Span
        <5> QED
          BY <4>1, <5>1, <3>5, TablesAssumption DEF Touches, Keys
      <4> QED
        BY <4>1, <3>4, <3>6
    <3>8. ASSUME NEW k \in Keys, c <= k, k <= d
          PROVE  (lo <= k /\ k <= hi) \/ \E f \in Hit(m + 1) : Touches(f, k, k)
      <4>1. CASE a <= k /\ k <= b
        BY <4>1, <3>1, <3>7
      <4>2. CASE \E f \in files[level] : Touches(f, a, b) /\ Touches(f, k, k)
        BY <4>2, <3>4, <3>7
      <4> QED
        BY <4>1, <4>2, <3>8, <3>5
    <3>9. c <= lo /\ hi <= d
      BY <3>1, <3>5, TablesAssumption DEF Keys
    <3>10. (\A f \in Hit(m + 1) : c <= FirstKey(f) /\ LastKey(f) <= d)
              \/ Cardinality(Hit(m + 1)) >= m + 1 + 1
      <4>1. CASE Hit(m + 1) = Hit(m)
        BY <4>1, <3>4, <3>5
      <4>2. CASE Hit(m + 1) # Hit(m)
        <5>1. IsFiniteSet(Hit(m + 1)) /\ IsFiniteSet(Hit(m))
          BY <3>4, <3>6, FS_Subset
        <5>2. Cardinality(Hit(m)) \in Nat /\ Cardinality(Hit(m + 1)) \in Nat
          BY <5>1, FS_CardinalityType
        <5>3. Cardinality(Hit(m)) < Cardinality(Hit(m + 1))
          BY <4>2, <5>1, <5>2, <3>7, FS_Subset
        <5>4. CASE \A f \in Hit(m) : a <= FirstKey(f) /\ LastKey(f) <= b
          BY <5>4, <3>4, <3>5, <3>6, <4>2
        <5>5. CASE Cardinality(Hit(m)) >= m + 1
          BY <5>2, <5>3, <5>5
        <5> QED
          BY <5>4, <5>5, <3>1
      <4> QED
        BY <4>1, <4>2
    <3> QED
      BY <3>5, <3>8, <3>9, <3>10
  <2>3. N \in S
    <3> HIDE DEF S
    <3> QED
      BY <1>1, <2>1, <2>2, NatSet
  <2>4. Good(N)
    BY <2>3, <1>1
  <2>5. O = Hit(N)
    BY <1>2
  <2>6. ~(Cardinality(O) >= N + 1)
    <3>1. O \subseteq files[level]
      BY <2>5
    <3>2. Cardinality(O) <= N /\ Cardinality(O) \in Nat
      BY <3>1, FS_Subset, FS_CardinalityType DEF N
    <3> QED
      BY <3>2, <1>1
  <2> HIDE DEF Hit
  <2>7. PICK a, b \in Keys :
                 /\ R[N] = <<a, b>> /\ a <= lo /\ hi <= b
                 /\ \A k \in Keys : a <= k /\ k <= b =>
                      (lo <= k /\ k <= hi) \/ \E f \in Hit(N) : Touches(f, k, k)
                 /\ \/ \A f \in Hit(N) : a <= FirstKey(f) /\ LastKey(f) <= b
                    \/ Cardinality(Hit(N)) >= N + 1
    BY <2>4
  <2>8. O = {f \in files[level] : Touches(f, a, b)}
    BY <2>7, <1>2
  <2> QED
    BY <2>5, <2>6, <2>7, <2>8, <1>5
<1> QED
  BY <1>4, <1>5

----------------------------------------------------------------------------
(* Iterators.                                                              *)

\* The writes as entries.
LEMMA WroteIs ==
  ASSUME Types
  PROVE  /\ last \in Nat /\ last <= MaxWrites /\ IsFiniteSet(Wrote)
         /\ \A e \in Wrote : e.key \in Keys /\ e.seq \in 1 .. last /\ e = Entry(e.seq)
         /\ \A i \in 1 .. last : /\ Entry(i) \in Wrote /\ Entry(i).seq = i
                                 /\ Entry(i).key = written[i].key
                                 /\ Entry(i).kind = written[i].kind
<1>1. last \in Nat /\ last <= MaxWrites
  BY DEF Types, last
<1>2. \A i \in 1 .. last : written[i] \in [key : Keys, kind : Kinds]
  <2> DEFINE W == [key : Keys, kind : Kinds]
  <2>1. written \in Seq(W)
    BY DEF Types
  <2> HIDE DEF W
  <2>2. \A i \in 1 .. last : written[i] \in W
    BY <2>1 DEF last
  <2> QED
    BY <2>2 DEF W
<1>3. \A i \in 1 .. last : /\ Entry(i) \in Wrote /\ Entry(i).seq = i
                           /\ Entry(i).key = written[i].key
                           /\ Entry(i).kind = written[i].kind
  BY DEF Entry, Wrote
<1>4. \A e \in Wrote : e.key \in Keys /\ e.seq \in 1 .. last /\ e = Entry(e.seq)
  <2>1. ASSUME NEW e \in Wrote
        PROVE  e.key \in Keys /\ e.seq \in 1 .. last /\ e = Entry(e.seq)
    <3>1. PICK i \in 1 .. last : e = Entry(i)
      BY DEF Wrote
    <3>2. written[i].key \in Keys
      BY <1>2
    <3> QED
      BY <3>1, <3>2, <1>3
  <2> QED
    BY <2>1
<1>5. IsFiniteSet(Wrote)
  <2> DEFINE f == [i \in 1 .. last |-> Entry(i)]
  <2>1. f \in Surjection(1 .. last, Wrote)
    <3>1. f \in [1 .. last -> Wrote]
      BY <1>3
    <3>2. \A e \in Wrote : \E i \in 1 .. last : f[i] = e
      BY DEF Wrote
    <3> HIDE DEF f
    <3> QED
      BY <3>1, <3>2 DEF Surjection
  <2> HIDE DEF f
  <2> QED
    BY <1>1, <2>1, FS_Interval, FS_Surjection
<1> QED
  BY <1>1, <1>3, <1>4, <1>5

\* No two writes have the same place.
LEMMA PlaceIs ==
  ASSUME Types, NEW e \in Wrote, NEW d \in Wrote
  PROVE  /\ Place(e) \in Nat
         /\ Place(e) < Place(d) <=> e.key < d.key \/ (e.key = d.key /\ e.seq > d.seq)
         /\ Place(e) = Place(d) => e = d
<1>1. /\ e.key \in Nat /\ e.seq \in 0 .. MaxWrites /\ e = Entry(e.seq) /\ e.seq \in Nat
      /\ d.key \in Nat /\ d.seq \in 0 .. MaxWrites /\ d = Entry(d.seq) /\ d.seq \in Nat
  <2>1. Keys \subseteq Nat
    BY TablesAssumption DEF Keys
  <2>2. last \in Nat /\ last <= MaxWrites /\ MaxWrites \in Nat
    BY WroteIs, TablesAssumption
  <2>3. e.key \in Keys /\ e.seq \in 1 .. last /\ d.key \in Keys /\ d.seq \in 1 .. last
    BY WroteIs
  <2>4. e = Entry(e.seq) /\ d = Entry(d.seq)
    BY WroteIs
  <2>5. \A s \in 1 .. last : s \in Nat /\ s \in 0 .. MaxWrites
    BY <2>2
  <2> QED
    BY <2>1, <2>3, <2>4, <2>5, Zenon
<1>2. /\ Place(e) \in Nat /\ Place(d) \in Nat
      /\ Place(e) < Place(d) <=> e.key < d.key \/ (e.key = d.key /\ e.seq > d.seq)
      /\ Place(d) < Place(e) <=> d.key < e.key \/ (d.key = e.key /\ d.seq > e.seq)
  BY <1>1, PlaceOrder DEF Place
<1>3. Place(e) = Place(d) => e.seq = d.seq
  BY <1>1, <1>2
<1> QED
  BY <1>1, <1>2, <1>3

\* An iterator comes past every entry once, in the order of the places.
LEMMA SortedIs ==
  ASSUME Types, NEW es, es \subseteq Wrote
  PROVE  LET n == Cardinality(es) IN
         /\ IsFiniteSet(es) /\ n \in Nat
         /\ Sorted(es) \in [1 .. n -> es]
         /\ \A i, j \in 1 .. n : i < j => Place(Sorted(es)[i]) < Place(Sorted(es)[j])
         /\ \A e \in es : \E i \in 1 .. n : Sorted(es)[i] = e
<1> DEFINE n == Cardinality(es)
           Before(e) == {d \in es : Place(d) < Place(e)}
           rank == [e \in es |-> Cardinality(Before(e)) + 1]
<1>1. IsFiniteSet(es) /\ n \in Nat
  BY WroteIs, FS_Subset, FS_CardinalityType
<1>2. \A e, d \in es : /\ Place(e) \in Nat /\ Place(d) \in Nat
                       /\ Place(e) = Place(d) => e = d
  BY PlaceIs
<1>3. \A e \in es : IsFiniteSet(Before(e)) /\ Cardinality(Before(e)) \in 0 .. n - 1
  <2>1. ASSUME NEW e \in es
        PROVE  IsFiniteSet(Before(e)) /\ Cardinality(Before(e)) \in 0 .. n - 1
    <3>1. Before(e) \subseteq es /\ e \notin Before(e)
      BY <1>2
    <3> HIDE DEF Before
    <3>2. /\ IsFiniteSet(Before(e)) /\ Cardinality(Before(e)) \in Nat
          /\ Cardinality(Before(e)) <= n /\ Cardinality(Before(e)) # n
      BY <3>1, <1>1, FS_Subset, FS_CardinalityType
    <3> QED
      BY <3>2, <1>1
  <2> QED
    BY <2>1
<1>4. ASSUME NEW e \in es, NEW d \in es, Place(e) < Place(d)
      PROVE  Cardinality(Before(e)) < Cardinality(Before(d))
  <2>1. Before(e) \subseteq Before(d) /\ e \in Before(d) /\ e \notin Before(e)
    BY <1>2, <1>4
  <2> HIDE DEF Before
  <2>2. Cardinality(Before(e)) <= Cardinality(Before(d))
        /\ Cardinality(Before(e)) # Cardinality(Before(d))
    BY <2>1, <1>3, FS_Subset
  <2>3. Cardinality(Before(e)) \in Nat /\ Cardinality(Before(d)) \in Nat
    BY <1>3
  <2> QED
    BY <2>2, <2>3
<1>5. rank \in Bijection(es, 1 .. n)
  <2>1. rank \in [es -> 1 .. n]
    <3> HIDE DEF Before
    <3> QED
      BY <1>1, <1>3
  <2>2. ASSUME NEW e \in es, NEW d \in es, rank[e] = rank[d]
        PROVE  e = d
    <3>1. Cardinality(Before(e)) = Cardinality(Before(d))
      <4> HIDE DEF Before
      <4> QED
        BY <2>2, <1>3, <1>1
    <3> HIDE DEF Before, rank
    <3> QED
      BY <3>1, <1>2, <1>3, <1>4
  <2>3. rank \in Injection(es, 1 .. n)
    <3> HIDE DEF rank
    <3> QED
      BY <2>1, <2>2 DEF Injection, IsInjective
  <2>4. IsFiniteSet(1 .. n) /\ Cardinality(1 .. n) = n
    BY <1>1, FS_Interval
  <2>5. rank \in Surjection(es, 1 .. n)
    <3> HIDE DEF rank
    <3> QED
      BY <2>3, <2>4, FS_Injection
  <2> QED
    BY <2>3, <2>5 DEF Bijection
<1>6. ASSUME NEW i \in 1 .. n
      PROVE  Sorted(es)[i] \in es /\ rank[Sorted(es)[i]] = i
  <2>1. PICK e \in es : rank[e] = i
    <3> HIDE DEF rank, n
    <3> QED
      BY <1>5 DEF Bijection, Surjection
  <2>2. Cardinality(Before(e)) = i - 1
    <3> HIDE DEF Before
    <3> QED
      BY <2>1, <1>3, <1>1
  <2>3. Sorted(es)[i] = CHOOSE d \in es : Cardinality(Before(d)) = i - 1
    BY DEF Sorted
  <2>4. Sorted(es)[i] \in es /\ Cardinality(Before(Sorted(es)[i])) = i - 1
    <3> HIDE DEF Before
    <3> QED
      BY <2>2, <2>3, Zenon
  <2> HIDE DEF Before
  <2> QED
    BY <2>4, <1>1
<1>7. Sorted(es) \in [1 .. n -> es]
  BY <1>6 DEF Sorted
<1>8. ASSUME NEW i \in 1 .. n, NEW j \in 1 .. n, i < j
      PROVE  Place(Sorted(es)[i]) < Place(Sorted(es)[j])
  <2> DEFINE e == Sorted(es)[i]
             d == Sorted(es)[j]
  <2>1. e \in es /\ d \in es /\ rank[e] = i /\ rank[d] = j
    BY <1>6
  <2>2. e # d /\ Cardinality(Before(e)) < Cardinality(Before(d))
    <3> HIDE DEF Before, e, d
    <3> QED
      BY <2>1, <1>8, <1>3, <1>1
  <2> HIDE DEF e, d, Before, rank
  <2>3. ~ (Place(d) < Place(e))
    BY <2>1, <2>2, <1>4, <1>3
  <2> QED
    BY <2>1, <2>2, <2>3, <1>2 DEF e, d
<1>9. ASSUME NEW e \in es
      PROVE  \E i \in 1 .. n : Sorted(es)[i] = e
  <2>1. rank[e] \in 1 .. n
    <3> HIDE DEF rank, n
    <3> QED
      BY <1>5 DEF Bijection, Injection
  <2>2. Sorted(es)[rank[e]] \in es /\ rank[Sorted(es)[rank[e]]] = rank[e]
    <3> HIDE DEF rank
    <3> QED
      BY <2>1, <1>6
  <2>3. Sorted(es)[rank[e]] = e
    <3> HIDE DEF rank, n
    <3> QED
      BY <2>2, <1>5 DEF Bijection, Injection, IsInjective
  <2> HIDE DEF rank
  <2> QED
    BY <2>1, <2>3
<1> HIDE DEF n
<1>10. /\ IsFiniteSet(es) /\ n \in Nat
       /\ Sorted(es) \in [1 .. n -> es]
       /\ \A i, j \in 1 .. n : i < j => Place(Sorted(es)[i]) < Place(Sorted(es)[j])
       /\ \A e \in es : \E i \in 1 .. n : Sorted(es)[i] = e
  BY <1>1, <1>7, <1>8, <1>9
<1> QED
  BY <1>10 DEF n

----------------------------------------------------------------------------
(* The loop of DoCompactionWork.                                           *)

\* What one turn of the loop does to the outputs.
LEMMA MergeIs ==
  ASSUME NEW c, NEW out, NEW e
  PROVE  \E ends \in BOOLEAN :
           /\ ends => /\ out.current # {}
                      /\ SplitsKeys \/ \A d \in out.current : d.key # e.key
           /\ Merge(c, out, e).outputs = (IF ends THEN Append(out.outputs, out.current)
                                          ELSE out.outputs)
           /\ Merge(c, out, e).current = (IF ends THEN {} ELSE out.current)
                                         \cup (IF Dropped(c, e) THEN {} ELSE {e})
<1> DEFINE passed == {g \in c.grandparents : LargestPlace(g) < Place(e)}
           overlapped == out.overlapped
                         + IF out.seen_key THEN Size(passed \ out.passed) ELSE 0
           stop == overlapped > OverlapLimit
           ends == /\ out.current # {}
                   /\ stop \/ Cardinality(out.current) >= TableEntries
                   /\ SplitsKeys \/ \A d \in out.current : d.key # e.key
           current == IF ends THEN {} ELSE out.current
           r == [outputs |-> IF ends THEN Append(out.outputs, out.current) ELSE out.outputs,
                 current |-> IF Dropped(c, e) THEN current ELSE current \union {e},
                 passed |-> passed,
                 overlapped |-> IF stop THEN 0 ELSE overlapped,
                 seen_key |-> TRUE]
<1>1. Merge(c, out, e) = r
  BY Zenon DEF Merge
<1>2. /\ ends \in BOOLEAN
      /\ ends => /\ out.current # {}
                 /\ SplitsKeys \/ \A d \in out.current : d.key # e.key
  OBVIOUS
<1> HIDE DEF ends
<1>3. r.outputs = (IF ends THEN Append(out.outputs, out.current) ELSE out.outputs)
  OBVIOUS
<1>4. r.current = (IF ends THEN {} ELSE out.current) \cup (IF Dropped(c, e) THEN {} ELSE {e})
  <2>1. r.current = IF Dropped(c, e) THEN current ELSE current \union {e}
    OBVIOUS
  <2> HIDE DEF current
  <2>2. r.current = current \cup (IF Dropped(c, e) THEN {} ELSE {e})
    BY <2>1
  <2> QED
    BY <2>2 DEF current
<1> HIDE DEF r, current, stop, overlapped, passed
<1>5. /\ Merge(c, out, e).outputs = (IF ends THEN Append(out.outputs, out.current)
                                    ELSE out.outputs)
      /\ Merge(c, out, e).current = (IF ends THEN {} ELSE out.current)
                                    \cup (IF Dropped(c, e) THEN {} ELSE {e})
  BY <1>1, <1>3, <1>4, Zenon
<1>6. ends \in BOOLEAN
  BY <1>2
<1> WITNESS ends \in BOOLEAN
<1> QED
  BY <1>2, <1>5

\* The loop, on each of the subsequences that a fold is defined by.
Fold(c, base, seq, n, R) ==
    R = [s \in SUBSET (1 .. n) |->
            IF s = {} THEN base ELSE Merge(c, R[s \ {Max(s)}], seq[Max(s)])]

\* A fold is a recursive function too.
LEMMA FoldRuns ==
  ASSUME NEW c, NEW base, NEW seq, NEW n \in Nat
  PROVE  \E R : Fold(c, base, seq, n, R)
<1> DEFINE S == {m \in Nat : \E R : Fold(c, base, seq, m, R)}
<1>1. 0 \in S
  <2> DEFINE R == [s \in SUBSET (1 .. 0) |-> base]
  <2>1. \A s \in SUBSET (1 .. 0) : s = {}
    OBVIOUS
  <2>2. R = [s \in SUBSET (1 .. 0) |->
            IF s = {} THEN base ELSE Merge(c, R[s \ {Max(s)}], seq[Max(s)])]
    BY <2>1
  <2> HIDE DEF R
  <2> QED
    BY <2>2 DEF Fold
<1>2. ASSUME NEW m \in Nat, m \in S
      PROVE  m + 1 \in S
  <2>1. PICK R : Fold(c, base, seq, m, R)
    BY <1>2
  <2>2. R = [s \in SUBSET (1 .. m) |->
               IF s = {} THEN base ELSE Merge(c, R[s \ {Max(s)}], seq[Max(s)])]
    BY <2>1 DEF Fold
  <2> DEFINE Q == [s \in SUBSET (1 .. m + 1) |->
                     IF m + 1 \in s THEN Merge(c, R[s \ {m + 1}], seq[m + 1]) ELSE R[s]]
  <2>3. ASSUME NEW s \in SUBSET (1 .. m + 1)
        PROVE  Q[s] = IF s = {} THEN base ELSE Merge(c, Q[s \ {Max(s)}], seq[Max(s)])
    <3>1. CASE s = {}
      <4>1. Q[s] = R[{}] /\ {} \in SUBSET (1 .. m)
        BY <3>1
      <4> HIDE DEF Q
      <4> QED
        BY <4>1, <2>2, <3>1
    <3>2. CASE s # {}
      <4>1. Max(s) \in s /\ \A t \in s : t <= Max(s)
        <5>1. m + 1 \in Nat /\ s \in SUBSET Nat /\ \A t \in s : t <= m + 1
          OBVIOUS
        <5> QED
          BY <5>1, <3>2, MaxBounded
      <4> DEFINE x == Max(s)
      <4> HIDE DEF x
      <4>2. x \in s /\ x \in 1 .. m + 1 /\ \A t \in s : t <= x
        BY <4>1 DEF x
      <4>3. s \ {x} \in SUBSET (1 .. m)
        <5>1. \A t \in s \ {x} : t \in 1 .. m + 1 /\ t <= x /\ t # x
          BY <4>2
        <5> QED
          BY <5>1, <4>2
      <4>4. Q[s \ {x}] = R[s \ {x}]
        <5>1. m + 1 \notin s \ {x} /\ s \ {x} \in SUBSET (1 .. m + 1)
          BY <4>3
        <5> QED
          BY <5>1
      <4>5. CASE m + 1 \in s
        <5>1. x = m + 1
          BY <4>5, <4>2
        <5>2. Q[s] = Merge(c, R[s \ {x}], seq[x])
          BY <4>5, <5>1
        <5> HIDE DEF Q
        <5> QED
          BY <5>2, <4>4, <3>2 DEF x
      <4>6. CASE m + 1 \notin s
        <5>1. s \in SUBSET (1 .. m)
          BY <4>6
        <5>2. R[s] = Merge(c, R[s \ {x}], seq[x])
          BY <5>1, <2>2, <3>2 DEF x
        <5>3. Q[s] = R[s]
          BY <4>6
        <5> HIDE DEF Q
        <5> QED
          BY <5>2, <5>3, <4>4, <3>2 DEF x
      <4> QED
        BY <4>5, <4>6
    <3> QED
      BY <3>1, <3>2
  <2>4. Q = [s \in SUBSET (1 .. m + 1) |-> Q[s]]
    OBVIOUS
  <2> HIDE DEF Q
  <2>5. Q = [s \in SUBSET (1 .. m + 1) |->
              IF s = {} THEN base ELSE Merge(c, Q[s \ {Max(s)}], seq[Max(s)])]
    BY <2>3, <2>4
  <2>6. Fold(c, base, seq, m + 1, Q)
    BY <2>5, Zenon DEF Fold
  <2> QED
    BY <2>6
<1>3. Nat \subseteq S
  <2> HIDE DEF S
  <2> QED
    BY <1>1, <1>2, NatSet
<1> QED
  BY <1>3

\* So DoCompactionWork takes the entries one by one, in order.
Turns(c, n, run) ==
    LET seq == Sorted(Held(Inputs(c)))
    IN  /\ run[0] = [outputs |-> <<>>, current |-> {}, passed |-> {},
                     overlapped |-> 0, seen_key |-> FALSE]
        /\ \A i \in 1 .. n : run[i] = Merge(c, run[i - 1], seq[i])

\* DoCompactionWork as a run of turns.
LEMMA WorkIs ==
  ASSUME Types, NEW c, Held(Inputs(c)) \subseteq Wrote
  PROVE  LET n == Cardinality(Held(Inputs(c))) IN
         \E run : /\ Turns(c, n, run)
                  /\ DoCompactionWork(c) = IF run[n].current = {} THEN run[n].outputs
                                           ELSE Append(run[n].outputs, run[n].current)
<1> DEFINE In == Held(Inputs(c))
           n == Cardinality(In)
           seq == Sorted(In)
           base == [outputs |-> <<>>, current |-> {}, passed |-> {},
                    overlapped |-> 0, seen_key |-> FALSE]
           done == FoldLeft(LAMBDA out, e : Merge(c, out, e), base, seq)
<1>1. n \in Nat /\ DOMAIN seq = 1 .. n
  BY SortedIs
<1>2. DoCompactionWork(c) = IF done.current = {} THEN done.outputs
                            ELSE Append(done.outputs, done.current)
  BY Zenon DEF DoCompactionWork, Held, Inputs
<1> HIDE DEF n, seq, base
<1>3. PICK R : Fold(c, base, seq, n, R) /\ done = R[1 .. n]
  <2>1. \E R : Fold(c, base, seq, n, R)
    BY <1>1, FoldRuns
  <2>2. \E R : /\ R = CHOOSE Q : Q = [s \in SUBSET (DOMAIN seq) |->
                        IF s = {} THEN base ELSE Merge(c, Q[s \ {Max(s)}], seq[Max(s)])]
               /\ done = R[DOMAIN seq]
    BY Zenon DEF FoldLeft, MapThenFoldSet
  <2>3. \E R : R = (CHOOSE Q : Fold(c, base, seq, n, Q)) /\ done = R[1 .. n]
    BY <2>2, <1>1 DEF Fold
  <2> QED
    BY <2>1, <2>3, Zenon
<1> HIDE DEF done
<1> DEFINE run == [i \in 0 .. n |-> R[1 .. i]]
<1>4. R = [s \in SUBSET (1 .. n) |->
             IF s = {} THEN base ELSE Merge(c, R[s \ {Max(s)}], seq[Max(s)])]
  BY <1>3 DEF Fold
<1>5. run[0] = base
  <2>1. 1 .. 0 = {} /\ 0 \in 0 .. n
    BY <1>1
  <2>2. R[{}] = base
    BY <1>4
  <2> QED
    BY <2>1, <2>2
<1>6. ASSUME NEW i \in 1 .. n
      PROVE  run[i] = Merge(c, run[i - 1], seq[i])
  <2>1. 1 .. i \in SUBSET (1 .. n) /\ 1 .. i # {} /\ i \in 0 .. n /\ i - 1 \in 0 .. n
    <3>1. i \in 1 .. i /\ \A t \in 1 .. i : t \in 1 .. n
      BY <1>1
    <3> QED
      BY <3>1, <1>1
  <2>2. Max(1 .. i) = i
    <3>1. 1 .. i \in SUBSET Nat /\ i \in Nat /\ i \in 1 .. i /\ \A t \in 1 .. i : t <= i
      OBVIOUS
    <3>2. Max(1 .. i) \in 1 .. i /\ i <= Max(1 .. i)
      BY <3>1, MaxBounded
    <3> QED
      BY <3>2
  <2>3. (1 .. i) \ {i} = 1 .. i - 1
    OBVIOUS
  <2>4. R[1 .. i] = Merge(c, R[(1 .. i) \ {Max(1 .. i)}], seq[Max(1 .. i)])
    BY <2>1, <1>4
  <2>5. run[i] = R[1 .. i] /\ run[i - 1] = R[1 .. i - 1]
    BY <2>1
  <2> QED
    BY <2>2, <2>3, <2>4, <2>5
<1>7. run[n] = done
  BY <1>1, <1>3
<1> HIDE DEF run
<1>8. Turns(c, n, run)
  BY <1>5, <1>6 DEF Turns, base, seq
<1> QED
  BY <1>2, <1>7, <1>8 DEF n

\* No two versions of a key are left to come apart.
Unsplit(c) ==
    SplitsKeys => \A e, d \in Held(Inputs(c)) : e.key = d.key /\ e.seq < d.seq => Dropped(c, e)

Rising(outs) ==
    \A j, k \in DOMAIN outs : j < k => \A e \in outs[j], d \in outs[k] : e.key < d.key

\* What the outputs hold after i entries: those that are not left out, in order
\* of their keys and of those that are still to come.
Merged(c, n, out, i) ==
    LET seq == Sorted(Held(Inputs(c)))
    IN  /\ out.outputs \in Seq(SUBSET Held(Inputs(c))) /\ out.current \subseteq Held(Inputs(c))
        /\ \A j \in DOMAIN out.outputs : out.outputs[j] # {}
        /\ \A e \in Held(Inputs(c)) :
              (e \in out.current \/ \E j \in DOMAIN out.outputs : e \in out.outputs[j])
                 <=> ~Dropped(c, e) /\ \E m \in 1 .. i : e = seq[m]
        /\ Rising(out.outputs)
        /\ \A j \in DOMAIN out.outputs : \A e \in out.outputs[j] :
              /\ \A d \in out.current : e.key < d.key
              /\ \A m \in i + 1 .. n : ~Dropped(c, seq[m]) => e.key < seq[m].key

\* A turn keeps Merged.
LEMMA TurnMerges ==
  ASSUME Types, NEW c, Held(Inputs(c)) \subseteq Wrote, Unsplit(c), NEW out,
         NEW n \in Nat, n = Cardinality(Held(Inputs(c))),
         NEW i \in Nat, i + 1 <= n, Merged(c, n, out, i)
  PROVE  Merged(c, n, Merge(c, out, Sorted(Held(Inputs(c)))[i + 1]), i + 1)
<1> DEFINE In == Held(Inputs(c))
           seq == Sorted(In)
           e == seq[i + 1]
           new == Merge(c, out, e)
<1>1. /\ seq \in [1 .. n -> In]
      /\ \A p, q \in 1 .. n : p < q => Place(seq[p]) < Place(seq[q])
  BY SortedIs
<1>2. \A p, q \in 1 .. n : p < q => \/ seq[p].key < seq[q].key
                                    \/ seq[p].key = seq[q].key /\ seq[p].seq > seq[q].seq
  <2> HIDE DEF seq
  <2>1. \A p \in 1 .. n : seq[p] \in Wrote
    BY <1>1
  <2> QED
    BY <1>1, <2>1, PlaceIs
<1>3. \A x \in In : x.key \in Nat /\ x.seq \in Nat
  <2>1. Keys \subseteq Nat
    BY TablesAssumption DEF Keys
  <2>2. last \in Nat /\ \A x \in Wrote : x.key \in Keys /\ x.seq \in 1 .. last
    BY WroteIs
  <2>3. ASSUME NEW x \in In
        PROVE  x.key \in Nat /\ x.seq \in Nat
    <3>1. x \in Wrote
      OBVIOUS
    <3>2. x.key \in Keys /\ x.seq \in 1 .. last
      BY <3>1, <2>2
    <3>3. \A s \in 1 .. last : s \in Nat
      BY <2>2
    <3> QED
      BY <3>2, <3>3, <2>1, Zenon
  <2> QED
    BY <2>3
<1>4. Unsplit(c) <=> (SplitsKeys => \A x, d \in In : x.key = d.key /\ x.seq < d.seq => Dropped(c, x))
  BY DEF Unsplit
<1>5. /\ out.outputs \in Seq(SUBSET In) /\ out.current \subseteq In
      /\ \A j \in DOMAIN out.outputs : out.outputs[j] # {}
      /\ \A x \in In :
              (x \in out.current \/ \E j \in DOMAIN out.outputs : x \in out.outputs[j])
                 <=> ~Dropped(c, x) /\ \E m \in 1 .. i : x = seq[m]
      /\ Rising(out.outputs)
      /\ \A j \in DOMAIN out.outputs : \A x \in out.outputs[j] :
              /\ \A d \in out.current : x.key < d.key
              /\ \A m \in i + 1 .. n : ~Dropped(c, seq[m]) => x.key < seq[m].key
  BY DEF Merged
<1>6. PICK ends \in BOOLEAN :
           /\ ends => /\ out.current # {}
                      /\ SplitsKeys \/ \A d \in out.current : d.key # e.key
           /\ new.outputs = (IF ends THEN Append(out.outputs, out.current)
                             ELSE out.outputs)
           /\ new.current = (IF ends THEN {} ELSE out.current)
                            \cup (IF Dropped(c, e) THEN {} ELSE {e})
  <2> HIDE DEF e
  <2> QED
    BY MergeIs
<1>7. e \in In /\ i + 1 \in 1 .. n
  BY <1>1
<1> SUFFICES /\ new.outputs \in Seq(SUBSET In) /\ new.current \subseteq In
             /\ \A j \in DOMAIN new.outputs : new.outputs[j] # {}
             /\ \A x \in In :
                  (x \in new.current \/ \E j \in DOMAIN new.outputs : x \in new.outputs[j])
                     <=> ~Dropped(c, x) /\ \E m \in 1 .. i + 1 : x = seq[m]
             /\ Rising(new.outputs)
             /\ \A j \in DOMAIN new.outputs : \A x \in new.outputs[j] :
                  /\ \A d \in new.current : x.key < d.key
                  /\ \A m \in i + 1 + 1 .. n : ~Dropped(c, seq[m]) => x.key < seq[m].key
  BY DEF Merged
<1> HIDE DEF new, In, seq
<1>8. \A x \in In : (\E m \in 1 .. i + 1 : x = seq[m]) <=> x = e \/ \E m \in 1 .. i : x = seq[m]
  <2>1. \A m \in 1 .. i + 1 : m = i + 1 \/ m \in 1 .. i
    OBVIOUS
  <2>2. i + 1 \in 1 .. i + 1 /\ \A m \in 1 .. i : m \in 1 .. i + 1
    OBVIOUS
  <2> QED
    BY <2>1, <2>2
<1>9. \A m \in i + 1 + 1 .. n : m \in i + 1 .. n /\ m \in 1 .. n
  OBVIOUS
<1> HIDE DEF e
<1>10. CASE ~ends
  <2>1. new.outputs = out.outputs
        /\ new.current = out.current \cup (IF Dropped(c, e) THEN {} ELSE {e})
    BY <1>6, <1>10
  <2>2. new.outputs \in Seq(SUBSET In) /\ new.current \subseteq In
    BY <2>1, <1>5, <1>7
  <2>3. \A x \in In :
          (x \in new.current \/ \E j \in DOMAIN new.outputs : x \in new.outputs[j])
             <=> ~Dropped(c, x) /\ \E m \in 1 .. i + 1 : x = seq[m]
    <3>1. \A x : x \in new.current <=> x \in out.current \/ (x = e /\ ~Dropped(c, e))
      BY <2>1
    <3> QED
      BY <3>1, <2>1, <1>5, <1>8
  <2>4. ASSUME NEW j \in DOMAIN new.outputs, NEW x \in new.outputs[j]
        PROVE  /\ \A d \in new.current : x.key < d.key
               /\ \A m \in i + 1 + 1 .. n : ~Dropped(c, seq[m]) => x.key < seq[m].key
    <3>1. j \in DOMAIN out.outputs /\ x \in out.outputs[j]
      BY <2>1
    <3>2. \A m \in i + 1 .. n : ~Dropped(c, seq[m]) => x.key < seq[m].key
      BY <3>1, <1>5
    <3>3. ~Dropped(c, e) => x.key < e.key
      <4>1. i + 1 \in i + 1 .. n
        BY <1>7
      <4> QED
        BY <4>1, <3>2 DEF e
    <3>4. \A d \in new.current : x.key < d.key
      BY <2>1, <3>1, <3>3, <1>5
    <3> QED
      BY <3>2, <3>4, <1>9
  <2> QED
    BY <2>1, <2>2, <2>3, <2>4, <1>5
<1>11. CASE ends
  <2>1. new.outputs = Append(out.outputs, out.current)
        /\ new.current = (IF Dropped(c, e) THEN {} ELSE {e})
    BY <1>6, <1>11
  <2> DEFINE N == Len(out.outputs)
  <2>2. /\ N \in Nat /\ DOMAIN out.outputs = 1 .. N /\ DOMAIN new.outputs = 1 .. N + 1
        /\ \A j \in 1 .. N : new.outputs[j] = out.outputs[j]
        /\ new.outputs[N + 1] = out.current
        /\ new.outputs \in Seq(SUBSET In)
    BY <2>1, <1>5
  <2> HIDE DEF N
  <2>3. \A j \in 1 .. N + 1 : j \in 1 .. N \/ j = N + 1
    BY <2>2
  <2>31. N + 1 \in 1 .. N + 1 /\ \A j \in 1 .. N : j \in 1 .. N + 1 /\ j < N + 1
    BY <2>2
  <2>4. new.current \subseteq In
    BY <2>1, <1>7
  <2>5. \A x \in In :
          (x \in new.current \/ \E j \in DOMAIN new.outputs : x \in new.outputs[j])
             <=> ~Dropped(c, x) /\ \E m \in 1 .. i + 1 : x = seq[m]
    <3>1. \A x : x \in new.current <=> x = e /\ ~Dropped(c, e)
      BY <2>1
    <3>2. \A x : (\E j \in DOMAIN new.outputs : x \in new.outputs[j])
                   <=> x \in out.current \/ \E j \in DOMAIN out.outputs : x \in out.outputs[j]
      BY <2>2, <2>3, <2>31
    <3> QED
      BY <3>1, <3>2, <1>5, <1>8
  <2>6. ASSUME NEW x \in out.current, NEW m \in i + 1 .. n, ~Dropped(c, seq[m])
        PROVE  x.key < seq[m].key
    <3>1. x \in In
      BY <1>5
    <3>2. PICK p \in 1 .. i : x = seq[p]
      BY <3>1, <1>5
    <3>3. p \in 1 .. n /\ m \in 1 .. n /\ p < m /\ p < i + 1 /\ i + 1 \in 1 .. n
      BY <1>7
    <3>4. seq[p] \in In /\ seq[m] \in In /\ e \in In /\ e = seq[i + 1]
      BY <3>3, <1>1, <1>7 DEF e
    <3>5. x.key < seq[m].key \/ (x.key = seq[m].key /\ x.seq > seq[m].seq)
      BY <3>2, <3>3, <1>2
    <3>6. CASE SplitsKeys
      <4>1. ~(x.key = seq[m].key /\ seq[m].seq < x.seq)
        BY <3>6, <3>1, <3>4, <2>6, <1>4
      <4> QED
        BY <4>1, <3>5, <3>1, <3>4, <1>3
    <3>7. CASE ~SplitsKeys
      <4>1. x.key # e.key
        BY <3>7, <1>6, <1>11
      <4>2. x.key < e.key
        BY <4>1, <3>2, <3>3, <3>4, <1>2
      <4>3. e.key <= seq[m].key
        <5>1. CASE m = i + 1
          BY <5>1, <3>4, <1>3
        <5>2. CASE i + 1 < m
          <6>1. e.key < seq[m].key \/ e.key = seq[m].key
            BY <5>2, <3>3, <3>4, <1>2
          <6> QED
            BY <6>1, <3>4, <1>3
        <5> QED
          BY <5>1, <5>2
      <4> QED
        BY <4>2, <4>3, <3>1, <3>4, <1>3
    <3> QED
      BY <3>6, <3>7
  <2>7. ~Dropped(c, e) => \A j \in DOMAIN new.outputs : \A x \in new.outputs[j] : x.key < e.key
    <3>1. i + 1 \in i + 1 .. n
      BY <1>7
    <3>2. ~Dropped(c, e) => \A x \in out.current : x.key < e.key
      BY <3>1, <2>6 DEF e
    <3>3. ~Dropped(c, e) => \A j \in DOMAIN out.outputs : \A x \in out.outputs[j] : x.key < e.key
      BY <3>1, <1>5 DEF e
    <3> QED
      BY <3>2, <3>3, <2>2, <2>3
  <2>8. ASSUME NEW j \in DOMAIN new.outputs, NEW x \in new.outputs[j]
        PROVE  /\ \A d \in new.current : x.key < d.key
               /\ \A m \in i + 1 + 1 .. n : ~Dropped(c, seq[m]) => x.key < seq[m].key
    <3>1. CASE j = N + 1
      BY <3>1, <2>1, <2>2, <2>6, <2>7, <1>9
    <3>2. CASE j \in 1 .. N
      BY <3>2, <2>1, <2>2, <2>7, <1>5, <1>9
    <3> QED
      BY <3>1, <3>2, <2>2, <2>3
  <2>9. Rising(new.outputs)
    <3> SUFFICES ASSUME NEW j \in 1 .. N + 1, NEW k \in 1 .. N + 1, j < k,
                        NEW x \in new.outputs[j], NEW d \in new.outputs[k]
                 PROVE  x.key < d.key
      BY <2>2 DEF Rising
    <3>1. j \in 1 .. N
      BY <2>2
    <3>2. CASE k \in 1 .. N
      BY <3>1, <3>2, <2>2, <1>5 DEF Rising
    <3>3. CASE k = N + 1
      BY <3>1, <3>3, <2>2, <1>5
    <3> QED
      BY <3>2, <3>3, <2>3
  <2>10. \A j \in DOMAIN new.outputs : new.outputs[j] # {}
    BY <2>2, <2>3, <1>5, <1>6, <1>11
  <2> QED
    BY <2>2, <2>4, <2>5, <2>8, <2>9, <2>10
<1> QED
  BY <1>10, <1>11

\* The tables that a compaction makes: what it does not drop, each in order of
\* the user keys, of which no two tables share one.
LEMMA OutsIs ==
  ASSUME Types, NEW c, Held(Inputs(c)) \subseteq Wrote, Unsplit(c)
  PROVE  LET outs == DoCompactionWork(c) IN
         /\ \A j \in DOMAIN outs : outs[j] # {} /\ outs[j] \subseteq Held(Inputs(c))
         /\ \A e \in Held(Inputs(c)) :
               (\E j \in DOMAIN outs : e \in outs[j]) <=> ~Dropped(c, e)
         /\ \A j, k \in DOMAIN outs :
               j # k => \A e \in outs[j], d \in outs[k] : e.key # d.key
         /\ Rising(outs)
         /\ \E n \in Nat : DOMAIN outs = 1 .. n
<1> DEFINE In == Held(Inputs(c))
           n == Cardinality(In)
           seq == Sorted(In)
           outs == DoCompactionWork(c)
<1>1. /\ n \in Nat /\ seq \in [1 .. n -> In]
      /\ \A e \in In : \E i \in 1 .. n : seq[i] = e
  BY SortedIs
<1>2. PICK run : /\ Turns(c, n, run)
                 /\ outs = IF run[n].current = {} THEN run[n].outputs
                           ELSE Append(run[n].outputs, run[n].current)
  BY WorkIs
<1> HIDE DEF n, outs
<1>3. /\ run[0] = [outputs |-> <<>>, current |-> {}, passed |-> {},
                   overlapped |-> 0, seen_key |-> FALSE]
      /\ \A i \in 1 .. n : run[i] = Merge(c, run[i - 1], seq[i])
  BY <1>2 DEF Turns
<1> HIDE DEF seq
<1> DEFINE S == {i \in Nat : i <= n => Merged(c, n, run[i], i)}
<1>4. 0 \in S
  <2>1. run[0].outputs = <<>> /\ run[0].current = {}
    BY <1>3
  <2>2. Merged(c, n, run[0], 0)
    BY <2>1 DEF Merged, Rising
  <2> QED
    BY <2>2
<1>5. ASSUME NEW i \in Nat, i \in S
      PROVE  i + 1 \in S
  <2> SUFFICES ASSUME i + 1 <= n
               PROVE  Merged(c, n, run[i + 1], i + 1)
    OBVIOUS
  <2>1. Merged(c, n, run[i], i)
    BY <1>5, <1>1
  <2>2. run[i + 1] = Merge(c, run[i], seq[i + 1])
    <3>1. i + 1 \in 1 .. n /\ i + 1 - 1 = i
      BY <1>1
    <3> QED
      BY <3>1, <1>3
  <2> QED
    BY <2>1, <2>2, <1>1, TurnMerges DEF n, seq
<1>6. n \in S
  <2> HIDE DEF S
  <2> QED
    BY <1>1, <1>4, <1>5, NatSet
<1> DEFINE out == run[n]
<1>7. Merged(c, n, out, n)
  BY <1>6, <1>1
<1> HIDE DEF out
<1>8. /\ out.outputs \in Seq(SUBSET In) /\ out.current \subseteq In
      /\ \A j \in DOMAIN out.outputs : out.outputs[j] # {}
      /\ \A e \in In :
              (e \in out.current \/ \E j \in DOMAIN out.outputs : e \in out.outputs[j])
                 <=> ~Dropped(c, e) /\ \E m \in 1 .. n : e = seq[m]
      /\ Rising(out.outputs)
      /\ \A j \in DOMAIN out.outputs : \A e \in out.outputs[j] :
              \A d \in out.current : e.key < d.key
  BY <1>7 DEF Merged, seq
<1>9. \A e \in In :
         (e \in out.current \/ \E j \in DOMAIN out.outputs : e \in out.outputs[j])
             <=> ~Dropped(c, e)
  BY <1>1, <1>8
<1> HIDE DEF In
<1>10. /\ \A j \in DOMAIN outs : outs[j] # {} /\ outs[j] \subseteq In
       /\ \A e \in In : (\E j \in DOMAIN outs : e \in outs[j]) <=> ~Dropped(c, e)
       /\ Rising(outs)
       /\ \E m \in Nat : DOMAIN outs = 1 .. m
  <2>1. CASE out.current = {}
    <3>1. outs = out.outputs
      BY <2>1, <1>2 DEF out
    <3>2. \A j \in DOMAIN outs : outs[j] \subseteq In
      BY <3>1, <1>8
    <3>3. DOMAIN outs = 1 .. Len(outs) /\ Len(outs) \in Nat
      BY <3>1, <1>8
    <3> QED
      BY <2>1, <3>1, <3>2, <3>3, <1>8, <1>9
  <2>2. CASE out.current # {}
    <3>1. outs = Append(out.outputs, out.current)
      BY <2>2, <1>2 DEF out
    <3> DEFINE N == Len(out.outputs)
    <3>2. /\ N \in Nat /\ DOMAIN out.outputs = 1 .. N /\ DOMAIN outs = 1 .. N + 1
          /\ \A j \in 1 .. N : outs[j] = out.outputs[j]
          /\ outs[N + 1] = out.current
      BY <3>1, <1>8
    <3> HIDE DEF N
    <3>3. N + 1 \in 1 .. N + 1 /\ N + 1 \in Nat
          /\ \A j \in 1 .. N + 1 : j \in 1 .. N \/ j = N + 1
      BY <3>2
    <3>4. \A j \in 1 .. N : j \in 1 .. N + 1
      BY <3>2
    <3>5. \A j \in DOMAIN outs : outs[j] # {} /\ outs[j] \subseteq In
      BY <2>2, <3>2, <3>3, <1>8
    <3>6. \A e \in In : (\E j \in DOMAIN outs : e \in outs[j]) <=> ~Dropped(c, e)
      BY <3>2, <3>3, <3>4, <1>9
    <3>7. Rising(outs)
      <4> SUFFICES ASSUME NEW j \in 1 .. N + 1, NEW k \in 1 .. N + 1, j < k,
                          NEW x \in outs[j], NEW d \in outs[k]
                   PROVE  x.key < d.key
        BY <3>2 DEF Rising
      <4>1. j \in 1 .. N
        BY <3>2
      <4>2. CASE k \in 1 .. N
        BY <4>1, <4>2, <3>2, <1>8 DEF Rising
      <4>3. CASE k = N + 1
        BY <4>1, <4>3, <3>2, <1>8
      <4> QED
        BY <4>2, <4>3, <3>3
    <3> QED
      BY <3>2, <3>3, <3>5, <3>6, <3>7
  <2> QED
    BY <2>1, <2>2
<1>11. ASSUME NEW j \in DOMAIN outs, NEW k \in DOMAIN outs, j # k,
              NEW e \in outs[j], NEW d \in outs[k]
       PROVE  e.key # d.key
  <2>1. e.key \in Nat /\ d.key \in Nat
    <3>1. e \in Wrote /\ d \in Wrote /\ Keys \subseteq Nat
      BY <1>10, TablesAssumption DEF In, Keys
    <3> QED
      BY <3>1, WroteIs
  <2>2. j < k \/ k < j
    BY <1>10, <1>11
  <2> QED
    BY <2>1, <2>2, <1>10 DEF Rising
<1> QED
  BY <1>10, <1>11 DEF outs, In

----------------------------------------------------------------------------
(* Lookups.                                                                *)

\* The shape of tables and entries.
LEMMA Keyeds ==
  ASSUME Types
  PROVE  /\ \A l \in Levels : \A f \in files[l] : Keyed(f) /\ f.entries \subseteq Wrote /\ f.num \in Nat
         /\ 0 \in Levels /\ Keys \subseteq Nat /\ Levels \subseteq Nat
         /\ \A e \in Wrote : e.key \in Nat /\ e.seq \in Nat
<1>1. 0 \in Levels /\ Keys \subseteq Nat /\ Levels \subseteq Nat
  BY TablesAssumption DEF Levels, Keys
<1>2. \A e \in Wrote : e.key \in Keys /\ e.seq \in 1 .. last
  BY WroteIs
<1>3. \A l \in Levels : \A f \in files[l] : f.entries # {} /\ f.entries \subseteq Wrote /\ f.num \in Nat
  BY DEF Types, IsTable
<1>4. \A l \in Levels : \A f \in files[l] : Keyed(f)
  BY <1>2, <1>3 DEF Keyed
<1>5. \A s \in 1 .. last : s \in Nat
  BY WroteIs
<1> QED
  BY <1>1, <1>2, <1>3, <1>4, <1>5, Zenon

\* A search comes back with nothing only where there is nothing.
LEMMA SeekEmpty ==
  ASSUME Types, NEW es, es \subseteq Wrote, NEW k, NEW s
  PROVE  Seek(es, k, s) # {} <=> \E e \in es : e.key = k /\ e.seq <= s
<1> DEFINE T == {e.seq : e \in {d \in es : d.key = k /\ d.seq <= s}}
<1>1. last \in Nat /\ \A e \in es : e.seq \in 1 .. last /\ e.seq \in Nat
  BY WroteIs, Keyeds
<1>2. ASSUME NEW x \in es, x.key = k, x.seq <= s
      PROVE  Seek(es, k, s) # {}
  <2>1. T \in SUBSET Nat /\ T # {} /\ \A t \in T : t <= last
    BY <1>1, <1>2
  <2>2. Max(T) \in T /\ \A t \in T : t <= Max(T)
    <3> HIDE DEF T
    <3> QED
      BY <2>1, <1>1, MaxBounded
  <2>3. PICK e \in es : e.key = k /\ e.seq <= s /\ e.seq = Max(T)
    BY <2>2
  <2>4. \A d \in es : d.key = k /\ d.seq <= s => d.seq <= e.seq
    BY <2>2, <2>3
  <2> QED
    BY <2>3, <2>4 DEF Seek
<1>3. Seek(es, k, s) # {} => \E e \in es : e.key = k /\ e.seq <= s
  BY DEF Seek
<1> QED
  BY <1>2, <1>3

\* What is newer than all the rest of a key answers for the whole.
LEMMA SeekPart ==
  ASSUME Types, NEW es, es \subseteq Wrote, NEW all, es \subseteq all, all \subseteq Wrote,
         NEW k, NEW s, Seek(es, k, s) # {},
         \A e \in es, d \in all \ es : e.key = k /\ d.key = k /\ e.seq <= s /\ d.seq <= s
                                       => d.seq < e.seq
  PROVE  Seek(es, k, s) = Seek(all, k, s)
<1>1. \A e \in all : e.seq \in Nat
  BY Keyeds
<1>2. ASSUME NEW e \in Seek(es, k, s)
      PROVE  e \in Seek(all, k, s)
  <2>1. e \in es /\ e \in all /\ e.key = k /\ e.seq <= s
        /\ \A d \in es : d.key = k /\ d.seq <= s => d.seq <= e.seq
    BY DEF Seek
  <2>2. \A d \in all : d.key = k /\ d.seq <= s => d.seq <= e.seq
    BY <2>1, <1>1
  <2> QED
    BY <2>1, <2>2 DEF Seek
<1>3. ASSUME NEW e \in Seek(all, k, s)
      PROVE  e \in Seek(es, k, s)
  <2>1. e \in all /\ e.key = k /\ e.seq <= s
        /\ \A d \in all : d.key = k /\ d.seq <= s => d.seq <= e.seq
    BY DEF Seek
  <2>2. PICK x \in es : x.key = k /\ x.seq <= s
    BY SeekEmpty
  <2>3. e \in es
    <3>1. x.seq <= e.seq /\ x.seq \in Nat /\ e.seq \in Nat
      BY <2>1, <2>2, <1>1
    <3> QED
      BY <3>1, <2>1, <2>2
  <2> QED
    BY <2>1, <2>3 DEF Seek
<1> QED
  BY <1>2, <1>3

\* The smallest and the largest place of a table are those of two of its entries.
LEMMA PlaceSpan ==
  ASSUME Types, NEW f, f.entries # {}, f.entries \subseteq Wrote
  PROVE  /\ \E e \in f.entries : SmallestPlace(f) = Place(e)
         /\ \E e \in f.entries : LargestPlace(f) = Place(e)
         /\ \A e \in f.entries : SmallestPlace(f) <= Place(e) /\ Place(e) <= LargestPlace(f)
<1> DEFINE T == {Place(e) : e \in f.entries}
           top == Internal(NumKeys, 0)
<1>1. \A e \in f.entries : Place(e) \in Nat /\ e.key \in 1 .. NumKeys /\ e.seq \in 0 .. MaxWrites
  <2>1. \A s \in 1 .. last : s \in 0 .. MaxWrites
    BY WroteIs, TablesAssumption
  <2>2. \A e \in f.entries : e.key \in Keys /\ e.seq \in 1 .. last
    BY WroteIs
  <2> QED
    BY <2>1, <2>2, PlaceIs DEF Keys
<1>2. top \in Nat /\ \A e \in f.entries : Place(e) <= top
  <2>1. NumKeys \in Nat /\ 0 \in 0 .. MaxWrites
    BY TablesAssumption
  <2>2. top \in Nat
    BY <2>1, PlaceOrder
  <2>3. ASSUME NEW e \in f.entries
        PROVE  Place(e) <= top
    <3>1. e.key \in Nat /\ e.seq \in 0 .. MaxWrites /\ (e.key < NumKeys \/ (e.key = NumKeys /\ e.seq >= 0))
      BY <1>1, <2>1
    <3> QED
      BY <3>1, <2>1, PlaceOrder DEF Place
  <2> QED
    BY <2>2, <2>3
<1> HIDE DEF top
<1>3. T \in SUBSET Nat /\ T # {} /\ \A t \in T : t <= top
  BY <1>1, <1>2
<1>4. Min(T) \in T /\ (\A t \in T : Min(T) <= t) /\ Max(T) \in T /\ \A t \in T : t <= Max(T)
  <2> HIDE DEF T
  <2> QED
    BY <1>2, <1>3, MinIs, MaxBounded
<1>5. SmallestPlace(f) = Min(T) /\ LargestPlace(f) = Max(T)
  BY DEF SmallestPlace, LargestPlace
<1> HIDE DEF SmallestPlace, LargestPlace, Place
<1> QED
  BY <1>4, <1>5

\* The search of a level comes to the one table that can have the key.
LEMMA TableForIs ==
  ASSUME Types, LevelsDisjoint, NEW l \in Levels, l # 0,
         NEW k \in Keys, NEW s \in 0 .. MaxWrites,
         NEW f \in files[l], NEW e \in f.entries, e.key = k, e.seq <= s
  PROVE  TableFor(l, k, s) = {f}
<1> DEFINE after == {g \in files[l] : LargestPlace(g) >= Internal(k, s)}
<1>1. \A g \in files[l] : /\ Keyed(g) /\ g.entries # {} /\ g.entries \subseteq Wrote
                          /\ FirstKey(g) \in Nat /\ LastKey(g) \in Nat
                          /\ \A d \in g.entries : FirstKey(g) <= d.key /\ d.key <= LastKey(g)
  BY Keyeds, Span DEF Keyed
<1>2. /\ \A d \in Wrote : d.key \in Nat /\ d.seq \in 0 .. MaxWrites /\ Place(d) \in Nat
      /\ k \in Nat
  <2>1. \A t \in 1 .. last : t \in 0 .. MaxWrites
    BY WroteIs, TablesAssumption
  <2>2. \A d \in Wrote : d.seq \in 1 .. last
    BY WroteIs
  <2> QED
    BY <2>1, <2>2, Keyeds, PlaceIs
<1>3. Internal(k, s) \in Nat /\ Internal(k, s) <= Place(e)
  BY <1>1, <1>2, PlaceOrder DEF Place
<1>4. f \in after
  <2>1. PICK d \in f.entries : LargestPlace(f) = Place(d) /\ Place(e) <= LargestPlace(f)
    BY <1>1, PlaceSpan
  <2>2. Place(d) \in Nat /\ Place(e) \in Nat
    BY <1>1, <1>2
  <2> QED
    BY <2>1, <2>2, <1>3
<1>5. ASSUME NEW g \in after, g # f
      PROVE  SmallestPlace(f) < SmallestPlace(g)
  <2>1. LastKey(g) < FirstKey(f) \/ LastKey(f) < FirstKey(g)
    BY <1>5 DEF LevelsDisjoint
  <2>2. PICK d \in g.entries : LargestPlace(g) = Place(d)
    BY <1>1, PlaceSpan
  <2>3. ~(LastKey(g) < FirstKey(f))
    <3> SUFFICES ASSUME LastKey(g) < FirstKey(f)
                 PROVE  FALSE
      OBVIOUS
    <3>1. d.key < k
      BY <1>1, <1>2, <2>2
    <3>2. Place(d) < Internal(k, s)
      BY <3>1, <1>1, <1>2, <2>2, PlaceOrder DEF Place
    <3> QED
      BY <3>2, <2>2, <1>1, <1>2, <1>3
  <2>4. PICK x \in f.entries : SmallestPlace(f) = Place(x)
    BY <1>1, PlaceSpan
  <2>5. PICK y \in g.entries : SmallestPlace(g) = Place(y)
    BY <1>1, PlaceSpan
  <2>6. x.key < y.key
    BY <1>1, <1>2, <2>1, <2>3
  <2> QED
    BY <2>4, <2>5, <2>6, <1>1, PlaceIs
<1>6. SmallestPlace(f) \in Nat /\ \A g \in after : SmallestPlace(g) \in Nat
  BY <1>1, <1>2, PlaceSpan
<1>7. FirstKey(f) <= k
  BY <1>1
<1>8. TableFor(l, k, s) = {g \in after : (\A h \in after : SmallestPlace(g) <= SmallestPlace(h))
                                         /\ FirstKey(g) <= k}
  BY DEF TableFor
<1> HIDE DEF after
<1>9. \A h \in after : SmallestPlace(f) <= SmallestPlace(h)
  BY <1>5, <1>6
<1>10. ASSUME NEW g \in after, g # f
       PROVE  ~(\A h \in after : SmallestPlace(g) <= SmallestPlace(h))
  BY <1>10, <1>4, <1>5, <1>6
<1> QED
  BY <1>4, <1>7, <1>8, <1>9, <1>10

\* All entries, in memory and in tables, are writes.
LEMMA EverythingIs ==
  ASSUME Types
  PROVE  /\ Everything \subseteq Wrote
         /\ mem \subseteq Everything
         /\ \A l \in Levels : \A f \in files[l] : f.entries \subseteq Everything
         /\ \A e \in Everything : e \in mem \/ \E l \in Levels : \E f \in files[l] : e \in f.entries
<1>1. mem \subseteq Wrote /\ \A l \in Levels : \A f \in files[l] : f.entries \subseteq Wrote
  BY DEF Types, IsTable
<1> QED
  BY <1>1 DEF Everything, Held

\* A lookup finds what is newest of all that is left of a key.
LEMMA GetIs ==
  ASSUME Types, LevelsDisjoint, NewerAbove, MemNewest, NEW k \in Keys, NEW s \in 0 .. MaxWrites
  PROVE  Get(k, s) = Seek(Everything, k, s)
<1> DEFINE Hit(e) == e.key = k /\ e.seq <= s
<1>1. /\ \A l \in Levels : \A f \in files[l] : Keyed(f) /\ f.entries \subseteq Wrote /\ f.num \in Nat
      /\ 0 \in Levels /\ Keys \subseteq Nat /\ Levels \subseteq Nat
      /\ \A e \in Wrote : e.key \in Nat /\ e.seq \in Nat
  BY Keyeds
<1>2. mem \subseteq Wrote
  BY DEF Types
<1>3. CASE Seek(mem, k, s) # {}
  <2>1. \A e \in mem, d \in Everything \ mem : e.key = k /\ d.key = k => d.seq < e.seq
    <3>1. ASSUME NEW e \in mem, NEW d \in Everything \ mem, e.key = k, d.key = k
          PROVE  d.seq < e.seq
      <4>1. PICK l \in Levels : \E f \in files[l] : d \in f.entries
        BY EverythingIs
      <4>2. PICK f \in files[l] : d \in f.entries
        BY <4>1
      <4>3. e.seq > d.seq
        BY <4>2, <3>1 DEF MemNewest, Newer
      <4> QED
        BY <4>2, <4>3, <1>1, <1>2
    <3> QED
      BY <3>1
  <2>2. Seek(mem, k, s) = Seek(Everything, k, s)
    BY <2>1, <1>2, <1>3, EverythingIs, SeekPart
  <2> QED
    BY <2>2, <1>3 DEF Get
<1>4. CASE Seek(mem, k, s) = {}
  <2> DEFINE Has(f) == Seek(f.entries, k, s) # {}
             recent == {f \in files[0] : Touches(f, k, k) /\ Has(f)}
             lower == {l \in Levels \ {0} : \E f \in TableFor(l, k, s) : Has(f)}
  <2>1. Get(k, s) = VersionGet(k, s) /\ \A e \in mem : ~Hit(e)
    BY <1>2, <1>4, SeekEmpty DEF Get
  <2>2. VersionGet(k, s) =
          IF recent # {}
          THEN UNION {Seek(f.entries, k, s) : f \in {g \in recent : \A h \in recent : h.num <= g.num}}
          ELSE IF lower # {}
               THEN UNION {Seek(f.entries, k, s) : f \in TableFor(Min(lower), k, s)}
               ELSE {}
    BY DEF VersionGet
  <2>3. \A l \in Levels : \A f \in files[l] : Has(f) <=> \E e \in f.entries : Hit(e)
    BY <1>1, SeekEmpty
  <2>4. \A f \in files[0] : f \in recent <=> \E e \in f.entries : Hit(e)
    <3>1. ASSUME NEW f \in files[0], NEW e \in f.entries, e.key = k
          PROVE  Touches(f, k, k)
      BY <3>1, <1>1, Span DEF Touches
    <3> QED
      BY <3>1, <2>3, <1>1
  <2>5. CASE recent # {}
    <3>1. Held(files[0]) \subseteq Wrote
      BY <1>1 DEF Held
    <3>2. \E e \in Held(files[0]) : Hit(e)
      BY <2>4, <2>5 DEF Held
    <3>3. PICK x \in Seek(Held(files[0]), k, s) : TRUE
      BY <3>1, <3>2, SeekEmpty
    <3>4. /\ x \in Held(files[0]) /\ Hit(x)
          /\ \A d \in Held(files[0]) : Hit(d) => d.seq <= x.seq
      BY <3>3 DEF Seek
    <3>5. PICK f \in files[0] : x \in f.entries
      BY <3>4 DEF Held
    <3>6. f \in recent
      BY <3>4, <3>5, <2>4
    <3>7. ASSUME NEW h \in recent
          PROVE  h.num <= f.num
      <4>1. h \in files[0] /\ f \in files[0] /\ h.num \in Nat /\ f.num \in Nat
        BY <1>1
      <4>2. PICK d \in h.entries : Hit(d)
        BY <2>4
      <4>3. d.seq <= x.seq /\ d.seq \in Nat /\ x.seq \in Nat
        <5>1. d \in Held(files[0]) /\ d \in Wrote /\ x \in Wrote
          BY <4>1, <4>2, <3>1, <3>4 DEF Held
        <5> QED
          BY <5>1, <4>2, <3>4, <1>1
      <4>4. ~(h.num > f.num)
        <5> SUFFICES ASSUME h.num > f.num
                     PROVE  FALSE
          OBVIOUS
        <5>1. d.seq > x.seq
          BY <1>1, <4>1, <4>2, <3>4, <3>5 DEF NewerAbove
        <5> QED
          BY <5>1, <4>3
      <4> QED
        BY <4>1, <4>4
    <3>8. {g \in recent : \A h \in recent : h.num <= g.num} = {f}
      <4>1. ASSUME NEW g \in recent, \A h \in recent : h.num <= g.num
            PROVE  g = f
        <5>1. g.num <= f.num /\ f.num <= g.num /\ g \in files[0]
          BY <4>1, <3>6, <3>7
        <5>2. g.num \in Nat /\ f.num \in Nat
          BY <5>1, <1>1
        <5> QED
          BY <5>1, <5>2 DEF Types
      <4> QED
        BY <4>1, <3>6, <3>7
    <3>9. Get(k, s) = Seek(f.entries, k, s)
      <4> DEFINE newest == {g \in recent : \A h \in recent : h.num <= g.num}
      <4>1. Get(k, s) = UNION {Seek(g.entries, k, s) : g \in newest}
        BY <2>1, <2>2, <2>5
      <4>2. newest = {f}
        BY <3>8
      <4> HIDE DEF newest
      <4>3. UNION {Seek(g.entries, k, s) : g \in {f}} = Seek(f.entries, k, s)
        OBVIOUS
      <4> QED
        BY <4>1, <4>2, <4>3, Zenon
    <3> HIDE DEF recent, lower
    <3>10. ASSUME NEW e \in f.entries, NEW d \in Everything \ f.entries, Hit(e), Hit(d)
           PROVE  d.seq < e.seq
      <4>1. PICK l \in Levels : \E g \in files[l] : d \in g.entries
        BY <3>10, <2>1, EverythingIs
      <4>2. PICK g \in files[l] : d \in g.entries
        BY <4>1
      <4>3. e.seq \in Nat /\ d.seq \in Nat
        BY <1>1, <4>2
      <4>4. CASE l # 0
        <5>1. 0 < l
          BY <4>4, <1>1
        <5>2. e.seq > d.seq
          BY <5>1, <1>1, <4>2, <3>10 DEF NewerAbove
        <5> QED
          BY <5>2, <4>3
      <4>5. CASE l = 0
        <5>1. g \in recent /\ g # f
          BY <4>2, <4>5, <3>10, <2>4
        <5>2. g.num <= f.num /\ g.num # f.num /\ g.num \in Nat /\ f.num \in Nat
          BY <5>1, <4>5, <3>7, <1>1 DEF Types
        <5>3. e.seq > d.seq
          <6>1. f.num > g.num
            BY <5>2
          <6> QED
            BY <6>1, <1>1, <4>2, <4>5, <3>10 DEF NewerAbove
        <5> QED
          BY <5>3, <4>3
      <4> QED
        BY <4>4, <4>5
    <3>11. Seek(f.entries, k, s) # {}
      BY <3>4, <3>5, <2>3, <1>1
    <3>12. Seek(f.entries, k, s) = Seek(Everything, k, s)
      BY <3>10, <3>11, <1>1, EverythingIs, SeekPart
    <3> QED
      BY <3>9, <3>12
  <2>6. CASE recent = {}
    <3>1. \A f \in files[0] : \A e \in f.entries : ~Hit(e)
      BY <2>4, <2>6
    <3>2. \A l \in Levels \ {0} : \A f \in files[l] :
             (\E e \in f.entries : Hit(e)) => TableFor(l, k, s) = {f} /\ l \in lower
      <4>1. ASSUME NEW l \in Levels \ {0}, NEW f \in files[l], NEW e \in f.entries, Hit(e)
            PROVE  TableFor(l, k, s) = {f} /\ Has(f)
        BY <4>1, TableForIs, <2>3
      <4> QED
        BY <4>1
    <3>3. \A l \in lower : \E f \in files[l] : TableFor(l, k, s) = {f} /\ Has(f)
      <4>1. ASSUME NEW l \in lower
            PROVE  \E f \in files[l] : TableFor(l, k, s) = {f} /\ Has(f)
        <5>1. PICK f \in TableFor(l, k, s) : Has(f)
          OBVIOUS
        <5>2. f \in files[l]
          BY DEF TableFor
        <5> QED
          BY <5>1, <5>2, <3>2, <2>3
      <4> QED
        BY <4>1
    <3>4. lower \in SUBSET Nat /\ lower \subseteq Levels \ {0}
      BY <1>1
    <3> HIDE DEF lower, recent
    <3>5. CASE lower = {}
      <4>1. \A e \in Everything : ~Hit(e)
        <5>1. ASSUME NEW e \in Everything, Hit(e)
              PROVE  FALSE
          <6>1. PICK l \in Levels : \E f \in files[l] : e \in f.entries
            BY <5>1, <2>1, EverythingIs
          <6> QED
            BY <6>1, <5>1, <3>1, <3>2, <3>5
        <5> QED
          BY <5>1
      <4>2. Seek(Everything, k, s) = {}
        BY <4>1 DEF Seek
      <4> QED
        BY <4>2, <2>1, <2>2, <2>6, <3>5
    <3>6. CASE lower # {}
      <4> DEFINE m == Min(lower)
      <4>1. m \in lower /\ \A l \in lower : m <= l
        BY <3>4, <3>6, MinIs
      <4> HIDE DEF m
      <4>2. PICK f \in files[m] : TableFor(m, k, s) = {f} /\ Has(f)
        BY <4>1, <3>3
      <4>3. Get(k, s) = Seek(f.entries, k, s)
        BY <4>2, <3>6, <2>1, <2>2, <2>6 DEF m
      <4>4. m \in Levels /\ m # 0 /\ m \in Nat
        BY <4>1, <3>4
      <4>5. ASSUME NEW e \in f.entries, NEW d \in Everything \ f.entries, Hit(e), Hit(d)
            PROVE  d.seq < e.seq
        <5>1. PICK l \in Levels : \E g \in files[l] : d \in g.entries
          BY <4>5, <2>1, EverythingIs
        <5>2. PICK g \in files[l] : d \in g.entries
          BY <5>1
        <5>3. e.seq \in Nat /\ d.seq \in Nat
          BY <1>1, <5>2, <4>4
        <5>4. l # 0 /\ l \in lower
          BY <5>2, <4>5, <3>1, <3>2
        <5>5. l # m
          <6> SUFFICES ASSUME l = m
                       PROVE  FALSE
            OBVIOUS
          <6>1. TableFor(l, k, s) = {g}
            BY <5>2, <5>4, <4>5, <3>2
          <6> QED
            BY <6>1, <4>2, <4>5, <5>2
        <5>6. m < l
          BY <5>4, <5>5, <4>1, <4>4, <1>1
        <5>7. e.seq > d.seq
          BY <5>6, <4>4, <5>2, <4>5 DEF NewerAbove
        <5> QED
          BY <5>7, <5>3
      <4>6. Seek(f.entries, k, s) = Seek(Everything, k, s)
        BY <4>2, <4>4, <4>5, <1>1, EverythingIs, SeekPart
      <4> QED
        BY <4>3, <4>6
    <3> QED
      BY <3>5, <3>6
  <2> QED
    BY <2>5, <2>6
<1> QED
  BY <1>3, <1>4

\* A lookup finds the last write: by GetIs it finds what is newest of what is left,
\* and by Visible this is the last write, or a deletion of which nothing is left.
LEMMA ReadsFollow ==
  ASSUME Types, LevelsDisjoint, NewerAbove, MemNewest, Visible
  PROVE  ReadsAgree
<1> SUFFICES ASSUME NEW k \in Keys, NEW s \in snaps \union {last}
             PROVE  {e.seq : e \in {g \in Get(k, s) : g.kind = "value"}} = Said(k, s)
  BY DEF ReadsAgree
<1>1. /\ last \in Nat /\ last <= MaxWrites /\ s \in 0 .. last /\ s \in 0 .. MaxWrites
      /\ s \in Shown
  <2>1. last \in Nat /\ last <= MaxWrites /\ MaxWrites \in Nat
    BY WroteIs, TablesAssumption
  <2>2. \A i \in 1 .. last : i \in 0 .. last /\ i \in 0 .. MaxWrites
    BY <2>1
  <2>3. snaps \subseteq 1 .. last
    BY DEF Types
  <2>4. last \in 0 .. last /\ last \in 0 .. MaxWrites
    BY <2>1
  <2> QED
    BY <2>1, <2>2, <2>3, <2>4 DEF Shown
<1>2. Get(k, s) = Seek(Everything, k, s)
  BY <1>1, GetIs
<1> DEFINE ws == {i \in 1 .. s : written[i].key = k}
<1>3. /\ \A e \in Everything : e.seq \in 1 .. last /\ e = Entry(e.seq)
      /\ \A i \in 1 .. last : /\ Entry(i).seq = i /\ Entry(i).key = written[i].key
                              /\ Entry(i).kind = written[i].kind
  BY WroteIs, EverythingIs
<1>4. ASSUME NEW i \in ws, \A j \in ws : j <= i
      PROVE  \/ Entry(i) \in Everything
             \/ /\ written[i].kind = "deletion"
                /\ \A e \in Everything : e.key = k => e.seq > i
  <2>1. i \in 1 .. last /\ i <= s /\ written[i].key = k
    BY <1>1
  <2>2. \A j \in i + 1 .. s : written[j].key # written[i].key
    <3>1. \A j \in i + 1 .. s : j \in 1 .. s /\ ~(j <= i)
      BY <2>1, <1>1
    <3> QED
      BY <3>1, <2>1, <1>4
  <2> QED
    BY <2>1, <2>2, <1>1 DEF Visible
<1>5. ASSUME NEW e \in Get(k, s), e.kind = "value"
      PROVE  e.seq \in Said(k, s)
  <2>1. /\ e \in Everything /\ e.key = k /\ e.seq <= s
        /\ \A d \in Everything : d.key = k /\ d.seq <= s => d.seq <= e.seq
    BY <1>2, <1>5 DEF Seek
  <2>2. e.seq \in 1 .. last /\ e.seq \in ws /\ written[e.seq].kind = "value"
    <3>1. e.seq \in 1 .. last /\ e = Entry(e.seq) /\ e.seq \in 1 .. s
      BY <2>1, <1>1, <1>3
    <3>2. written[e.seq].key = e.key /\ written[e.seq].kind = e.kind
      BY <3>1, <1>3
    <3> QED
      BY <3>1, <3>2, <2>1, <1>5
  <2>3. ws \in SUBSET Nat /\ ws # {} /\ s \in Nat /\ \A j \in ws : j <= s
    BY <2>2, <1>1
  <2>4. Max(ws) \in ws /\ \A j \in ws : j <= Max(ws)
    <3> HIDE DEF ws
    <3> QED
      BY <2>3, MaxBounded
  <2> DEFINE i == Max(ws)
  <2> HIDE DEF i
  <2>5. i \in ws /\ (\A j \in ws : j <= i) /\ i \in 1 .. last /\ i <= s /\ written[i].key = k
    <3>1. i \in ws /\ \A j \in ws : j <= i
      BY <2>4 DEF i
    <3> QED
      BY <3>1, <1>1
  <2>6. e.seq <= i
    BY <2>2, <2>5
  <2>7. i <= e.seq
    <3>1. CASE Entry(i) \in Everything
      BY <3>1, <2>1, <2>5, <1>3
    <3>2. CASE \A d \in Everything : d.key = k => d.seq > i
      BY <3>2, <2>1, <2>2, <2>5
    <3> QED
      BY <3>1, <3>2, <2>5, <1>4
  <2>8. e.seq = i
    BY <2>2, <2>5, <2>6, <2>7
  <2> QED
    BY <2>2, <2>5, <2>8 DEF Said
<1>6. ASSUME NEW i \in Said(k, s)
      PROVE  \E e \in Get(k, s) : e.kind = "value" /\ e.seq = i
  <2>1. i \in ws /\ (\A j \in ws : j <= i) /\ written[i].kind = "value"
    BY DEF Said
  <2>2. i \in 1 .. last /\ i <= s /\ written[i].key = k
    BY <2>1, <1>1
  <2>3. Entry(i) \in Everything
    BY <2>1, <1>4
  <2>4. \A d \in Everything : d.key = k /\ d.seq <= s => d.seq <= i
    <3>1. ASSUME NEW d \in Everything, d.key = k, d.seq <= s
          PROVE  d.seq \in ws
      <4>1. d.seq \in 1 .. last /\ d = Entry(d.seq)
        BY <1>3
      <4>2. d.seq \in 1 .. s /\ written[d.seq].key = k
        BY <4>1, <3>1, <1>1, <1>3
      <4> QED
        BY <4>2
    <3> QED
      BY <3>1, <2>1
  <2>5. Entry(i) \in Seek(Everything, k, s)
    BY <2>2, <2>3, <2>4, <1>3 DEF Seek
  <2> QED
    BY <2>1, <2>2, <2>5, <1>2, <1>3
<1> QED
  BY <1>5, <1>6

\* One range that all of some tables touch, and these tables, leave no key out.
LEMMA Grow ==
  ASSUME NEW fs, \A f \in fs : Keyed(f), NEW lo \in Keys, NEW hi \in Keys, lo <= hi,
         \A f \in fs : Touches(f, lo, hi),
         NEW k \in Keys,
         lo <= k \/ \E f \in fs : FirstKey(f) <= k,
         k <= hi \/ \E f \in fs : k <= LastKey(f)
  PROVE  (lo <= k /\ k <= hi) \/ \E f \in fs : Touches(f, k, k)
<1>1. \A f \in fs : FirstKey(f) \in Nat /\ LastKey(f) \in Nat
  BY Span, TablesAssumption DEF Keys
<1>2. lo \in Nat /\ hi \in Nat /\ k \in Nat
  BY TablesAssumption DEF Keys
<1>3. CASE k < lo
  BY <1>1, <1>2, <1>3 DEF Touches
<1>4. CASE k > hi
  BY <1>1, <1>2, <1>4 DEF Touches
<1> QED
  BY <1>2, <1>3, <1>4

\* The tables of a level that a compaction may take: no other of the level has a
\* key of theirs, and with those of the next level that they touch they leave no
\* key out.
TakenFrom(level, fs) ==
    /\ fs # {} /\ fs \subseteq files[level]
    /\ \A f \in files[level] \ fs, g \in fs : \A e \in f.entries, d \in g.entries : e.key # d.key
    /\ \A k \in Keys : RangeOf(fs)[1] <= k /\ k <= RangeOf(fs)[2] =>
          \/ \E f \in fs : Touches(f, k, k)
          \/ \E f \in files[level + 1] : /\ Touches(f, RangeOf(fs)[1], RangeOf(fs)[2])
                                         /\ Touches(f, k, k)

Touched(level, fs) == {g \in files[level] : Touches(g, RangeOf(fs)[1], RangeOf(fs)[2])}

\* What GetOverlappingInputs finds for a range that is left no key out of.
LEMMA OverlapTaken ==
  ASSUME Types, LevelsDisjoint, NEW level \in 0 .. NumLevels - 2,
         NEW lo \in Keys, NEW hi \in Keys, lo <= hi,
         NEW f0 \in files[level], Touches(f0, lo, hi),
         LET O == GetOverlappingInputs(level, lo, hi) IN
            \A k \in Keys : lo <= k /\ k <= hi =>
              (\E f \in O : Touches(f, k, k)) \/ (\E f \in Touched(level + 1, O) : Touches(f, k, k))
  PROVE  LET O == GetOverlappingInputs(level, lo, hi) IN
         /\ TakenFrom(level, O)
         /\ \A f \in files[level] : Touches(f, lo, hi) => f \in O
<1> DEFINE O == GetOverlappingInputs(level, lo, hi)
<1>1. level \in Levels /\ level \in Nat /\ Keys \subseteq Nat
  BY TablesAssumption DEF Levels, Keys
<1>2. \A f \in files[level] : /\ Keyed(f) /\ FirstKey(f) \in Nat /\ LastKey(f) \in Nat
                              /\ \A e \in f.entries : /\ e.key \in Nat
                                                      /\ FirstKey(f) <= e.key /\ e.key <= LastKey(f)
  BY <1>1, Keyeds, Span DEF Keyed
<1>3. PICK a, b \in Keys :
           /\ a <= lo /\ hi <= b
           /\ O = {f \in files[level] : Touches(f, a, b)}
           /\ \A k \in Keys : a <= k /\ k <= b =>
                 \/ lo <= k /\ k <= hi
                 \/ \E f \in O : Touches(f, k, k)
           /\ level = 0 => \A f \in O : a <= FirstKey(f) /\ LastKey(f) <= b
           /\ level > 0 => a = lo /\ b = hi
  <2>1. IsFiniteSet(files[level])
    BY <1>1 DEF Types
  <2> HIDE DEF O
  <2> QED
    BY <2>1, <1>1, <1>2, OverlapIs DEF O
<1>4. \A k \in Keys : lo <= k /\ k <= hi =>
        (\E f \in O : Touches(f, k, k)) \/ (\E f \in Touched(level + 1, O) : Touches(f, k, k))
  OBVIOUS
<1> HIDE DEF O
<1>5. \A f \in files[level] : Touches(f, lo, hi) => f \in O
  <2>1. ASSUME NEW f \in files[level], Touches(f, lo, hi)
        PROVE  Touches(f, a, b)
    BY <2>1, <1>1, <1>2, <1>3 DEF Touches
  <2> QED
    BY <2>1, <1>3
<1>6. O # {} /\ O \subseteq files[level] /\ \A f \in O : Keyed(f) /\ Touches(f, a, b)
  BY <1>2, <1>3, <1>5
<1>7. ASSUME NEW f \in files[level] \ O, NEW g \in O, NEW e \in f.entries, NEW d \in g.entries
      PROVE  e.key # d.key
  <2>1. CASE level = 0
    <3>1. ~Touches(f, a, b) /\ a <= FirstKey(g) /\ LastKey(g) <= b
      BY <2>1, <1>3
    <3> QED
      BY <3>1, <1>1, <1>2, <1>6 DEF Touches
  <2>2. CASE level # 0
    <3>1. LastKey(f) < FirstKey(g) \/ LastKey(g) < FirstKey(f)
      BY <2>2, <1>1, <1>6 DEF LevelsDisjoint
    <3> QED
      BY <3>1, <1>2, <1>6
  <2> QED
    BY <2>1, <2>2
<1>8. ASSUME NEW k \in Keys, RangeOf(O)[1] <= k, k <= RangeOf(O)[2]
      PROVE  \/ \E f \in O : Touches(f, k, k)
             \/ \E f \in Touched(level + 1, O) : Touches(f, k, k)
  <2>1. a <= b
    BY <1>1, <1>3
  <2>2. /\ \E f \in O : RangeOf(O)[1] = FirstKey(f)
        /\ \E f \in O : RangeOf(O)[2] = LastKey(f)
    BY <1>6, RangeIs
  <2>3. (a <= k /\ k <= b) \/ \E f \in O : Touches(f, k, k)
    BY <2>1, <2>2, <1>6, <1>8, Grow
  <2> QED
    BY <2>3, <1>3, <1>4
<1>9. TakenFrom(level, O)
  BY <1>6, <1>7, <1>8 DEF TakenFrom, Touched
<1> QED
  BY <1>5, <1>9 DEF O

----------------------------------------------------------------------------
(* The inputs of a compaction.                                             *)

\* Below level 0 the search is not widened.
LEMMA OverIs ==
  ASSUME Types, NEW level \in 0 .. NumLevels - 2,
         NEW fs, fs # {}, \A f \in fs : Keyed(f)
  PROVE  GetOverlappingInputs(level + 1, RangeOf(fs)[1], RangeOf(fs)[2]) = Touched(level + 1, fs)
<1>1. /\ RangeOf(fs)[1] \in Keys /\ RangeOf(fs)[2] \in Keys
      /\ RangeOf(fs)[1] <= RangeOf(fs)[2]
  BY RangeIs
<1>2. level + 1 \in Levels /\ level + 1 \in Nat /\ level + 1 > 0
  BY TablesAssumption DEF Levels
<1>3. IsFiniteSet(files[level + 1]) /\ \A f \in files[level + 1] : Keyed(f)
  BY <1>2, Keyeds DEF Types
<1> QED
  BY <1>1, <1>2, <1>3, OverlapIs DEF Touched

\* The inputs of a compaction, from tables of its upper level.
LEMMA InputsAre ==
  ASSUME Types, LevelsDisjoint, NEW level \in 0 .. NumLevels - 2, NEW c,
         c.level = level, TakenFrom(level, c.in0), c.in1 = Touched(level + 1, c.in0),
         c.smallest_snapshot = Min({last} \union snaps),
         c.below = UNION {files[l] : l \in {m \in Levels : m >= level + 2}}
  PROVE  Compacting(c)
<1>1. level \in Levels /\ level + 1 \in Levels /\ level + 1 # 0 /\ Keys \subseteq Nat
  BY TablesAssumption DEF Levels, Keys
<1>2. \A f \in files[level] \cup files[level + 1] :
         /\ Keyed(f) /\ f.entries \subseteq Wrote /\ FirstKey(f) \in Keys /\ LastKey(f) \in Keys
         /\ \A e \in f.entries : FirstKey(f) <= e.key /\ e.key <= LastKey(f)
  BY <1>1, Keyeds, Span
<1>3. /\ c.in0 # {} /\ c.in0 \subseteq files[level] /\ c.in1 \subseteq files[level + 1]
      /\ \A f \in Inputs(c) : f \in files[level] \cup files[level + 1]
  BY DEF TakenFrom, Touched, Inputs
<1> DEFINE lo == RangeOf(c.in0)[1]
           hi == RangeOf(c.in0)[2]
<1>4. /\ lo \in Keys /\ hi \in Keys /\ lo <= hi
      /\ \A f \in c.in0 : lo <= FirstKey(f) /\ LastKey(f) <= hi
  BY <1>2, <1>3, RangeIs
<1>5. c.in1 = {g \in files[level + 1] : Touches(g, lo, hi)}
  BY DEF Touched
<1>6. \A k \in Keys : lo <= k /\ k <= hi => \E f \in Inputs(c) : Touches(f, k, k)
  BY <1>5 DEF TakenFrom, Inputs
<1> HIDE DEF lo, hi
<1>7. ASSUME NEW k \in Keys, Within(c, k)
      PROVE  (lo <= k /\ k <= hi) \/ \E f \in c.in1 : Touches(f, k, k)
  <2>1. PICK e, d \in Held(Inputs(c)) : e.key <= k /\ k <= d.key
    BY <1>7 DEF Within
  <2>2. PICK f \in Inputs(c) : e \in f.entries
    BY DEF Held
  <2>3. PICK g \in Inputs(c) : d \in g.entries
    BY DEF Held
  <2>4. FirstKey(f) <= e.key /\ FirstKey(f) \in Nat /\ e.key \in Nat /\ k \in Nat /\ lo \in Nat
    BY <2>2, <1>1, <1>2, <1>3, <1>4 DEF Keyed
  <2>5. d.key <= LastKey(g) /\ LastKey(g) \in Nat /\ d.key \in Nat /\ hi \in Nat
    BY <2>3, <1>1, <1>2, <1>3, <1>4 DEF Keyed
  <2>6. lo <= k \/ \E h \in c.in1 : FirstKey(h) <= k
    <3>1. FirstKey(f) <= k
      BY <2>1, <2>4
    <3>2. CASE f \in c.in0
      BY <3>1, <3>2, <2>4, <1>4
    <3> QED
      BY <3>1, <3>2 DEF Inputs
  <2>7. k <= hi \/ \E h \in c.in1 : k <= LastKey(h)
    <3>1. k <= LastKey(g)
      BY <2>1, <2>4, <2>5
    <3>2. CASE g \in c.in0
      BY <3>1, <3>2, <2>4, <2>5, <1>4
    <3> QED
      BY <3>1, <3>2 DEF Inputs
  <2>8. \A h \in c.in1 : Keyed(h) /\ Touches(h, lo, hi)
    BY <1>2, <1>3, <1>5
  <2> QED
    BY <2>6, <2>7, <2>8, <1>4, Grow
<1>8. ASSUME NEW k \in Keys, Within(c, k)
      PROVE  \E f \in Inputs(c) : Touches(f, k, k)
  BY <1>6, <1>7, <1>8 DEF Inputs
<1>9. ASSUME NEW g \in files[level + 1] \ c.in1, NEW k \in Keys, Within(c, k), Touches(g, k, k)
      PROVE  FALSE
  <2>1. FirstKey(g) \in Nat /\ LastKey(g) \in Nat /\ k \in Nat /\ lo \in Nat /\ hi \in Nat
    BY <1>1, <1>2, <1>4
  <2>2. CASE lo <= k /\ k <= hi
    <3>1. Touches(g, lo, hi)
      BY <2>1, <2>2, <1>9 DEF Touches
    <3> QED
      BY <3>1, <1>5, <1>9
  <2>3. ASSUME NEW f \in c.in1, Touches(f, k, k)
        PROVE  FALSE
    <3>1. FirstKey(f) \in Nat /\ LastKey(f) \in Nat /\ f # g /\ f \in files[level + 1]
      BY <1>1, <1>2, <1>3, <1>9
    <3>2. LastKey(f) < FirstKey(g) \/ LastKey(g) < FirstKey(f)
      BY <3>1, <1>1 DEF LevelsDisjoint
    <3> QED
      BY <3>1, <3>2, <2>1, <2>3, <1>9 DEF Touches
  <2> QED
    BY <2>2, <2>3, <1>7, <1>9
<1>10. \A f \in files[level] \ c.in0, g \in c.in0 : Newer(f.entries, g.entries)
  BY DEF TakenFrom, Newer
<1>11. /\ c.smallest_snapshot \in Nat
       /\ \A s \in Shown : c.smallest_snapshot <= s
       /\ MaxSnapshots = 0 => c.smallest_snapshot = last
  <2> DEFINE T == {last} \union snaps
  <2>1. T \in SUBSET Nat /\ T # {} /\ T = Shown /\ (MaxSnapshots = 0 => T = {last})
    <3>1. \A s \in 1 .. last : s \in Nat
      BY WroteIs
    <3> QED
      BY <3>1, WroteIs DEF Types, Shown
  <2> HIDE DEF T
  <2>2. Min(T) \in T /\ \A t \in T : Min(T) <= t
    BY <2>1, MinIs
  <2> QED
    BY <2>1, <2>2 DEF T
<1>12. \A m \in Levels : m >= level + 2 => \A f \in files[m] : f \in c.below
  OBVIOUS
<1>13. MaxSnapshots = 0 => \A e \in Held(Inputs(c)) : e.seq <= c.smallest_snapshot
  <2>1. \A e \in Held(Inputs(c)) : e \in Wrote
    BY <1>2, <1>3 DEF Held
  <2>2. \A s \in 1 .. last : s <= last
    BY WroteIs
  <2> QED
    BY <2>1, <2>2, <1>11, WroteIs
<1> QED
  BY <1>3, <1>8, <1>9, <1>10, <1>11, <1>12, <1>13 DEF Compacting

\* SetupOtherInputs, also where it takes more of the upper level.
LEMMA SetupIs ==
  ASSUME Types, LevelsDisjoint, NEW level \in 0 .. NumLevels - 2, NEW in0, TakenFrom(level, in0)
  PROVE  Compacting(SetupOtherInputs(level, in0))
<1> DEFINE Over(l, fs) == GetOverlappingInputs(l, RangeOf(fs)[1], RangeOf(fs)[2])
           in1 == Over(level + 1, in0)
           expanded0 == Over(level, in0 \union in1)
           expanded1 == Over(level + 1, expanded0)
           expands == /\ in1 # {}
                      /\ Cardinality(expanded0) > Cardinality(in0)
                      /\ Size(in1) + Size(expanded0) < ExpandLimit
                      /\ Cardinality(expanded1) = Cardinality(in1)
           upper == IF expands THEN expanded0 ELSE in0
           lower == IF expands THEN expanded1 ELSE in1
           rest == IF level + 2 < NumLevels THEN Over(level + 2, upper \union lower) ELSE {}
           c == SetupOtherInputs(level, in0)
<1>1. level \in Levels /\ level + 1 \in Levels /\ level + 1 # 0 /\ Keys \subseteq Nat
  BY TablesAssumption DEF Levels, Keys
<1>2. \A f \in files[level] \cup files[level + 1] :
         Keyed(f) /\ FirstKey(f) \in Nat /\ LastKey(f) \in Nat
  BY <1>1, Keyeds, Span
<1>3. in0 # {} /\ in0 \subseteq files[level] /\ \A f \in in0 : Keyed(f)
  BY <1>2 DEF TakenFrom
<1>4. in1 = Touched(level + 1, in0)
  BY <1>3, OverIs
<1>5. c = [level |-> level, in0 |-> upper, in1 |-> lower, grandparents |-> rest,
           below |-> UNION {files[l] : l \in {m \in Levels : m >= level + 2}},
           smallest_snapshot |-> Min({last} \union snaps)]
  BY Zenon DEF SetupOtherInputs
<1>6. /\ c.level = level /\ c.in0 = upper /\ c.in1 = lower
      /\ c.below = UNION {files[l] : l \in {m \in Levels : m >= level + 2}}
      /\ c.smallest_snapshot = Min({last} \union snaps)
  <2> HIDE DEF upper, lower, rest, c
  <2> QED
    BY <1>5
<1> HIDE DEF c, expands
<1>7. CASE ~expands
  <2>1. upper = in0 /\ lower = in1
    BY <1>7
  <2> HIDE DEF upper, lower, in1
  <2> QED
    BY <2>1, <1>4, <1>6, InputsAre DEF c
<1>8. CASE expands
  <2>1. upper = expanded0 /\ lower = expanded1
    BY <1>8
  <2> DEFINE both == in0 \union in1
             lo == RangeOf(both)[1]
             hi == RangeOf(both)[2]
  <2>2. /\ both # {} /\ \A f \in both : Keyed(f) /\ f \in files[level] \cup files[level + 1]
        /\ in1 \subseteq files[level + 1]
    <3>1. in1 \subseteq files[level + 1]
      BY <1>4 DEF Touched
    <3> HIDE DEF in1
    <3> QED
      BY <3>1, <1>2, <1>3
  <2> HIDE DEF in1
  <2>3. /\ lo \in Keys /\ hi \in Keys /\ lo <= hi
        /\ \A f \in both : lo <= FirstKey(f) /\ LastKey(f) <= hi
        /\ \E f \in both : lo = FirstKey(f)
        /\ \E f \in both : hi = LastKey(f)
    <3> HIDE DEF both
    <3> QED
      BY <2>2, RangeIs
  <2> HIDE DEF lo, hi
  <2> DEFINE p == RangeOf(in0)[1]
             q == RangeOf(in0)[2]
  <2>4. /\ p \in Keys /\ q \in Keys /\ p <= q
        /\ \A f \in in0 : p <= FirstKey(f) /\ LastKey(f) <= q
        /\ \E f \in in0 : p = FirstKey(f)
        /\ \E f \in in0 : q = LastKey(f)
    BY <1>3, RangeIs
  <2>5. in1 = {g \in files[level + 1] : Touches(g, p, q)}
    BY <1>4 DEF Touched
  <2>6. \A k \in Keys : p <= k /\ k <= q => \E f \in both : Touches(f, k, k)
    BY <2>5 DEF TakenFrom
  <2> HIDE DEF p, q
  <2>7. ASSUME NEW k \in Keys, lo <= k, k <= hi
        PROVE  \E f \in both : Touches(f, k, k)
    <3>1. p <= k \/ \E f \in in1 : FirstKey(f) <= k
      <4>1. PICK f \in both : lo = FirstKey(f)
        BY <2>3
      <4>2. CASE f \in in0
        BY <4>1, <4>2, <2>3, <2>4, <2>7, <1>1
      <4> QED
        BY <4>1, <4>2, <2>7
    <3>2. k <= q \/ \E f \in in1 : k <= LastKey(f)
      <4>1. PICK f \in both : hi = LastKey(f)
        BY <2>3
      <4>2. CASE f \in in0
        BY <4>1, <4>2, <2>3, <2>4, <2>7, <1>1
      <4> QED
        BY <4>1, <4>2, <2>7
    <3>3. \A f \in in1 : Keyed(f) /\ Touches(f, p, q)
      BY <2>2, <2>5
    <3>4. (p <= k /\ k <= q) \/ \E f \in in1 : Touches(f, k, k)
      BY <3>1, <3>2, <3>3, <2>4, Grow
    <3> QED
      BY <3>4, <2>6
  <2> DEFINE O == GetOverlappingInputs(level, lo, hi)
  <2>8. O = expanded0
    BY DEF lo, hi
  <2>9. \A f \in in0 : Touches(f, lo, hi)
    <3>1. ASSUME NEW f \in in0
          PROVE  Touches(f, lo, hi)
      <4>1. FirstKey(f) \in Nat /\ LastKey(f) \in Nat /\ FirstKey(f) <= LastKey(f)
            /\ lo <= FirstKey(f) /\ LastKey(f) <= hi
        BY <1>2, <1>3, <2>3, Span
      <4> QED
        BY <4>1, <2>3, <1>1 DEF Touches
    <3> QED
      BY <3>1
  <2> HIDE DEF expanded0
  <2>10. /\ O # {} /\ O \subseteq files[level] /\ in0 \subseteq O /\ \A f \in O : Keyed(f)
    <3>1. IsFiniteSet(files[level]) /\ level \in Nat /\ \A f \in files[level] : Keyed(f)
      BY <1>1, <1>2 DEF Types
    <3>2. PICK a, b \in Keys :
           /\ a <= lo /\ hi <= b
           /\ O = {f \in files[level] : Touches(f, a, b)}
           /\ \A k \in Keys : a <= k /\ k <= b =>
                 \/ lo <= k /\ k <= hi
                 \/ \E f \in O : Touches(f, k, k)
           /\ level = 0 => \A f \in O : a <= FirstKey(f) /\ LastKey(f) <= b
           /\ level > 0 => a = lo /\ b = hi
      <4> HIDE DEF O
      <4> QED
        BY <3>1, <2>3, OverlapIs DEF O
    <3>3. in0 \subseteq O
      <4>1. ASSUME NEW f \in in0
            PROVE  Touches(f, a, b)
        <5>1. f \in files[level] /\ Touches(f, lo, hi)
          BY <1>3, <2>9
        <5> QED
          BY <5>1, <3>2, <2>3, <1>1, <1>2 DEF Touches
      <4> QED
        BY <4>1, <3>2, <1>3
    <3> QED
      BY <3>1, <3>2, <3>3, <1>3
  <2>11. expanded1 = Touched(level + 1, O)
    <3> HIDE DEF O
    <3> QED
      BY <2>8, <2>10, OverIs
  <2>12. in1 \subseteq Touched(level + 1, O)
    <3>1. /\ RangeOf(O)[1] \in Keys /\ RangeOf(O)[2] \in Keys
          /\ \A f \in O : RangeOf(O)[1] <= FirstKey(f) /\ LastKey(f) <= RangeOf(O)[2]
      <4> HIDE DEF O
      <4> QED
        BY <2>10, RangeIs
    <3> HIDE DEF O
    <3>2. RangeOf(O)[1] <= p /\ q <= RangeOf(O)[2]
      BY <3>1, <2>4, <2>10
    <3>3. ASSUME NEW g \in files[level + 1], Touches(g, p, q)
          PROVE  Touches(g, RangeOf(O)[1], RangeOf(O)[2])
      BY <3>1, <3>2, <3>3, <2>4, <1>1, <1>2 DEF Touches
    <3> QED
      BY <3>3, <2>5 DEF Touched
  <2>13. PICK f0 \in in0 : f0 \in files[level] /\ Touches(f0, lo, hi)
    BY <1>3, <2>9
  <2>14. \A k \in Keys : lo <= k /\ k <= hi =>
           (\E f \in O : Touches(f, k, k)) \/ (\E f \in Touched(level + 1, O) : Touches(f, k, k))
    <3> HIDE DEF O
    <3> QED
      BY <2>7, <2>10, <2>12
  <2>15. TakenFrom(level, O)
    BY <2>3, <2>13, <2>14, OverlapTaken
  <2>16. upper = O /\ lower = Touched(level + 1, O)
    BY <2>1, <2>8, <2>11
  <2> HIDE DEF upper, lower, O
  <2> QED
    BY <2>15, <2>16, <1>6, InputsAre DEF c
<1> QED
  BY <1>7, <1>8

\* PickCompaction settles the inputs of a compaction that meets Compacting.
LEMMA PickIs ==
  ASSUME Types, LevelsDisjoint, NEW level \in 0 .. NumLevels - 2, NEW f \in files[level]
  PROVE  Compacting(PickCompaction(level, f))
<1>1. level \in Levels /\ level + 1 \in Levels /\ Keys \subseteq Nat
  BY TablesAssumption DEF Levels, Keys
<1>2. \A g \in files[level] :
         /\ Keyed(g) /\ FirstKey(g) \in Keys /\ LastKey(g) \in Keys /\ FirstKey(g) <= LastKey(g)
         /\ \A e \in g.entries : e.key \in Keys /\ FirstKey(g) <= e.key /\ e.key <= LastKey(g)
  BY <1>1, Keyeds, Span DEF Keyed
<1>3. Touches(f, FirstKey(f), LastKey(f))
  BY <1>1, <1>2 DEF Touches
<1>4. \A k \in Keys : FirstKey(f) <= k /\ k <= LastKey(f) => Touches(f, k, k)
  BY <1>1, <1>2 DEF Touches
<1>5. CASE level = 0
  <2> DEFINE O == GetOverlappingInputs(0, FirstKey(f), LastKey(f))
  <2>1. f \in O
    <3>1. IsFiniteSet(files[0]) /\ 0 \in Nat /\ \A g \in files[0] : Keyed(g)
      BY <1>1, <1>2, <1>5 DEF Types
    <3>2. PICK a, b \in Keys :
           /\ a <= FirstKey(f) /\ LastKey(f) <= b
           /\ O = {g \in files[0] : Touches(g, a, b)}
      BY <3>1, <1>2, <1>5, OverlapIs
    <3>3. Touches(f, a, b)
      <4>1. FirstKey(f) \in Nat /\ LastKey(f) \in Nat /\ a \in Nat /\ b \in Nat
            /\ FirstKey(f) <= LastKey(f)
        BY <1>1, <1>2
      <4>2. a <= FirstKey(f) /\ LastKey(f) <= b
        BY <3>2
      <4> QED
        BY <4>1, <4>2 DEF Touches
    <3> QED
      BY <3>2, <3>3, <1>5
  <2>2. TakenFrom(0, O)
    BY <2>1, <1>2, <1>3, <1>4, <1>5, OverlapTaken
  <2>3. Compacting(SetupOtherInputs(0, O))
    <3> HIDE DEF O
    <3> QED
      BY <2>2, <1>5, SetupIs
  <2> QED
    BY <2>3, <1>5 DEF PickCompaction
<1>6. CASE level # 0
  <2>1. RangeOf({f})[1] = FirstKey(f) /\ RangeOf({f})[2] = LastKey(f)
    <3>1. {f} # {} /\ \A g \in {f} : Keyed(g)
      BY <1>2
    <3>2. /\ \E g \in {f} : RangeOf({f})[1] = FirstKey(g)
          /\ \E g \in {f} : RangeOf({f})[2] = LastKey(g)
      BY <3>1, RangeIs
    <3> QED
      BY <3>2
  <2>2. ASSUME NEW g \in files[level] \ {f}, NEW e \in g.entries, NEW d \in f.entries
        PROVE  e.key # d.key
    <3>1. LastKey(g) < FirstKey(f) \/ LastKey(f) < FirstKey(g)
      BY <1>1, <1>6 DEF LevelsDisjoint
    <3>2. /\ FirstKey(f) \in Nat /\ LastKey(f) \in Nat /\ FirstKey(g) \in Nat
          /\ LastKey(g) \in Nat /\ e.key \in Nat /\ d.key \in Nat
      BY <1>1, <1>2
    <3>3. FirstKey(g) <= e.key /\ e.key <= LastKey(g) /\ FirstKey(f) <= d.key /\ d.key <= LastKey(f)
      BY <1>2
    <3> QED
      BY <3>1, <3>2, <3>3
  <2>3. TakenFrom(level, {f})
    BY <2>1, <2>2, <1>4 DEF TakenFrom
  <2>4. Compacting(SetupOtherInputs(level, {f}))
    BY <2>3, SetupIs
  <2> QED
    BY <2>4, <1>6 DEF PickCompaction
<1> QED
  BY <1>5, <1>6

----------------------------------------------------------------------------
(* The steps of writers, snapshots and flushes.                            *)

\* There are no writes and no tables at first.
LEMMA InitHolds == Init => IInv
<1> SUFFICES ASSUME Init
             PROVE  IInv
  OBVIOUS
<1>1. written = <<>> /\ mem = {} /\ files = [l \in Levels |-> {}] /\ snaps = {} /\ comp = NoCompaction
  BY DEF Init
<1>2. last = 0 /\ written \in Seq([key : Keys, kind : Kinds]) /\ last <= MaxWrites
  BY <1>1, TablesAssumption DEF last
<1>3. \A l \in Levels : files[l] = {}
  BY <1>1
<1>4. 0 \in Levels
  BY TablesAssumption DEF Levels
<1>5. files = [l \in Levels |-> files[l]]
  BY <1>1
<1>6. IsFiniteSet({})
  BY FS_EmptySet
<1>7. Types
  <2>1. snaps \subseteq 1 .. last /\ mem \subseteq Wrote
    BY <1>1
  <2> QED
    BY <2>1, <1>1, <1>2, <1>3, <1>4, <1>5, <1>6 DEF Types
<1>8. LevelsDisjoint /\ NewerAbove /\ MemNewest
  BY <1>3 DEF LevelsDisjoint, NewerAbove, MemNewest
<1>9. Visible
  BY <1>2 DEF Visible
<1> QED
  BY <1>1, <1>7, <1>8, <1>9 DEF IInv, CompactionWell

\* A step that changes at most which snapshots are held.
LEMMA SnapshotsKeep ==
  ASSUME IInv, UNCHANGED <<written, mem, files, comp>>,
         snaps' \subseteq Shown, snaps' \subseteq 1 .. last, MaxSnapshots = 0 => snaps' = {}
  PROVE  IInv'
<1>1. Shown' \subseteq Shown
  BY DEF Shown, last
<1>2. Wrote' = Wrote /\ last' = last
  BY DEF Wrote, Entry, last
<1>3. \A f : IsTable(f)' <=> IsTable(f)
  BY <1>2 DEF IsTable
<1>4. Types'
  BY <1>2, <1>3 DEF IInv, Types
<1>5. LevelsDisjoint' /\ NewerAbove' /\ MemNewest'
  BY DEF IInv, LevelsDisjoint, NewerAbove, MemNewest
<1>6. Visible'
  BY <1>1, <1>2 DEF IInv, Visible, Entry, Everything
<1>7. CompactionWell'
  <2>1. CASE comp = NoCompaction
    BY <2>1 DEF CompactionWell
  <2>2. CASE Compacting(comp)
    <3>1. Compacting(comp)'
      BY <2>2, <1>1 DEF Compacting
    <3> QED
      BY <3>1 DEF CompactionWell
  <2> QED
    BY <2>1, <2>2 DEF IInv, CompactionWell
<1> QED
  BY <1>4, <1>5, <1>6, <1>7 DEF IInv

\* A snapshot is taken at the last write, if the bound allows any.
LEMMA SnapshotSteps ==
  ASSUME IInv, GetSnapshot \/ (\E s \in snaps : ReleaseSnapshot(s)) \/ UNCHANGED vars
  PROVE  IInv'
<1>1. Types /\ last \in Nat
  BY WroteIs DEF IInv
<1>2. UNCHANGED <<written, mem, files, comp>> /\ snaps' \subseteq snaps \cup {last}
  BY DEF GetSnapshot, ReleaseSnapshot, vars
<1>3. snaps' \subseteq 1 .. last
  BY <1>1 DEF GetSnapshot, ReleaseSnapshot, vars, Types
<1>4. MaxSnapshots = 0 => snaps' = {}
  <2> SUFFICES ASSUME MaxSnapshots = 0
               PROVE  snaps' = {}
    OBVIOUS
  <2>1. snaps = {} /\ Cardinality({}) = 0
    BY <1>1, FS_EmptySet DEF Types
  <2>2. ~GetSnapshot
    BY <2>1 DEF GetSnapshot
  <2> QED
    BY <2>1, <2>2 DEF ReleaseSnapshot, vars
<1> QED
  BY <1>2, <1>3, <1>4, SnapshotsKeep DEF Shown

\* A write is newer than all there is.
LEMMA WriteKeeps ==
  ASSUME IInv, NEW k \in Keys, NEW kind \in Kinds, Write(k, kind)
  PROVE  IInv'
<1> DEFINE new == [key |-> k, seq |-> last + 1, kind |-> kind]
<1>1. /\ Types /\ last \in Nat /\ last < MaxWrites
      /\ written' = Append(written, [key |-> k, kind |-> kind])
      /\ mem' = mem \cup {new} /\ UNCHANGED <<files, snaps, comp>>
  BY WroteIs DEF IInv, Write
<1>2. /\ last' = last + 1 /\ written' \in Seq([key : Keys, kind : Kinds])
      /\ \A i \in 1 .. last : written'[i] = written[i]
      /\ written'[last + 1] = [key |-> k, kind |-> kind]
  <2>1. written \in Seq([key : Keys, kind : Kinds]) /\ [key |-> k, kind |-> kind] \in [key : Keys, kind : Kinds]
    BY <1>1 DEF Types
  <2> QED
    BY <2>1, <1>1 DEF last
<1>3. /\ \A i \in 1 .. last : Entry(i)' = Entry(i)
      /\ \A i : i = last + 1 => Entry(i)' = new
  BY <1>2 DEF Entry
<1>4. \A i : i \in 1 .. last + 1 <=> i \in 1 .. last \/ i = last + 1
  BY <1>1
<1> HIDE DEF new
<1>5. new.key = k /\ new.seq = last + 1 /\ new.kind = kind
  BY DEF new
<1>6. Wrote' = Wrote \cup {new}
  <2>1. \A e : e \in Wrote' <=> \E i \in 1 .. last + 1 : e = Entry(i)'
    BY <1>2 DEF Wrote
  <2>2. \A e : e \in Wrote <=> \E i \in 1 .. last : e = Entry(i)
    BY DEF Wrote
  <2>3. ASSUME NEW e, e \in Wrote'
        PROVE  e \in Wrote \cup {new}
    <3>1. PICK i \in 1 .. last + 1 : e = Entry(i)'
      BY <2>1, <2>3
    <3> QED
      BY <3>1, <2>2, <1>3, <1>4
  <2>4. ASSUME NEW e, e \in Wrote
        PROVE  e \in Wrote'
    <3>1. PICK i \in 1 .. last : e = Entry(i)
      BY <2>2, <2>4
    <3> QED
      BY <3>1, <2>1, <1>3, <1>4
  <2>5. new \in Wrote'
    <3>1. PICK i \in 1 .. last + 1 : i = last + 1
      BY <1>4
    <3> QED
      BY <3>1, <2>1, <1>3
  <2> QED
    BY <2>3, <2>4, <2>5
<1>7. Everything' = Everything \cup {new}
  BY <1>1 DEF Everything
<1>8. \A f : IsTable(f) => IsTable(f)'
  BY <1>6 DEF IsTable
<1>9. Shown' = snaps \cup {last + 1}
  BY <1>1, <1>2 DEF Shown
<1>10. snaps \subseteq 1 .. last /\ \A s \in 1 .. last : s \in Nat /\ s <= last
  BY <1>1 DEF Types
<1>11. Types'
  <2>1. mem' \subseteq Wrote' /\ last' <= MaxWrites /\ snaps' \subseteq 1 .. last'
    <3>1. last + 1 <= MaxWrites
      BY <1>1, TablesAssumption
    <3>2. mem \subseteq Wrote
      BY <1>1 DEF Types
    <3> QED
      BY <3>1, <3>2, <1>1, <1>2, <1>4, <1>6, <1>10
  <2>2. /\ files' = [l \in Levels |-> files'[l]]
        /\ \A l \in Levels : IsFiniteSet(files'[l]) /\ \A f \in files'[l] : IsTable(f)'
        /\ \A f, g \in files'[0] : f.num = g.num => f = g
        /\ MaxSnapshots = 0 => snaps' = {}
    BY <1>1, <1>8 DEF Types
  <2> QED
    BY <2>1, <2>2, <1>2 DEF Types
<1>12. LevelsDisjoint' /\ NewerAbove'
  BY <1>1 DEF IInv, LevelsDisjoint, NewerAbove
<1>13. MemNewest'
  <2>1. ASSUME NEW l \in Levels, NEW f \in files[l], NEW d \in f.entries
        PROVE  new.seq > d.seq
    <3>1. d \in Wrote /\ d.seq \in 1 .. last
      BY <2>1, <1>1, WroteIs, Keyeds
    <3> QED
      BY <3>1, <1>1, <1>5
  <2>2. MemNewest
    BY DEF IInv
  <2> QED
    BY <2>1, <2>2, <1>1 DEF MemNewest, Newer
<1>14. Visible'
  <2> SUFFICES ASSUME NEW i \in 1 .. last + 1, NEW s \in snaps \cup {last + 1}, i <= s,
                      \A j \in i + 1 .. s : written'[j].key # written'[i].key
               PROVE  \/ Entry(i)' \in Everything'
                      \/ /\ written'[i].kind = "deletion"
                         /\ \A e \in Everything' : e.key = written'[i].key => e.seq > i
    BY <1>2, <1>9 DEF Visible
  <2>1. CASE i = last + 1
    BY <2>1, <1>3, <1>7
  <2>2. CASE i \in 1 .. last
    <3> DEFINE t == IF s = last + 1 THEN last ELSE s
    <3>1. t \in Shown /\ i <= t
      BY <2>2, <1>1, <1>10 DEF Shown
    <3>2. \A j \in i + 1 .. t : j \in i + 1 .. s /\ j \in 1 .. last
      BY <2>2, <1>1, <1>10
    <3>3. \A j \in i + 1 .. t : written[j].key # written[i].key
      BY <3>2, <2>2, <1>2
    <3> HIDE DEF t
    <3>4. \/ Entry(i) \in Everything
          \/ /\ written[i].kind = "deletion"
             /\ \A e \in Everything : e.key = written[i].key => e.seq > i
      BY <2>2, <3>1, <3>3 DEF IInv, Visible
    <3>5. new.seq > i
      BY <2>2, <1>1, <1>5
    <3> QED
      BY <3>4, <3>5, <2>2, <1>2, <1>3, <1>7
  <2> QED
    BY <2>1, <2>2, <1>4
<1>15. CompactionWell'
  <2>1. CASE comp = NoCompaction
    BY <2>1, <1>1 DEF CompactionWell
  <2>2. CASE Compacting(comp)
    <3>1. \A s \in Shown' : comp.smallest_snapshot <= s
      <4>1. comp.smallest_snapshot \in Nat /\ \A s \in snaps \cup {last} : comp.smallest_snapshot <= s
        BY <2>2 DEF Compacting, Shown
      <4>2. comp.smallest_snapshot <= last /\ last + 1 > last
        BY <4>1, <1>1
      <4> QED
        BY <4>1, <4>2, <1>1, <1>9
    <3>2. Compacting(comp)'
      BY <2>2, <3>1, <1>1 DEF Compacting
    <3> QED
      BY <3>2 DEF CompactionWell
  <2> QED
    BY <2>1, <2>2 DEF IInv, CompactionWell
<1> QED
  BY <1>11, <1>12, <1>13, <1>14, <1>15 DEF IInv

\* A flush goes below level 0 only past levels that its table does not touch.
LEMMA PickLevelIs ==
  ASSUME NEW lo, NEW hi
  PROVE  LET L == PickLevelForMemTableOutput(lo, hi) IN
         /\ L \in 0 .. MaxMemLevel /\ L \in Levels
         /\ \A l \in Levels : L > 0 /\ l <= L => ~OverlapInLevel(l, lo, hi)
<1> DEFINE L == PickLevelForMemTableOutput(lo, hi)
           Free(l) == /\ ~OverlapInLevel(l + 1, lo, hi)
                      /\ l + 2 < NumLevels =>
                             Size(GetOverlappingInputs(l + 2, lo, hi)) <= OverlapLimit
           S == {l \in 0 .. MaxMemLevel : \A m \in 0 .. l - 1 : Free(m)}
<1>1. MaxMemLevel \in Nat /\ NumLevels \in Nat /\ MaxMemLevel <= NumLevels - 2
  BY TablesAssumption
<1>2. Levels = 0 .. NumLevels - 1
  BY DEF Levels
<1>3. L = IF OverlapInLevel(0, lo, hi) THEN 0 ELSE Max(S)
  BY Zenon DEF PickLevelForMemTableOutput
<1>4. CASE OverlapInLevel(0, lo, hi)
  <2>1. L = 0
    BY <1>3, <1>4
  <2> HIDE DEF L
  <2> QED
    BY <2>1, <1>1, <1>2 DEF L
<1>5. CASE ~OverlapInLevel(0, lo, hi)
  <2>1. L = Max(S)
    BY <1>3, <1>5
  <2>2. S \in SUBSET Nat /\ 0 \in S /\ \A l \in S : l <= MaxMemLevel
    BY <1>1
  <2>3. Max(S) \in S
    <3> HIDE DEF S
    <3> QED
      BY <2>2, <1>1, MaxBounded
  <2> HIDE DEF L
  <2>4. L \in 0 .. MaxMemLevel /\ \A m \in 0 .. L - 1 : Free(m)
    BY <2>1, <2>3
  <2>5. ASSUME NEW l \in Levels, l <= L
        PROVE  ~OverlapInLevel(l, lo, hi)
    <3>1. CASE l = 0
      BY <3>1, <1>5
    <3>2. CASE l # 0
      <4>1. l - 1 \in 0 .. L - 1 /\ (l - 1) + 1 = l
        BY <3>2, <2>4, <2>5, <1>1, <1>2
      <4>2. Free(l - 1)
        BY <4>1, <2>4
      <4> QED
        BY <4>1, <4>2
    <3> QED
      BY <3>1, <3>2
  <2> QED
    BY <2>4, <2>5, <1>1, <1>2 DEF L
<1> QED
  BY <1>4, <1>5

\* The rank of a new table of level 0 is above all others.
LEMMA NewestIs ==
  ASSUME Types
  PROVE  Newest \in Nat /\ \A f \in files[0] : f.num <= Newest
<1>1. IsFiniteSet(files[0]) /\ \A f \in files[0] : f.num \in Nat
  BY Keyeds DEF Types
<1> DEFINE S == {f.num : f \in files[0]}
           num == [f \in files[0] |-> f.num]
<1>2. IsFiniteSet(S)
  <2>1. num \in Surjection(files[0], S)
    BY DEF Surjection
  <2> HIDE DEF S, num
  <2> QED
    BY <2>1, <1>1, FS_Surjection
<1>3. S \subseteq Nat
  BY <1>1
<1>4. Newest = Max({0} \cup S)
  BY DEF Newest
<1>5. \A f \in files[0] : f.num \in S
  OBVIOUS
<1> HIDE DEF S
<1>6. IsFiniteSet({0} \cup S)
  BY <1>2, FS_Singleton, FS_Union
<1>7. {0} \cup S \in SUBSET Nat /\ {0} \cup S # {}
  BY <1>3
<1> QED
  BY <1>4, <1>5, <1>6, <1>7, MaxIs

\* A flush lays the newest entries over what they touch, also where a compaction
\* has settled its inputs: a table that goes as deep as these touches none of them.
LEMMA FlushKeeps ==
  ASSUME IInv, Flush
  PROVE  IInv'
<1> DEFINE f0 == Table(0, mem)
           lo == FirstKey(f0)
           hi == LastKey(f0)
           L == PickLevelForMemTableOutput(lo, hi)
           num == IF L = 0 THEN Newest + 1 ELSE 0
           t == Table(num, mem)
<1>1. /\ Types /\ LevelsDisjoint /\ NewerAbove /\ MemNewest /\ Visible /\ CompactionWell
      /\ mem # {} /\ mem \subseteq Wrote
  BY DEF IInv, Flush, Types
<1>2. mem' = {} /\ UNCHANGED <<written, snaps, comp>>
  BY DEF Flush
<1>3. files' = [files EXCEPT ![L] = @ \cup {t}]
  BY DEF Flush
<1>4. /\ L \in Levels /\ L \in Nat
      /\ \A l \in Levels : L > 0 /\ l <= L => ~OverlapInLevel(l, lo, hi)
  <2> HIDE DEF lo, hi
  <2> QED
    BY PickLevelIs, TablesAssumption DEF Levels
<1>5. Newest \in Nat /\ \A f \in files[0] : f.num <= Newest
  BY <1>1, NewestIs
<1>6. /\ t.entries = mem /\ t.num = num /\ t = [num |-> t.num, entries |-> t.entries]
      /\ num \in Nat /\ (L = 0 => num = Newest + 1)
  BY <1>5 DEF Table
<1>7. lo = FirstKey(t) /\ hi = LastKey(t)
  BY DEF Table, FirstKey, LastKey
<1> HIDE DEF lo, hi, L, num, t
<1>8. /\ files = [l \in Levels |-> files[l]]
      /\ \A l \in Levels : files'[l] = IF l = L THEN files[l] \cup {t} ELSE files[l]
      /\ files' = [l \in Levels |-> files'[l]]
  <2>1. files = [l \in Levels |-> files[l]]
    BY <1>1 DEF Types
  <2> QED
    BY <2>1, <1>3, <1>4
<1>9. last' = last /\ Wrote' = Wrote /\ Shown' = Shown /\ \A i : Entry(i)' = Entry(i)
  BY <1>2 DEF last, Wrote, Entry, Shown
<1>10. \A f : IsTable(f)' <=> IsTable(f)
  BY <1>9 DEF IsTable
<1>11. IsTable(t)
  BY <1>1, <1>6 DEF IsTable
<1>12. /\ \A l \in Levels : \A f \in files[l] \cup {t} :
              /\ Keyed(f) /\ FirstKey(f) \in Nat /\ LastKey(f) \in Nat /\ FirstKey(f) <= LastKey(f)
              /\ \A e \in f.entries : /\ e.key \in Nat /\ e.seq \in Nat
                                      /\ FirstKey(f) <= e.key /\ e.key <= LastKey(f)
       /\ Keys \subseteq Nat /\ 0 \in Levels /\ Levels \subseteq Nat
  <2>1. Keyed(t)
    BY <1>1, <1>6, WroteIs DEF Keyed
  <2>2. /\ \A l \in Levels : \A f \in files[l] : Keyed(f) /\ f.entries \subseteq Wrote
        /\ 0 \in Levels /\ Keys \subseteq Nat /\ Levels \subseteq Nat
        /\ \A e \in Wrote : e.key \in Nat /\ e.seq \in Nat
    BY <1>1, Keyeds
  <2> QED
    BY <2>1, <2>2, <1>1, <1>6, Span
<1>13. \A l \in Levels : L > 0 /\ l <= L =>
           \A g \in files[l] : LastKey(g) < FirstKey(t) \/ LastKey(t) < FirstKey(g)
  <2> SUFFICES ASSUME NEW l \in Levels, L > 0, l <= L, NEW g \in files[l]
               PROVE  LastKey(g) < FirstKey(t) \/ LastKey(t) < FirstKey(g)
    OBVIOUS
  <2>1. ~Touches(g, FirstKey(t), LastKey(t))
    BY <1>4, <1>7 DEF OverlapInLevel
  <2>2. /\ FirstKey(g) \in Nat /\ LastKey(g) \in Nat /\ FirstKey(t) \in Nat /\ LastKey(t) \in Nat
    BY <1>12
  <2> QED
    BY <2>1, <2>2 DEF Touches
<1>14. \A l \in Levels : L > 0 /\ l <= L =>
           \A g \in files[l] : \A e \in g.entries, d \in t.entries : e.key # d.key
  <2> SUFFICES ASSUME NEW l \in Levels, L > 0, l <= L, NEW g \in files[l],
                      NEW e \in g.entries, NEW d \in t.entries
               PROVE  e.key # d.key
    OBVIOUS
  <2>1. LastKey(g) < FirstKey(t) \/ LastKey(t) < FirstKey(g)
    BY <1>13
  <2>2. /\ FirstKey(g) \in Nat /\ LastKey(g) \in Nat /\ e.key \in Nat
        /\ FirstKey(g) <= e.key /\ e.key <= LastKey(g)
    BY <1>12
  <2>3. /\ FirstKey(t) \in Nat /\ LastKey(t) \in Nat /\ d.key \in Nat
        /\ FirstKey(t) <= d.key /\ d.key <= LastKey(t)
    BY <1>12
  <2> QED
    BY <2>1, <2>2, <2>3
<1>15. \A l \in Levels : \A g \in files[l] : Newer(t.entries, g.entries)
  BY <1>1, <1>6 DEF MemNewest
<1>16. Types'
  <2>1. \A l \in Levels : IsFiniteSet(files'[l]) /\ \A f \in files'[l] : IsTable(f)'
    <3>1. \A l \in Levels : IsFiniteSet(files[l]) /\ IsFiniteSet(files[l] \cup {t})
      BY <1>1, FS_AddElement DEF Types
    <3>2. \A l \in Levels : \A f \in files[l] \cup {t} : IsTable(f)'
      BY <1>1, <1>10, <1>11 DEF Types
    <3> QED
      BY <3>1, <3>2, <1>8
  <2>2. \A f, g \in files'[0] : f.num = g.num => f = g
    <3>1. \A f, g \in files[0] : f.num = g.num => f = g
      BY <1>1 DEF Types
    <3>2. L = 0 => \A f \in files[0] : f.num # t.num
      <4>1. \A f \in files[0] : f.num \in Nat
        BY <1>1, Keyeds
      <4> QED
        BY <4>1, <1>5, <1>6
    <3> QED
      BY <3>1, <3>2, <1>8, <1>12
  <2>3. /\ written' \in Seq([key : Keys, kind : Kinds]) /\ last' <= MaxWrites
        /\ snaps' \subseteq 1 .. last' /\ (MaxSnapshots = 0 => snaps' = {})
        /\ mem' \subseteq Wrote'
    BY <1>1, <1>2, <1>9 DEF Types
  <2> QED
    BY <2>1, <2>2, <2>3, <1>8 DEF Types
<1>17. LevelsDisjoint'
  <2> SUFFICES ASSUME NEW l \in Levels \ {0}, NEW f \in files'[l], NEW g \in files'[l], f # g
               PROVE  LastKey(f) < FirstKey(g) \/ LastKey(g) < FirstKey(f)
    BY DEF LevelsDisjoint
  <2>1. CASE f \in files[l] /\ g \in files[l]
    BY <2>1, <1>1 DEF LevelsDisjoint
  <2>2. CASE l = L
    <3>1. L > 0 /\ l <= L
      BY <2>2, <1>4
    <3> QED
      BY <3>1, <2>1, <1>8, <1>13
  <2> QED
    BY <2>1, <2>2, <1>8
<1>18. NewerAbove'
  <2> SUFFICES ASSUME NEW l \in Levels, NEW m \in Levels, NEW f \in files'[l], NEW g \in files'[m],
                      l < m \/ (l = 0 /\ m = 0 /\ f.num > g.num)
               PROVE  Newer(f.entries, g.entries)
    BY DEF NewerAbove, Newer
  <2>1. CASE f \in files[l] /\ g \in files[m]
    BY <2>1, <1>1 DEF NewerAbove, Newer
  <2>2. CASE f = t /\ g \in files[m]
    BY <2>2, <1>15
  <2>3. CASE g = t /\ m = L /\ f \in files[l] /\ l < m
    <3>1. L > 0 /\ l <= L
      BY <2>3, <1>4, <1>12
    <3> QED
      BY <3>1, <2>3, <1>14 DEF Newer
  <2>4. CASE g = t /\ m = L /\ f \in files[l] /\ ~(l < m)
    <3>1. f \in files[0] /\ L = 0 /\ f.num > t.num
      BY <2>4
    <3>2. f.num \in Nat /\ f.num <= Newest /\ t.num = Newest + 1
      BY <3>1, <1>1, <1>5, <1>6, <1>12, Keyeds
    <3> QED
      BY <3>1, <3>2, <1>5
  <2>5. CASE f = t /\ l = L /\ g = t /\ m = L
    BY <2>5, <1>4, <1>6
  <2> QED
    BY <2>1, <2>2, <2>3, <2>4, <2>5, <1>8
<1>19. MemNewest'
  BY <1>2 DEF MemNewest, Newer
<1>20. Visible'
  <2>1. Everything' = Everything
    <3>1. \A e : e \in Everything' <=> \E l \in Levels : \E f \in files'[l] : e \in f.entries
      BY <1>2 DEF Everything, Held
    <3>2. \A e : e \in Everything <=> e \in mem \/ \E l \in Levels : \E f \in files[l] : e \in f.entries
      BY DEF Everything, Held
    <3>3. \A e : e \in Everything' <=> e \in Everything
      BY <3>1, <3>2, <1>4, <1>6, <1>8, Zenon
    <3> QED
      BY <3>3
  <2> QED
    BY <2>1, <1>1, <1>2, <1>9 DEF Visible
<1>21. CompactionWell'
  <2>1. CASE comp = NoCompaction
    BY <2>1, <1>2 DEF CompactionWell
  <2>2. CASE Compacting(comp)
    <3> DEFINE c == comp
               v == comp.level
    <3>1. /\ v \in Levels /\ v + 1 \in Levels /\ v \in Nat
          /\ c.in0 # {} /\ c.in0 \subseteq files[v] /\ c.in1 \subseteq files[v + 1]
          /\ \A f \in Inputs(c) : f \in files[v] \/ f \in files[v + 1]
      <4>1. v \in 0 .. NumLevels - 2
        BY <2>2 DEF Compacting
      <4>2. v \in Levels /\ v + 1 \in Levels /\ v \in Nat
        BY <4>1, TablesAssumption DEF Levels
      <4> QED
        BY <4>2, <2>2 DEF Compacting, Inputs
    <3>2. \A l \in Levels : files[l] \subseteq files'[l]
      BY <1>8
    <3>3. \A g \in files'[v + 1] \ c.in1, k \in Keys : Within(c, k) => ~Touches(g, k, k)
      <4> SUFFICES ASSUME NEW g \in files'[v + 1] \ c.in1, NEW k \in Keys, Within(c, k), Touches(g, k, k)
                   PROVE  FALSE
        OBVIOUS
      <4>1. CASE g \in files[v + 1]
        BY <4>1, <2>2 DEF Compacting
      <4>2. CASE g = t /\ L = v + 1
        <5>1. PICK f \in Inputs(c) : Touches(f, k, k)
          BY <2>2 DEF Compacting
        <5>2. PICK l \in {v, v + 1} : f \in files[l]
          BY <3>1
        <5>3. l \in Levels /\ l <= L /\ L > 0
          BY <4>2, <3>1
        <5>4. LastKey(f) < FirstKey(t) \/ LastKey(t) < FirstKey(f)
          BY <5>2, <5>3, <1>13
        <5>5. FirstKey(f) \in Nat /\ LastKey(f) \in Nat /\ FirstKey(t) \in Nat /\ LastKey(t) \in Nat
              /\ k \in Nat
          BY <5>2, <5>3, <1>12
        <5>6. Touches(t, k, k)
          BY <4>2
        <5> QED
          BY <5>1, <5>4, <5>5, <5>6 DEF Touches
      <4> QED
        BY <4>1, <4>2, <1>8, <3>1
    <3>4. \A f \in files'[v] \ c.in0, g \in c.in0 : Newer(f.entries, g.entries)
      <4>1. \A f \in files[v] \ c.in0, g \in c.in0 : Newer(f.entries, g.entries)
        BY <2>2 DEF Compacting
      <4> QED
        BY <4>1, <3>1, <1>8, <1>15
    <3>5. \A m \in Levels : m >= v + 2 => \A f \in files'[m] :
             f \in c.below \/ \A e \in f.entries, d \in Held(Inputs(c)) : e.key # d.key
      <4> SUFFICES ASSUME NEW m \in Levels, m >= v + 2, NEW f \in files'[m]
                   PROVE  f \in c.below \/ \A e \in f.entries, d \in Held(Inputs(c)) : e.key # d.key
        OBVIOUS
      <4>1. CASE f \in files[m]
        BY <4>1, <2>2 DEF Compacting
      <4>2. CASE f = t /\ m = L
        <5>1. ASSUME NEW e \in f.entries, NEW d \in Held(Inputs(c)), e.key = d.key
              PROVE  FALSE
          <6>1. PICK g \in Inputs(c) : d \in g.entries
            BY DEF Held
          <6>2. PICK l \in {v, v + 1} : g \in files[l]
            BY <3>1
          <6>3. l \in Levels /\ l <= L /\ L > 0
            BY <4>2, <3>1, <1>12
          <6> QED
            BY <4>2, <5>1, <6>1, <6>2, <6>3, <1>14
        <5> QED
          BY <5>1
      <4> QED
        BY <4>1, <4>2, <1>8
    <3>6. Compacting(comp)'
      <4>1. /\ v \in 0 .. NumLevels - 2
            /\ \A k \in Keys : Within(c, k) => \E f \in Inputs(c) : Touches(f, k, k)
            /\ c.smallest_snapshot \in Nat
            /\ \A s \in Shown : c.smallest_snapshot <= s
            /\ MaxSnapshots = 0 => \A e \in Held(Inputs(c)) : e.seq <= c.smallest_snapshot
        BY <2>2 DEF Compacting
      <4>2. c.in0 \subseteq files'[v] /\ c.in1 \subseteq files'[v + 1]
        BY <3>1, <3>2
      <4>3. comp' = comp
        BY <1>2
      <4>4. Compacting(comp)' <=>
              /\ v \in 0 .. NumLevels - 2
              /\ c.in0 # {} /\ c.in0 \subseteq files'[v] /\ c.in1 \subseteq files'[v + 1]
              /\ \A k \in Keys : Within(c, k) => \E f \in Inputs(c) : Touches(f, k, k)
              /\ \A g \in files'[v + 1] \ c.in1, k \in Keys : Within(c, k) => ~Touches(g, k, k)
              /\ \A f \in files'[v] \ c.in0, g \in c.in0 : Newer(f.entries, g.entries)
              /\ c.smallest_snapshot \in Nat
              /\ \A s \in Shown' : c.smallest_snapshot <= s
              /\ \A m \in Levels : m >= v + 2 => \A f \in files'[m] :
                    f \in c.below \/ \A e \in f.entries, d \in Held(Inputs(c)) : e.key # d.key
              /\ MaxSnapshots = 0 => \A e \in Held(Inputs(c)) : e.seq <= c.smallest_snapshot
        BY <4>3, Zenon DEF Compacting
      <4> QED
        BY <4>1, <4>2, <4>4, <3>1, <3>3, <3>4, <3>5, <1>9
    <3> QED
      BY <3>6 DEF CompactionWell
  <2> QED
    BY <2>1, <2>2, <1>1 DEF CompactionWell
<1> QED
  BY <1>16, <1>17, <1>18, <1>19, <1>20, <1>21 DEF IInv

----------------------------------------------------------------------------
(* The steps of compactions.                                               *)

\* What may take the place of a compaction's inputs: sets of their entries, no
\* two with a key in common or in between, with all the entries or with exactly
\* those that Dropped leaves.
Outputs(c, outs) ==
    /\ IsFiniteSet(outs)
    /\ \A o \in outs : o # {} /\ o \subseteq Held(Inputs(c))
    /\ \A o, p \in outs : o # p => \/ \A e \in o, d \in p : e.key < d.key
                                   \/ \A e \in o, d \in p : d.key < e.key
    /\ \/ \A e \in Held(Inputs(c)) : \E o \in outs : e \in o
       \/ \A e \in Held(Inputs(c)) : (\E o \in outs : e \in o) <=> ~Dropped(c, e)

\* Tables in the place of the inputs of a compaction: the entries that are left out
\* are hidden, at every snapshot, by newer ones that are not, or they are deletions
\* of which nothing older is left anywhere.
LEMMA ReplaceKeeps ==
  ASSUME IInv, NEW c, Compacting(c), NEW outs, Outputs(c, outs),
         files' = [files EXCEPT
             ![c.level] = @ \ c.in0,
             ![c.level + 1] = (@ \ c.in1) \union {Table(0, o) : o \in outs}],
         UNCHANGED <<written, mem, snaps>>, comp' = NoCompaction
  PROVE  IInv'
<1> DEFINE v == c.level
           new == {Table(0, o) : o \in outs}
           In == Held(Inputs(c))
<1>1. Types /\ LevelsDisjoint /\ NewerAbove /\ MemNewest /\ Visible
  BY DEF IInv
<1>2. /\ v \in Levels /\ v + 1 \in Levels /\ v \in Nat /\ Levels \subseteq Nat /\ 0 \in Levels
      /\ Keys \subseteq Nat
      /\ c.in0 \subseteq files[v] /\ c.in1 \subseteq files[v + 1]
  <2>1. v \in 0 .. NumLevels - 2
    BY DEF Compacting
  <2>2. v \in Levels /\ v + 1 \in Levels /\ v \in Nat
    BY <2>1, TablesAssumption DEF Levels
  <2> QED
    BY <2>2, <1>1, Keyeds DEF Compacting
<1>3. \A e \in In : \E h : /\ e \in h.entries /\ h \in Inputs(c)
                           /\ (h \in c.in0 /\ h \in files[v]) \/ (h \in c.in1 /\ h \in files[v + 1])
  <2> SUFFICES ASSUME NEW e \in In
               PROVE  \E h : /\ e \in h.entries /\ h \in Inputs(c)
                             /\ (h \in c.in0 /\ h \in files[v]) \/ (h \in c.in1 /\ h \in files[v + 1])
    OBVIOUS
  <2>1. PICK h \in Inputs(c) : e \in h.entries
    BY DEF Held
  <2>2. h \in c.in0 \/ h \in c.in1
    BY DEF Inputs
  <2> QED
    BY <2>1, <2>2, <1>2
<1>4. /\ \A o \in outs : o # {} /\ o \subseteq In
      /\ \A o, p \in outs : o # p => \/ \A e \in o, d \in p : e.key < d.key
                                     \/ \A e \in o, d \in p : d.key < e.key
      /\ \/ \A e \in In : \E o \in outs : e \in o
         \/ \A e \in In : (\E o \in outs : e \in o) <=> ~Dropped(c, e)
  BY DEF Outputs
<1>5. /\ \A t \in new : t.num = 0 /\ t.entries \in outs /\ t = [num |-> t.num, entries |-> t.entries]
      /\ \A o \in outs : \E t \in new : t.entries = o
      /\ \A t, u \in new : t.entries = u.entries => t = u
  <2>1. \A o \in outs : Table(0, o).num = 0 /\ Table(0, o).entries = o
                        /\ Table(0, o) = [num |-> 0, entries |-> o] /\ Table(0, o) \in new
    BY DEF Table
  <2>2. \A t \in new : \E o \in outs : t = Table(0, o)
    OBVIOUS
  <2> HIDE DEF new
  <2> QED
    BY <2>1, <2>2
<1>6. IsFiniteSet(new)
  <2> DEFINE tab == [o \in outs |-> Table(0, o)]
  <2>1. tab \in Surjection(outs, new)
    BY DEF Surjection
  <2> HIDE DEF tab, new
  <2> QED
    BY <2>1, FS_Surjection DEF Outputs
<1> HIDE DEF new, In
<1>7. /\ files' = [l \in Levels |-> files'[l]]
      /\ \A l \in Levels : l # v /\ l # v + 1 => files'[l] = files[l]
      /\ files'[v] = files[v] \ c.in0
      /\ files'[v + 1] = (files[v + 1] \ c.in1) \cup new
  <2>1. files = [l \in Levels |-> files[l]]
    BY <1>1 DEF Types
  <2>2. v # v + 1
    BY <1>2
  <2> QED
    BY <2>1, <2>2, <1>2 DEF new
<1>8. \A l \in Levels : \A f \in files'[l] :
         \/ f \in files[l] /\ (l = v => f \notin c.in0) /\ (l = v + 1 => f \notin c.in1)
         \/ l = v + 1 /\ f \in new
  <2> SUFFICES ASSUME NEW l \in Levels, NEW f \in files'[l]
               PROVE  \/ f \in files[l] /\ (l = v => f \notin c.in0) /\ (l = v + 1 => f \notin c.in1)
                      \/ l = v + 1 /\ f \in new
    OBVIOUS
  <2>1. v # v + 1
    BY <1>2
  <2> QED
    BY <2>1, <1>7
<1>9. last' = last /\ Wrote' = Wrote /\ Shown' = Shown /\ \A i : Entry(i)' = Entry(i)
  BY DEF last, Wrote, Entry, Shown
<1>10. \A f : IsTable(f)' <=> IsTable(f)
  BY <1>9 DEF IsTable
<1>11. In \subseteq Wrote /\ \A e \in In : e.key \in Keys /\ e.key \in Nat /\ e.seq \in Nat
  <2>1. In \subseteq Wrote
    BY <1>1, <1>2, <1>3, Keyeds
  <2> QED
    BY <2>1, <1>1, Keyeds, WroteIs
<1>12. \A t \in new : /\ t.entries # {} /\ t.entries \subseteq In /\ IsTable(t)
                      /\ Keyed(t) /\ FirstKey(t) \in Nat /\ LastKey(t) \in Nat
                      /\ FirstKey(t) <= LastKey(t) /\ FirstKey(t) \in Keys
                      /\ \E e \in t.entries : e.key = FirstKey(t)
                      /\ \E e \in t.entries : e.key = LastKey(t)
  <2> SUFFICES ASSUME NEW t \in new
               PROVE  /\ t.entries # {} /\ t.entries \subseteq In /\ IsTable(t)
                      /\ Keyed(t) /\ FirstKey(t) \in Nat /\ LastKey(t) \in Nat
                      /\ FirstKey(t) <= LastKey(t) /\ FirstKey(t) \in Keys
                      /\ \E e \in t.entries : e.key = FirstKey(t)
                      /\ \E e \in t.entries : e.key = LastKey(t)
    OBVIOUS
  <2>1. t.entries # {} /\ t.entries \subseteq In
    BY <1>4, <1>5
  <2>2. IsTable(t) /\ Keyed(t)
    BY <2>1, <1>5, <1>11 DEF IsTable, Keyed
  <2> QED
    BY <2>1, <2>2, <1>2, Span
<1>13. \A l \in Levels : \A f \in files[l] :
          /\ FirstKey(f) \in Nat /\ LastKey(f) \in Nat /\ FirstKey(f) <= LastKey(f)
          /\ FirstKey(f) \in Keys
          /\ \A e \in f.entries : e.key \in Nat /\ FirstKey(f) <= e.key /\ e.key <= LastKey(f)
  BY <1>1, <1>2, Keyeds, Span DEF Keyed
<1>14. \A l \in Levels : \A f \in files[l] : \A e \in f.entries : Touches(f, e.key, e.key)
  BY <1>13 DEF Touches
\* what NewerAbove and Compacting say of an entry of the inputs
<1>15. ASSUME NEW e \in In, NEW l \in Levels, NEW f \in files[l], l = v => f \notin c.in0, l <= v,
              NEW d \in f.entries, d.key = e.key
       PROVE  d.seq > e.seq
  <2>1. PICK h : /\ e \in h.entries /\ h \in Inputs(c)
                 /\ (h \in c.in0 /\ h \in files[v]) \/ (h \in c.in1 /\ h \in files[v + 1])
    BY <1>3
  <2>2. CASE h \in files[v + 1]
    <3>1. l < v + 1
      BY <1>2, <1>15
    <3> QED
      BY <3>1, <2>1, <2>2, <1>1, <1>2, <1>15 DEF NewerAbove
  <2>3. CASE h \in c.in0 /\ h \in files[v] /\ l = v
    BY <2>1, <2>3, <1>15 DEF Compacting, Newer
  <2>4. CASE h \in files[v] /\ l < v
    BY <2>1, <2>4, <1>1, <1>2, <1>15 DEF NewerAbove
  <2> QED
    BY <2>1, <2>2, <2>3, <2>4, <1>2, <1>15
<1>16. ASSUME NEW e \in In, NEW m \in Levels, m >= v + 2, NEW g \in files[m],
              NEW d \in g.entries, d.key = e.key
       PROVE  e.seq > d.seq
  <2>1. PICK h : /\ e \in h.entries
                 /\ h \in files[v] \/ h \in files[v + 1]
    BY <1>3
  <2>2. PICK l \in {v, v + 1} : h \in files[l]
    BY <2>1
  <2>3. l \in Levels /\ l < m
    BY <1>2, <1>16
  <2> QED
    BY <2>1, <2>2, <2>3, <1>1, <1>16 DEF NewerAbove
<1>17. Types'
  <2>1. \A l \in Levels : IsFiniteSet(files'[l])
    <3>1. \A l \in Levels : IsFiniteSet(files[l])
      BY <1>1 DEF Types
    <3>2. \A S, T : IsFiniteSet(S) => IsFiniteSet(S \ T)
      BY FS_Subset
    <3> QED
      BY <3>1, <3>2, <1>2, <1>6, <1>7, FS_Union
  <2>2. \A l \in Levels : \A f \in files'[l] : IsTable(f)'
    BY <1>1, <1>8, <1>10, <1>12 DEF Types
  <2>3. \A f, g \in files'[0] : f.num = g.num => f = g
    <3>1. v + 1 # 0
      BY <1>2
    <3> QED
      BY <3>1, <1>1, <1>2, <1>8 DEF Types
  <2>4. /\ written' \in Seq([key : Keys, kind : Kinds]) /\ last' <= MaxWrites
        /\ snaps' \subseteq 1 .. last' /\ (MaxSnapshots = 0 => snaps' = {})
        /\ mem' \subseteq Wrote'
    BY <1>1, <1>9 DEF Types
  <2> QED
    BY <2>1, <2>2, <2>3, <2>4, <1>7 DEF Types
<1>18. ASSUME NEW t \in new, NEW g \in files[v + 1] \ c.in1
       PROVE  LastKey(g) < FirstKey(t) \/ LastKey(t) < FirstKey(g)
  <2> SUFFICES ASSUME ~(LastKey(g) < FirstKey(t)), ~(LastKey(t) < FirstKey(g))
               PROVE  FALSE
    OBVIOUS
  <2>1. PICK a \in t.entries : a.key = FirstKey(t)
    BY <1>12
  <2>2. PICK b \in t.entries : b.key = LastKey(t)
    BY <1>12
  <2>3. a \in In /\ b \in In
    BY <1>12
  <2> DEFINE k == IF FirstKey(t) <= FirstKey(g) THEN FirstKey(g) ELSE FirstKey(t)
  <2>4. /\ FirstKey(t) \in Nat /\ LastKey(t) \in Nat /\ FirstKey(t) <= LastKey(t)
        /\ FirstKey(g) \in Nat /\ LastKey(g) \in Nat /\ FirstKey(g) <= LastKey(g)
        /\ FirstKey(t) \in Keys /\ FirstKey(g) \in Keys
    BY <1>2, <1>12, <1>13
  <2>5. /\ k \in Keys /\ FirstKey(t) <= k /\ k <= LastKey(t)
        /\ FirstKey(g) <= k /\ k <= LastKey(g)
    BY <2>4
  <2> HIDE DEF k
  <2>6. Within(c, k)
    BY <2>1, <2>2, <2>3, <2>5 DEF Within, In
  <2>7. Touches(g, k, k)
    BY <2>5 DEF Touches
  <2> QED
    BY <2>5, <2>6, <2>7 DEF Compacting
<1>19. LevelsDisjoint'
  <2> SUFFICES ASSUME NEW l \in Levels \ {0}, NEW f \in files'[l], NEW g \in files'[l], f # g
               PROVE  LastKey(f) < FirstKey(g) \/ LastKey(g) < FirstKey(f)
    BY DEF LevelsDisjoint
  <2>1. CASE f \in files[l] /\ g \in files[l]
    BY <2>1, <1>1 DEF LevelsDisjoint
  <2>2. CASE l = v + 1 /\ f \in new /\ g \in new
    <3>1. f.entries # g.entries /\ f.entries \in outs /\ g.entries \in outs
      BY <2>2, <1>5
    <3>2. \/ \A e \in f.entries, d \in g.entries : e.key < d.key
          \/ \A e \in f.entries, d \in g.entries : d.key < e.key
      BY <3>1, <1>4
    <3> QED
      BY <3>2, <2>2, <1>12
  <2>3. CASE l = v + 1 /\ f \in new /\ g \in files[l] /\ g \notin c.in1
    BY <2>3, <1>18
  <2>4. CASE l = v + 1 /\ g \in new /\ f \in files[l] /\ f \notin c.in1
    BY <2>4, <1>18
  <2> QED
    BY <2>1, <2>2, <2>3, <2>4, <1>8
<1>20. NewerAbove'
  <2> SUFFICES ASSUME NEW l \in Levels, NEW m \in Levels, NEW f \in files'[l], NEW g \in files'[m],
                      l < m \/ (l = 0 /\ m = 0 /\ f.num > g.num),
                      NEW e \in f.entries, NEW d \in g.entries, e.key = d.key
               PROVE  e.seq > d.seq
    BY DEF NewerAbove
  <2>1. CASE f \in files[l] /\ g \in files[m]
    BY <2>1, <1>1 DEF NewerAbove
  <2>2. CASE l = v + 1 /\ f \in new /\ g \in files[m]
    <3>1. m >= v + 2 /\ e \in In
      BY <2>2, <1>2, <1>12
    <3> QED
      BY <3>1, <2>2, <1>16
  <2>3. CASE m = v + 1 /\ g \in new /\ f \in files[l] /\ (l = v => f \notin c.in0)
    <3>1. l <= v /\ d \in In
      BY <2>3, <1>2, <1>12
    <3> QED
      BY <3>1, <2>3, <1>15
  <2>4. CASE l = v + 1 /\ m = v + 1
    BY <2>4, <1>2
  <2> QED
    BY <2>1, <2>2, <2>3, <2>4, <1>8
<1>21. MemNewest'
  <2>1. ASSUME NEW l \in Levels, NEW f \in files'[l], NEW e \in mem, NEW d \in f.entries, e.key = d.key
        PROVE  e.seq > d.seq
    <3>1. \E k \in Levels : \E h \in files[k] : d \in h.entries
      <4>1. CASE f \in files[l]
        BY <4>1
      <4>2. CASE f \in new
        BY <4>2, <1>2, <1>3, <1>12
      <4> QED
        BY <4>1, <4>2, <1>8
    <3> QED
      BY <3>1, <2>1, <1>1 DEF MemNewest, Newer
  <2> QED
    BY <2>1 DEF MemNewest, Newer
<1>22. /\ \A e : e \in Everything <=> e \in mem \/ \E l \in Levels : \E f \in files[l] : e \in f.entries
       /\ \A e : e \in Everything' <=> e \in mem \/ \E l \in Levels : \E f \in files'[l] : e \in f.entries
  <2>1. \A e : e \in Everything <=> e \in mem \/ \E l \in Levels : \E f \in files[l] : e \in f.entries
    BY DEF Everything, Held
  <2>2. \A e : e \in Everything' <=> e \in mem' \/ \E l \in Levels : \E f \in files'[l] : e \in f.entries
    <3>1. Everything' = mem' \cup UNION {Held(files'[l]) : l \in Levels}
      BY Zenon DEF Everything
    <3>2. \A l \in Levels : \A e : e \in Held(files'[l]) <=> \E f \in files'[l] : e \in f.entries
      BY DEF Held
    <3> QED
      BY ONLY <3>1, <3>2
  <2>3. mem' = mem
    OBVIOUS
  <2> QED
    BY <2>1, <2>2, <2>3, Zenon
<1>23. Everything' \subseteq Everything
  <2> SUFFICES ASSUME NEW e, e \in Everything'
               PROVE  e \in Everything
    OBVIOUS
  <2>1. CASE e \in mem
    BY <2>1, <1>22
  <2>2. ASSUME NEW l \in Levels, NEW f \in files'[l], e \in f.entries
        PROVE  e \in Everything
    <3>1. CASE f \in files[l]
      BY <3>1, <2>2, <1>22
    <3>2. CASE f \in new
      BY <3>2, <2>2, <1>2, <1>3, <1>12, <1>22
    <3> QED
      BY <3>1, <3>2, <1>8
  <2> QED
    BY <2>1, <2>2, <1>22
<1>24. \A o \in outs : \A e \in o : e \in Everything'
  <2> SUFFICES ASSUME NEW o \in outs, NEW e \in o
               PROVE  e \in Everything'
    OBVIOUS
  <2>1. PICK t \in new : t.entries = o
    BY <1>5
  <2>2. t \in files'[v + 1] /\ v + 1 \in Levels
    BY <1>2, <1>7
  <2> QED
    BY <2>1, <2>2, <1>22
<1>25. ASSUME NEW e, e \in Everything, e \notin Everything'
       PROVE  e \in In /\ Dropped(c, e)
  <2>0. PICK l \in Levels : \E f \in files[l] : e \in f.entries
    BY <1>22, <1>25
  <2>1. PICK f \in files[l] : e \in f.entries
    BY <2>0
  <2>2. f \notin files'[l]
    BY <2>1, <1>22, <1>25
  <2>3. f \in Inputs(c)
    <3>1. (l = v /\ f \in c.in0) \/ (l = v + 1 /\ f \in c.in1)
      BY <2>2, <1>7
    <3> QED
      BY <3>1 DEF Inputs
  <2>4. e \in In
    BY <2>1, <2>3 DEF In, Held
  <2> QED
    BY <2>4, <1>4, <1>24, <1>25
<1>26. Visible'
  <2> SUFFICES ASSUME NEW i \in 1 .. last, NEW s \in Shown, i <= s,
                      \A j \in i + 1 .. s : written[j].key # written[i].key
               PROVE  \/ Entry(i) \in Everything'
                      \/ /\ written[i].kind = "deletion"
                         /\ \A e \in Everything' : e.key = written[i].key => e.seq > i
    BY <1>9 DEF Visible
  <2>1. \/ Entry(i) \in Everything
        \/ /\ written[i].kind = "deletion"
           /\ \A e \in Everything : e.key = written[i].key => e.seq > i
    BY <1>1 DEF Visible
  <2>2. CASE Entry(i) \in Everything /\ Entry(i) \notin Everything'
    <3> DEFINE x == Entry(i)
               k == written[i].key
    <3>1. x \in In /\ Dropped(c, x)
      BY <2>2, <1>25
    <3>2. /\ x.key = k /\ x.seq = i /\ x.kind = written[i].kind /\ k \in Keys
          /\ i \in Nat /\ last \in Nat
      BY <3>1, <1>1, <1>11, WroteIs
    <3>3. s \in Nat /\ s <= last /\ c.smallest_snapshot \in Nat /\ c.smallest_snapshot <= s
      <4>1. s \in Nat /\ s <= last
        BY <3>2, <1>1 DEF Shown, Types
      <4> QED
        BY <4>1 DEF Compacting
    <3> HIDE DEF x, k
    <3>4. ~ \E d \in In : d.key = k /\ i < d.seq /\ d.seq <= c.smallest_snapshot
      <4> SUFFICES ASSUME NEW d \in In, d.key = k, i < d.seq, d.seq <= c.smallest_snapshot
                   PROVE  FALSE
        OBVIOUS
      <4>1. d \in Wrote /\ d.seq \in Nat
        BY <1>11
      <4>2. d.seq \in 1 .. last /\ written[d.seq].key = k
        BY <4>1, <1>1, WroteIs
      <4>3. d.seq \in i + 1 .. s
        BY <4>1, <3>2, <3>3
      <4> QED
        BY <4>2, <4>3 DEF k
    <3>5. /\ x.kind = "deletion" /\ i <= c.smallest_snapshot /\ IsBaseLevelForKey(c, k)
      <4>1. \/ \E d \in In : d.key = x.key /\ x.seq < d.seq /\ d.seq <= c.smallest_snapshot
            \/ /\ x.kind = "deletion"
               /\ x.seq <= c.smallest_snapshot
               /\ IsBaseLevelForKey(c, x.key)
        BY <3>1 DEF Dropped, In, Held, Inputs
      <4> QED
        BY <4>1, <3>2, <3>4
    <3>6. \A o \in outs : x \notin o
      BY <2>2, <1>24 DEF x
    <3>7. ASSUME NEW e \in Everything', e.key = k
          PROVE  e.seq > i
      <4>1. CASE e \in mem
        <5>1. PICK h : /\ h \in files[v] \/ h \in files[v + 1]
                       /\ x \in h.entries
          BY <3>1, <1>3
        <5> QED
          BY <5>1, <4>1, <3>2, <3>7, <1>1, <1>2 DEF MemNewest, Newer
      <4>2. ASSUME NEW l \in Levels, NEW g \in files[l], e \in g.entries,
                   l = v => g \notin c.in0, l = v + 1 => g \notin c.in1
            PROVE  e.seq > i
        <5>1. CASE l <= v
          BY <5>1, <4>2, <3>1, <3>2, <3>7, <1>15
        <5>2. CASE l = v + 1
          <6>1. Within(c, k)
            <7>1. k <= x.key /\ x.key <= k
              BY <3>2, <1>2
            <7> QED
              BY <7>1, <3>1 DEF Within, In
          <6>2. Touches(g, k, k)
            BY <4>2, <3>7, <1>14
          <6> QED
            BY <6>1, <6>2, <5>2, <4>2, <3>2 DEF Compacting
        <5>3. CASE l >= v + 2
          <6>1. g \in c.below \/ \A a \in g.entries, d \in In : a.key # d.key
            BY <5>3 DEF Compacting, In
          <6>2. g \in c.below
            BY <6>1, <4>2, <3>1, <3>2, <3>7
          <6>3. Touches(g, k, k)
            BY <4>2, <3>7, <1>14
          <6> QED
            BY <6>2, <6>3, <3>5 DEF IsBaseLevelForKey
        <5> QED
          BY <5>1, <5>2, <5>3, <1>2
      <4>3. ASSUME NEW t \in new, e \in t.entries
            PROVE  e.seq > i
        <5>1. t.entries \in outs /\ e \in In /\ e \in Wrote
          BY <4>3, <1>5, <1>11, <1>12
        <5>2. CASE e.seq = i
          <6>1. e = Entry(i)
            BY <5>1, <5>2, <1>1, WroteIs
          <6> QED
            BY <6>1, <5>1, <4>3, <3>6 DEF x
        <5>3. CASE e.seq < i
          <6>1. Dropped(c, e)
            BY <5>3, <3>1, <3>2, <3>5, <3>7 DEF Dropped, In, Held, Inputs
          <6>2. ~ \A a \in In : \E o \in outs : a \in o
            BY <3>1, <3>6
          <6> QED
            BY <6>1, <6>2, <5>1, <4>3, <1>4
        <5>4. e.seq \in Nat
          BY <5>1, <1>11
        <5> QED
          BY <5>2, <5>3, <5>4, <3>2
      <4> QED
        BY <4>1, <4>2, <4>3, <3>7, <1>8, <1>22
    <3> QED
      BY <3>2, <3>5, <3>7 DEF k
  <2>3. CASE ~(Entry(i) \in Everything /\ Entry(i) \notin Everything')
    BY <2>1, <2>3, <1>23
  <2> QED
    BY <2>2, <2>3
<1>27. CompactionWell'
  BY DEF CompactionWell
<1> QED
  BY <1>17, <1>19, <1>20, <1>21, <1>26, <1>27 DEF IInv

\* A table moves as it is, or the inputs of a compaction are settled.
LEMMA CompactKeeps ==
  ASSUME IInv, NEW level \in Levels \ {NumLevels - 1}, NEW f \in files[level], Compact(level, f)
  PROVE  IInv'
<1>1. Types /\ LevelsDisjoint /\ level \in 0 .. NumLevels - 2 /\ level \in Levels
  BY TablesAssumption DEF IInv, Levels
<1>2. PICK c : c = PickCompaction(level, f)
  OBVIOUS
<1>3. Compacting(c) /\ c.level = level
  <2>1. \A in0 : SetupOtherInputs(level, in0).level = level
    BY DEF SetupOtherInputs
  <2> QED
    BY <2>1, <1>1, <1>2, PickIs DEF PickCompaction
<1>4. /\ comp = NoCompaction /\ UNCHANGED <<written, mem, snaps>>
      /\ \/ /\ IsTrivialMove(c)
            /\ files' = [files EXCEPT
                  ![level] = @ \ c.in0,
                  ![level + 1] = @ \union {Table(0, g.entries) : g \in c.in0}]
            /\ comp' = comp
         \/ comp' = c /\ files' = files
  BY <1>2 DEF Compact
<1>5. CASE /\ IsTrivialMove(c)
           /\ files' = [files EXCEPT
                 ![level] = @ \ c.in0,
                 ![level + 1] = @ \union {Table(0, g.entries) : g \in c.in0}]
           /\ comp' = comp
  <2>1. c.in0 \subseteq files[level] /\ IsFiniteSet(c.in0)
    BY <1>1, <1>3, FS_Subset DEF Compacting, Types
  <2>2. PICK g : c.in0 = {g}
    BY <2>1, <1>5, FS_Singleton DEF IsTrivialMove
  <2>3. c.in1 = {}
    BY <1>5 DEF IsTrivialMove
  <2>4. Held(Inputs(c)) = g.entries
    BY <2>2, <2>3 DEF Held, Inputs
  <2>5. g.entries # {}
    BY <2>1, <2>2, <1>1, Keyeds DEF Keyed
  <2>6. Outputs(c, {g.entries})
    BY <2>4, <2>5, FS_Singleton DEF Outputs
  <2>7. {Table(0, h.entries) : h \in c.in0} = {Table(0, o) : o \in {g.entries}}
    BY <2>2
  <2>8. files' = [files EXCEPT
             ![c.level] = @ \ c.in0,
             ![c.level + 1] = (@ \ c.in1) \union {Table(0, o) : o \in {g.entries}}]
    <3>1. files[level + 1] \ c.in1 = files[level + 1]
      BY <2>3
    <3>2. level + 1 # level
      BY <1>1
    <3> DEFINE u == {Table(0, o) : o \in {g.entries}}
    <3>3. files' = [files EXCEPT ![level] = @ \ c.in0, ![level + 1] = @ \cup u]
      BY <2>7, <1>5
    <3> HIDE DEF u
    <3>4. files' = [files EXCEPT ![level] = @ \ c.in0, ![level + 1] = (@ \ c.in1) \cup u]
      BY <3>1, <3>2, <3>3
    <3> QED
      BY <3>4, <1>3 DEF u
  <2> QED
    BY <2>6, <2>8, <1>3, <1>4, <1>5, ReplaceKeeps
<1>6. CASE comp' = c /\ files' = files
  <2>1. last' = last /\ Wrote' = Wrote /\ Shown' = Shown /\ Everything' = Everything
        /\ \A i : Entry(i)' = Entry(i)
    BY <1>4, <1>6 DEF last, Wrote, Entry, Shown, Everything
  <2>2. \A g : IsTable(g)' <=> IsTable(g)
    BY <2>1 DEF IsTable
  <2>3. Types'
    BY <2>1, <2>2, <1>1, <1>4, <1>6 DEF Types
  <2>4. LevelsDisjoint' /\ NewerAbove' /\ MemNewest'
    BY <1>4, <1>6 DEF IInv, LevelsDisjoint, NewerAbove, MemNewest
  <2>5. Visible'
    BY <2>1, <1>4 DEF IInv, Visible
  <2>6. Compacting(comp)'
    BY <2>1, <1>3, <1>6 DEF Compacting
  <2> QED
    BY <2>3, <2>4, <2>5, <2>6 DEF IInv, CompactionWell
<1> QED
  BY <1>4, <1>5, <1>6

\* The outputs of a compaction take the place of its inputs.
LEMMA InstallKeeps ==
  ASSUME ~SplitsKeys \/ MaxSnapshots = 0, IInv, Install
  PROVE  IInv'
<1> DEFINE c == comp
           outs == DoCompactionWork(c)
           O == {outs[i] : i \in DOMAIN outs}
<1>1. Types /\ Compacting(c)
  BY DEF IInv, CompactionWell, Install
<1>2. /\ files' = [files EXCEPT
             ![c.level] = @ \ c.in0,
             ![c.level + 1] = (@ \ c.in1) \union {Table(0, outs[i]) : i \in DOMAIN outs}]
      /\ comp' = NoCompaction
      /\ UNCHANGED <<written, mem, snaps>>
  BY DEF Install
<1>3. Held(Inputs(c)) \subseteq Wrote
  <2>1. c.level \in Levels /\ c.level + 1 \in Levels
    <3>1. c.level \in 0 .. NumLevels - 2
      BY <1>1 DEF Compacting
    <3> QED
      BY <3>1, TablesAssumption DEF Levels
  <2>2. c.in0 \subseteq files[c.level] /\ c.in1 \subseteq files[c.level + 1]
    BY <1>1 DEF Compacting
  <2> QED
    BY <2>1, <2>2, <1>1, Keyeds DEF Held, Inputs
<1>4. Unsplit(c)
  <2> SUFFICES ASSUME SplitsKeys, NEW e \in Held(Inputs(c)), NEW d \in Held(Inputs(c)),
                      e.key = d.key, e.seq < d.seq
               PROVE  Dropped(c, e)
    BY DEF Unsplit
  <2>1. d.seq <= c.smallest_snapshot
    BY <1>1 DEF Compacting
  <2> QED
    BY <2>1 DEF Dropped, Held, Inputs
<1> HIDE DEF c, outs
<1>5. /\ \A j \in DOMAIN outs : outs[j] # {} /\ outs[j] \subseteq Held(Inputs(c))
      /\ \A e \in Held(Inputs(c)) :
            (\E j \in DOMAIN outs : e \in outs[j]) <=> ~Dropped(c, e)
      /\ Rising(outs)
      /\ \E n \in Nat : DOMAIN outs = 1 .. n
  BY <1>1, <1>3, <1>4, OutsIs DEF outs
<1>6. IsFiniteSet(O)
  <2> DEFINE at == [i \in DOMAIN outs |-> outs[i]]
  <2>1. at \in Surjection(DOMAIN outs, O)
    BY DEF Surjection
  <2>2. IsFiniteSet(DOMAIN outs)
    BY <1>5, FS_Interval
  <2> HIDE DEF at, O
  <2> QED
    BY <2>1, <2>2, FS_Surjection
<1>7. Outputs(c, O)
  <2>1. \A o \in O : o # {} /\ o \subseteq Held(Inputs(c))
    BY <1>5
  <2>2. ASSUME NEW o \in O, NEW p \in O, o # p
        PROVE  \/ \A e \in o, d \in p : e.key < d.key
               \/ \A e \in o, d \in p : d.key < e.key
    <3>1. PICK i \in DOMAIN outs : o = outs[i]
      OBVIOUS
    <3>2. PICK j \in DOMAIN outs : p = outs[j]
      OBVIOUS
    <3>3. i < j \/ j < i
      BY <3>1, <3>2, <2>2, <1>5
    <3> QED
      BY <3>1, <3>2, <3>3, <1>5 DEF Rising
  <2>3. \A e \in Held(Inputs(c)) : (\E o \in O : e \in o) <=> ~Dropped(c, e)
    BY <1>5
  <2> HIDE DEF O
  <2> QED
    BY <2>1, <2>2, <2>3, <1>6 DEF Outputs
<1>8. {Table(0, outs[i]) : i \in DOMAIN outs} = {Table(0, o) : o \in O}
  OBVIOUS
<1> HIDE DEF O
<1> QED
  BY <1>1, <1>2, <1>7, <1>8, ReplaceKeeps

\* Every step keeps the invariant.
LEMMA StepKeeps ==
  ASSUME ~SplitsKeys \/ MaxSnapshots = 0, IInv, [Next]_vars
  PROVE  IInv'
<1>1. ASSUME NEW k \in Keys, NEW kind \in Kinds, Write(k, kind)
      PROVE  IInv'
  BY <1>1, WriteKeeps
<1>2. CASE GetSnapshot
  BY <1>2, SnapshotSteps
<1>3. ASSUME NEW s \in snaps, ReleaseSnapshot(s)
      PROVE  IInv'
  BY <1>3, SnapshotSteps
<1>4. CASE Flush
  BY <1>4, FlushKeeps
<1>5. ASSUME NEW level \in Levels \ {NumLevels - 1}, NEW f \in files[level], Compact(level, f)
      PROVE  IInv'
  BY <1>5, CompactKeeps
<1>6. CASE Install
  BY <1>6, InstallKeeps
<1>7. CASE UNCHANGED vars
  BY <1>7, SnapshotSteps
<1> QED
  BY <1>1, <1>2, <1>3, <1>4, <1>5, <1>6, <1>7 DEF Next

\* Whatever is written and however tables are flushed, moved and merged, the
\* invariant holds, where no output ends between two versions of a key or no
\* snapshots are taken.
THEOREM TablesInvariant ==
  ASSUME ~SplitsKeys \/ MaxSnapshots = 0
  PROVE  Spec => []IInv
<1>1. Init => IInv
  BY InitHolds
<1>2. IInv /\ [Next]_vars => IInv'
  BY StepKeeps
<1> QED
  BY <1>1, <1>2, PTL DEF Spec

\* DBImpl::Get, now or at any snapshot, finds the value of the last write to the key
\* by then, and nothing after a deletion: whatever tables the versions of the key
\* lie in, were merged into, or were left out of by DoCompactionWork.
THEOREM LookupsFindLastWrite ==
  ASSUME ~SplitsKeys \/ MaxSnapshots = 0
  PROVE  Spec => []ReadsAgree
<1>1. IInv => ReadsAgree
  BY ReadsFollow DEF IInv
<1> QED
  BY <1>1, TablesInvariant, PTL

\* Below level 0 no two tables share a user key: what flushes, moves and the
\* outputs of DoCompactionWork add to a level touches nothing that stays there.
THEOREM LevelsStayDisjoint ==
  ASSUME ~SplitsKeys \/ MaxSnapshots = 0
  PROVE  Spec => []LevelsDisjoint
<1>1. IInv => LevelsDisjoint
  BY DEF IInv
<1> QED
  BY <1>1, TablesInvariant, PTL

\* "Entries never hop across levels": of one key, what lies in a newer table of
\* level 0 or in a smaller level is newer than all that lies behind it, so that
\* Version::Get may stop at the first table that has an entry.
THEOREM EntriesNeverHop ==
  ASSUME ~SplitsKeys \/ MaxSnapshots = 0
  PROVE  Spec => []NewerAbove
<1>1. IInv => NewerAbove
  BY DEF IInv
<1> QED
  BY <1>1, TablesInvariant, PTL
============================================================================
