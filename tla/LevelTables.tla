---------------------------- MODULE LevelTables ----------------------------
(***************************************************************************)
(* The sorted tables of the vendored LevelDB (src/utils/leveldb-patched-   *)
(* windows): how writes move from the memory table into table files, how   *)
(* compactions merge tables down the levels, which versions of a key they  *)
(* drop, and how a lookup finds its way through all of it.                 *)
(*                                                                         *)
(* Logs, faults and restarts are LevelStore's; here a flush is one step    *)
(* and a compaction is two, because writers, snapshots and the flush that  *)
(* DoCompactionWork puts first all come between them.  A table's size is   *)
(* its number of entries.                                                  *)
(***************************************************************************)
EXTENDS Integers, FiniteSets, FiniteSetsExt, Sequences, SequencesExt

CONSTANTS
    NumKeys,          \* user keys are 1..NumKeys, ordered as the comparator does
    NumLevels,        \* config::kNumLevels
    MaxMemLevel,      \* config::kMaxMemCompactLevel
    TableEntries,     \* MaxFileSizeForLevel: an output this large is closed
    OverlapLimit,     \* kMaxGrandParentOverlapBytes
    ExpandLimit,      \* kExpandedCompactionByteSizeLimit
    SplitsKeys,       \* TRUE: an output may end between two versions of a key
    MaxWrites,        \* bound on the writes
    Orders,           \* bound: the orders in which keys are written
    MaxDeletions,     \* bound on the deletions among them
    MaxSnapshots      \* bound on the snapshots held at once

ASSUME TablesAssumption ==
    /\ NumKeys \in Nat \ {0} /\ MaxWrites \in Nat /\ MaxDeletions \in Nat
    /\ MaxSnapshots \in Nat
    /\ Orders \subseteq [1 .. MaxWrites -> 1 .. NumKeys]
    /\ NumLevels \in Nat /\ MaxMemLevel \in 0 .. NumLevels - 2
    /\ TableEntries \in Nat \ {0} /\ OverlapLimit \in Nat /\ ExpandLimit \in Nat
    /\ SplitsKeys \in BOOLEAN

VARIABLES
    written,     \* every write in order: its position is its sequence number
    mem,         \* the entries of the memory table
    files,       \* the current version: the tables of each level
    snaps,       \* the sequence numbers of the snapshots held
    comp         \* the compaction under way, or NoCompaction

vars == <<written, mem, files, snaps, comp>>

Keys == 1 .. NumKeys
Levels == 0 .. NumLevels - 1
Seqs == 1 .. MaxWrites
Kinds == {"value", "deletion"}

Entries == [key : Keys, seq : Seqs, kind : Kinds]
NoCompaction == [level |-> -1]

last == Len(written)

----------------------------------------------------------------------------
(* Internal keys and the files of a version.                               *)

\* A number that orders internal keys as InternalKeyComparator does: user keys
\* rise, and under one user key sequence numbers fall.
Internal(k, s) == k * (MaxWrites + 2) + (MaxWrites + 1 - s)

Place(e) == Internal(e.key, e.seq)

\* The order in which an iterator comes past the entries
Sorted(es) ==
    [i \in 1 .. Cardinality(es) |->
        CHOOSE e \in es : Cardinality({d \in es : Place(d) < Place(e)}) = i - 1]

FirstKey(f) == Min({e.key : e \in f.entries})
LastKey(f) == Max({e.key : e \in f.entries})

SmallestPlace(f) == Min({Place(e) : e \in f.entries})
LargestPlace(f) == Max({Place(e) : e \in f.entries})

\* GetRange, in user keys: all that its callers go on to look at
RangeOf(fs) == <<Min({FirstKey(f) : f \in fs}), Max({LastKey(f) : f \in fs})>>

Size(fs) == Cardinality(UNION {f.entries : f \in fs})

Touches(f, lo, hi) == LastKey(f) >= lo /\ FirstKey(f) <= hi

\* SomeFileOverlapsRange, through OverlapInLevel
OverlapInLevel(level, lo, hi) == \E f \in files[level] : Touches(f, lo, hi)

\* mutant: the search of level 0 keeps the range it was given
GetTouchingInputs(level, lo, hi) == {f \in files[level] : Touches(f, lo, hi)}

\* The tables of a level that touch lo..hi.  Level 0's may overlap each other:
\* a table that sticks out of the range widens it, and the search starts over.
GetOverlappingInputs(level, lo, hi) ==
    LET Widen(r) == RangeOf({[entries |-> {[key |-> r[1]], [key |-> r[2]]}]}
                        \union {f \in files[level] : Touches(f, r[1], r[2])})
        Reach[n \in 0 .. Cardinality(files[level])] ==
            IF n = 0 \/ level > 0 THEN <<lo, hi>> ELSE Widen(Reach[n - 1])
        range == Reach[Cardinality(files[level])]
    IN  {f \in files[level] : Touches(f, range[1], range[2])}

----------------------------------------------------------------------------
(* Lookups.  Each answers with a set: empty, or the one entry found.       *)

\* The first entry at or after <<k, s>>, if it is of that key: MemTable::Get,
\* and Table::InternalGet with SaveValue.
Seek(es, k, s) ==
    LET older == {e \in es : e.key = k /\ e.seq <= s}
    IN  {e \in older : \A d \in older : d.seq <= e.seq}

\* FindFile: the first table of a level that ends at or after <<k, s>>, unless
\* it starts after k
TableFor(level, k, s) ==
    LET after == {f \in files[level] : LargestPlace(f) >= Internal(k, s)}
    IN  {f \in after : /\ \A g \in after : SmallestPlace(f) <= SmallestPlace(g)
                       /\ FirstKey(f) <= k}

\* Version::Get: level 0 from its newest table to its oldest, then one table a
\* level; the first table that has an entry answers.
VersionGet(k, s) ==
    LET Has(f) == Seek(f.entries, k, s) # {}
        recent == {f \in files[0] : Touches(f, k, k) /\ Has(f)}
        lower == {l \in Levels \ {0} : \E f \in TableFor(l, k, s) : Has(f)}
    IN  IF recent # {}
        THEN UNION {Seek(f.entries, k, s) :
                        f \in {g \in recent : \A h \in recent : h.num <= g.num}}
        ELSE IF lower # {}
             THEN UNION {Seek(f.entries, k, s) : f \in TableFor(Min(lower), k, s)}
             ELSE {}

\* DBImpl::Get: the memory table, then the version
Get(k, s) == IF Seek(mem, k, s) # {} THEN Seek(mem, k, s) ELSE VersionGet(k, s)

----------------------------------------------------------------------------
(* Writers and snapshots.                                                  *)

Init ==
    /\ written = <<>>
    /\ mem = {}
    /\ files = [l \in Levels |-> {}]
    /\ snaps = {}
    /\ comp = NoCompaction

\* Put and Delete: the write takes the next sequence number
Write(k, kind) ==
    /\ last < MaxWrites
    /\ \E o \in Orders : o[last + 1] = k /\ \A i \in 1 .. last : o[i] = written[i].key
    /\ kind = "deletion" => Len(SelectSeq(written, LAMBDA w : w.kind = kind)) < MaxDeletions
    /\ written' = Append(written, [key |-> k, kind |-> kind])
    /\ mem' = mem \union {[key |-> k, seq |-> last + 1, kind |-> kind]}
    /\ UNCHANGED <<files, snaps, comp>>

GetSnapshot ==
    /\ last > 0 /\ last \notin snaps
    /\ Cardinality(snaps) < MaxSnapshots
    /\ snaps' = snaps \union {last}
    /\ UNCHANGED <<written, mem, files, comp>>

ReleaseSnapshot(s) ==
    /\ snaps' = snaps \ {s}
    /\ UNCHANGED <<written, mem, files, comp>>

----------------------------------------------------------------------------
(* The flush of the memory table.                                          *)

\* Table numbers only rise, and only level 0 is ever ordered by them: a number
\* is kept while the table is there, as its rank.
Newest == Max({0} \union {f.num : f \in files[0]})

Table(num, es) == [num |-> num, entries |-> es]

\* mutant: the flush goes down without a look at the level it goes to
PickDeepest(lo, hi) == IF OverlapInLevel(0, lo, hi) THEN 0 ELSE MaxMemLevel

\* A new table that overlaps nothing on its way starts as deep as
\* kMaxMemCompactLevel, unless the level under its own holds too much of its range.
PickLevelForMemTableOutput(lo, hi) ==
    LET Free(l) == /\ ~OverlapInLevel(l + 1, lo, hi)
                   /\ l + 2 < NumLevels =>
                          Size(GetOverlappingInputs(l + 2, lo, hi)) <= OverlapLimit
    IN  IF OverlapInLevel(0, lo, hi) THEN 0
        ELSE Max({l \in 0 .. MaxMemLevel : \A m \in 0 .. l - 1 : Free(m)})

\* CompactMemTable, also from inside a compaction's loop
Flush ==
    /\ mem # {}
    /\ LET f == Table(0, mem)
           level == PickLevelForMemTableOutput(FirstKey(f), LastKey(f))
           num == IF level = 0 THEN Newest + 1 ELSE 0
       IN  files' = [files EXCEPT ![level] = @ \union {Table(num, mem)}]
    /\ mem' = {}
    /\ UNCHANGED <<written, snaps, comp>>

----------------------------------------------------------------------------
(* Compactions.                                                            *)

\* SetupOtherInputs: the tables of the next level that the inputs touch; more of
\* the level itself if that brings in no further table of the next; and the
\* tables of the level after that which the whole range touches.
SetupOtherInputs(level, in0) ==
    LET Over(l, fs) == GetOverlappingInputs(l, RangeOf(fs)[1], RangeOf(fs)[2])
        in1 == Over(level + 1, in0)
        expanded0 == Over(level, in0 \union in1)
        expanded1 == Over(level + 1, expanded0)
        expands == /\ in1 # {}
                   /\ Cardinality(expanded0) > Cardinality(in0)
                   /\ Size(in1) + Size(expanded0) < ExpandLimit
                   /\ Cardinality(expanded1) = Cardinality(in1)
        upper == IF expands THEN expanded0 ELSE in0
        lower == IF expands THEN expanded1 ELSE in1
    IN  [level |-> level, in0 |-> upper, in1 |-> lower,
         grandparents |-> IF level + 2 < NumLevels
                          THEN Over(level + 2, upper \union lower) ELSE {},
         below |-> UNION {files[l] : l \in {m \in Levels : m >= level + 2}},
         smallest_snapshot |-> Min({last} \union snaps)]

\* PickCompaction from table f.  Compactions for size walk round a level and
\* compactions for seeks take the table that cost them: between them, any table
\* of any level but the last.
PickCompaction(level, f) ==
    SetupOtherInputs(level, IF level = 0
                            THEN GetOverlappingInputs(0, FirstKey(f), LastKey(f))
                            ELSE {f})

IsTrivialMove(c) ==
    Cardinality(c.in0) = 1 /\ c.in1 = {} /\ Size(c.grandparents) <= OverlapLimit

\* mutant: a deletion is dropped as soon as it is merged
AlwaysBase(c, k) == TRUE

\* IsBaseLevelForKey: no table below the compaction's two levels reaches the key
IsBaseLevelForKey(c, k) == ~\E f \in c.below : Touches(f, k, k)

\* The versions a compaction leaves out: (A) those hidden, at every snapshot, by
\* a newer version among the inputs, and deletions with nothing left to hide
Dropped(c, e) ==
    \/ \E d \in UNION {f.entries : f \in c.in0 \union c.in1} :
           d.key = e.key /\ e.seq < d.seq /\ d.seq <= c.smallest_snapshot
    \/ /\ e.kind = "deletion"
       /\ e.seq <= c.smallest_snapshot
       /\ IsBaseLevelForKey(c, e.key)

\* One turn of DoCompactionWork's loop.  The output being built ends before e
\* when it is large enough, or (ShouldStopBefore) when it has come past too much
\* of the level under it.
Merge(c, out, e) ==
    LET passed == {g \in c.grandparents : LargestPlace(g) < Place(e)}
        overlapped == out.overlapped
                      + IF out.seen_key THEN Size(passed \ out.passed) ELSE 0
        stop == overlapped > OverlapLimit
        ends == /\ out.current # {}
                /\ stop \/ Cardinality(out.current) >= TableEntries
                /\ SplitsKeys \/ \A d \in out.current : d.key # e.key
        current == IF ends THEN {} ELSE out.current
    IN  [outputs |-> IF ends THEN Append(out.outputs, out.current) ELSE out.outputs,
         current |-> IF Dropped(c, e) THEN current ELSE current \union {e},
         passed |-> passed,
         overlapped |-> IF stop THEN 0 ELSE overlapped,
         seen_key |-> TRUE]

\* The outputs of a compaction, in order
DoCompactionWork(c) ==
    LET done == FoldLeft(LAMBDA out, e : Merge(c, out, e),
                         [outputs |-> <<>>, current |-> {}, passed |-> {},
                          overlapped |-> 0, seen_key |-> FALSE],
                         Sorted(UNION {f.entries : f \in c.in0 \union c.in1}))
    IN  IF done.current = {} THEN done.outputs
        ELSE Append(done.outputs, done.current)

\* BackgroundCompaction, from a table of a level: the table goes to the next
\* level as it is, or the compaction starts, its inputs and its oldest snapshot
\* settled before the mutex is let go.
Compact(level, f) ==
    LET c == PickCompaction(level, f) IN
    /\ comp = NoCompaction
    /\ \/ /\ IsTrivialMove(c)
          /\ files' = [files EXCEPT
                ![level] = @ \ c.in0,
                ![level + 1] = @ \union {Table(0, g.entries) : g \in c.in0}]
          /\ comp' = comp
       \/ /\ ~IsTrivialMove(c)
          /\ comp' = c
          /\ files' = files
    /\ UNCHANGED <<written, mem, snaps>>

\* InstallCompactionResults, on the version that is current by now
Install ==
    LET outs == DoCompactionWork(comp) IN
    /\ comp # NoCompaction
    /\ files' = [files EXCEPT
          ![comp.level] = @ \ comp.in0,
          ![comp.level + 1] = (@ \ comp.in1) \union
              {Table(0, outs[i]) : i \in DOMAIN outs}]
    /\ comp' = NoCompaction
    /\ UNCHANGED <<written, mem, snaps>>

Next ==
    \/ \E k \in Keys, kind \in Kinds : Write(k, kind)
    \/ GetSnapshot
    \/ \E s \in snaps : ReleaseSnapshot(s)
    \/ Flush
    \/ \E level \in Levels \ {NumLevels - 1} : \E f \in files[level] : Compact(level, f)
    \/ Install

Spec == Init /\ [][Next]_vars

----------------------------------------------------------------------------
(* Properties.                                                             *)

\* What the writes up to s say of a key: the write that set it, if it is there
Said(k, s) ==
    LET ws == {i \in 1 .. s : written[i].key = k}
    IN  {i \in ws : (\A j \in ws : j <= i) /\ written[i].kind = "value"}

\* A lookup, now or at any snapshot held, finds the value of the last write to
\* the key by then, and nothing if that was a deletion: whatever tables the
\* versions of the key lie in, were merged into, or were dropped from.
ReadsAgree ==
    \A k \in Keys, s \in snaps \union {last} :
        {e.seq : e \in {g \in Get(k, s) : g.kind = "value"}} = Said(k, s)

\* Below level 0 no two tables of a level share a user key: what lets a lookup
\* and an iterator take one table a level, and what SaveTo aborts on (there in
\* internal keys).
LevelsDisjoint ==
    \A l \in Levels \ {0} : \A f, g \in files[l] :
        f # g => LastKey(f) < FirstKey(g) \/ LastKey(g) < FirstKey(f)

\* "Entries never hop across levels": of one key, what lies in a newer table of
\* level 0, or in a smaller level, is newer than all that lies behind it.
NewerAbove ==
    \A l, m \in Levels : \A f \in files[l], g \in files[m] :
        (l < m \/ (l = 0 /\ m = 0 /\ f.num > g.num)) =>
            \A e \in f.entries, d \in g.entries : e.key = d.key => e.seq > d.seq
============================================================================
