---------------------------- MODULE LevelCursor ----------------------------
(***************************************************************************)
(* An iterator over the vendored LevelDB, from DBIter (db_iter.cc) through *)
(* the merging iterator (merger.cc) down to the memory table's skip list   *)
(* and the tables' two-level iterators (LevelTable).  Each layer keeps a   *)
(* position and a direction of its own, and every turn has to be handed    *)
(* down through all of them.                                               *)
(*                                                                         *)
(* The iterator holds on to the memory table and the version it was made   *)
(* of, so what it reads never changes.  The blocks of all the tables of a  *)
(* level below 0 are one run here: its concatenating iterator is a         *)
(* TwoLevelIterator too.                                                   *)
(***************************************************************************)
EXTENDS LevelTable, FiniteSets

CONSTANTS
    NumKeys,      \* user keys are 1..NumKeys
    NumWrites,    \* the writes made before the iterator
    NumRuns,      \* the memory table and the runs of tables
    MaxOdd        \* bound on the deletions among the writes, and the writes the
                  \* iterator must not show, together

ASSUME CursorAssumption ==
    /\ NumKeys \in Nat \ {0} /\ NumWrites \in Nat \ {0}
    /\ NumRuns \in Nat \ {0} /\ MaxOdd \in Nat

VARIABLES
    written,     \* the writes, in order
    sequence,    \* sequence_: the iterator shows the writes up to this one
    runs,        \* the memory table's entries, then the tables
    iter         \* the DBIter

vars == <<written, sequence, runs, iter>>

Keys == 1 .. NumKeys
None == 0

----------------------------------------------------------------------------
(* The children: the skip list of the memory table, and the tables.        *)

\* SkipList::Iterator: the node stood at, None past either end
MemSeek(es, target) ==
    Min({i \in 1 .. Len(es) + 1 : i = Len(es) + 1 \/ ~Before(es[i].key, target)})
        % (Len(es) + 1)

MemNext(es, node) == (node + 1) % (Len(es) + 1)
MemPrev(es, node) == node - 1

IsMem(i) == i = 1

\* An operation on the iterator of a run; TableCache::NewIterator has made that
\* of a table that did not open an iterator of nothing.
OnRun(i, c, Op(_, _)) == IF runs[i].opened THEN Op(runs[i], c) ELSE c

ChildValid(i, c) ==
    IF IsMem(i) THEN c # None ELSE runs[i].opened /\ TwoLevelValid(runs[i], c)
ChildOk(i, c) == IsMem(i) \/ (runs[i].opened /\ TwoLevelOk(c))
ChildKey(i, c) == IF IsMem(i) THEN runs[i][c].key ELSE TwoLevelKey(c)
ChildValue(i, c) == IF IsMem(i) THEN runs[i][c].value ELSE TwoLevelValue(runs[i], c)
ChildSeek(i, c, target) ==
    IF IsMem(i) THEN MemSeek(runs[i], target)
    ELSE OnRun(i, c, LAMBDA t, it : TwoLevelSeek(t, it, target))
ChildSeekToFirst(i, c) ==
    IF IsMem(i) THEN 1 % (Len(runs[i]) + 1) ELSE OnRun(i, c, TwoLevelSeekToFirst)
ChildSeekToLast(i, c) ==
    IF IsMem(i) THEN Len(runs[i]) ELSE OnRun(i, c, TwoLevelSeekToLast)
ChildNext(i, c) == IF IsMem(i) THEN MemNext(runs[i], c) ELSE OnRun(i, c, TwoLevelNext)
ChildPrev(i, c) == IF IsMem(i) THEN MemPrev(runs[i], c) ELSE OnRun(i, c, TwoLevelPrev)

----------------------------------------------------------------------------
(* MergingIterator.                                                        *)

MergeValid(m) == m.current # None

\* status(): that of the first child which has an error
MergeOk(m) == \A i \in DOMAIN m.children : ChildOk(i, m.children[i])
MergeKey(m) == ChildKey(m.current, m.children[m.current])
MergeValue(m) == ChildValue(m.current, m.children[m.current])

\* The child that stands at the least or the greatest key
Extreme(m, Less(_, _)) ==
    LET valid == {i \in DOMAIN m.children : ChildValid(i, m.children[i])}
        best == {i \in valid : \A j \in valid :
                    ~Less(ChildKey(j, m.children[j]), ChildKey(i, m.children[i]))}
    IN  [m EXCEPT !.current = IF best = {} THEN None ELSE CHOOSE i \in best : TRUE]

FindSmallest(m) == Extreme(m, LAMBDA a, b : Before(a, b))
FindLargest(m) == Extreme(m, LAMBDA a, b : Before(b, a))

\* An operation on every child
OnChildren(m, Op(_, _)) ==
    [m EXCEPT !.children = [i \in DOMAIN @ |-> Op(i, @[i])]]

\* An operation on every child but the current one
OnOthers(m, Op(_, _)) ==
    OnChildren(m, LAMBDA i, c : IF i = m.current THEN c ELSE Op(i, c))

OnCurrent(m, Op(_, _)) ==
    [m EXCEPT !.children[m.current] = Op(m.current, @)]

MergeSeekToFirst(m) ==
    [FindSmallest(OnChildren(m, ChildSeekToFirst)) EXCEPT !.forward = TRUE]
MergeSeekToLast(m) ==
    [FindLargest(OnChildren(m, ChildSeekToLast)) EXCEPT !.forward = FALSE]
MergeSeek(m, target) ==
    [FindSmallest(OnChildren(m, LAMBDA i, c : ChildSeek(i, c, target)))
        EXCEPT !.forward = TRUE]

\* mutant: a turn to the front leaves the other children behind the key
MergeNextAsIs(m) ==
    [FindSmallest(OnCurrent(m, ChildNext)) EXCEPT !.forward = TRUE]

\* Next: after a turn the other children are first put after the key.
After(i, s, key) ==
    IF ChildValid(i, s) /\ ChildKey(i, s) = key THEN ChildNext(i, s) ELSE s

MergeNext(m) ==
    LET turned == IF m.forward THEN m
                  ELSE OnOthers(m, LAMBDA i, c :
                                       After(i, ChildSeek(i, c, MergeKey(m)), MergeKey(m)))
    IN  [FindSmallest(OnCurrent(turned, ChildNext)) EXCEPT !.forward = TRUE]

\* Prev: after a turn the other children are first put before the key.
Ahead(i, s) == IF ChildValid(i, s) THEN ChildPrev(i, s) ELSE ChildSeekToLast(i, s)

MergePrev(m) ==
    LET turned == IF ~m.forward THEN m
                  ELSE OnOthers(m, LAMBDA i, c : Ahead(i, ChildSeek(i, c, MergeKey(m))))
    IN  [FindLargest(OnCurrent(turned, ChildPrev)) EXCEPT !.forward = FALSE]

----------------------------------------------------------------------------
(* DBIter.  Forward it stands at the entry it shows; in reverse just before *)
(* all entries of the key it shows, which it has saved.                     *)

UserKey(m) == MergeKey(m)[1]
IsSeen(m) == MergeValue(m).seq <= sequence
IsDeletion(m) == MergeValue(m).kind = "deletion"

Key(it) == IF it.forward THEN UserKey(it.m) ELSE it.saved_key
Value(it) == IF it.forward THEN MergeValue(it.m).seq ELSE it.saved_value

Exhausted(it) == [it EXCEPT !.valid = FALSE, !.saved_key = None]

\* FindNextUserEntry: to the next entry that is seen, is no deletion and is not
\* of a key to skip; a deletion makes its key one
RECURSIVE FindNextUserEntry(_, _, _)
FindNextUserEntry(it, skipping, skip) ==
    LET m == it.m
        deleted == IsSeen(m) /\ IsDeletion(m)
    IN  IF ~MergeValid(m) THEN Exhausted(it)
        ELSE IF IsSeen(m) /\ ~deleted /\ (skipping => UserKey(m) > skip)
        THEN [it EXCEPT !.valid = TRUE, !.saved_key = None]
        ELSE FindNextUserEntry([it EXCEPT !.m = MergeNext(m)], skipping \/ deleted,
                               IF deleted THEN UserKey(m) ELSE skip)

\* FindPrevUserEntry: back over the entries of a key, the last one seen winning,
\* until one of a smaller key is met
Saved(it) ==
    IF ~IsSeen(it.m) THEN it
    ELSE IF IsDeletion(it.m) THEN [it EXCEPT !.saved_key = None, !.saved_value = None]
    ELSE [it EXCEPT !.saved_key = UserKey(it.m), !.saved_value = MergeValue(it.m).seq]

RECURSIVE FindPrevUserEntry(_, _)
FindPrevUserEntry(it, value_type) ==
    LET m == it.m
    IN  IF ~MergeValid(m) \/ ( /\ IsSeen(m)
                               /\ value_type # "deletion"
                               /\ UserKey(m) < it.saved_key )
        THEN IF value_type = "deletion"
             THEN [Exhausted(it) EXCEPT !.saved_value = None, !.forward = TRUE]
             ELSE [it EXCEPT !.valid = TRUE]
        ELSE FindPrevUserEntry([Saved(it) EXCEPT !.m = MergePrev(m)],
                               IF IsSeen(m) THEN MergeValue(m).kind ELSE value_type)

\* The turn in Prev: back until the key changes
RECURSIVE BackPast(_, _)
BackPast(m, key) ==
    IF MergeValid(m) /\ UserKey(m) >= key THEN BackPast(MergePrev(m), key) ELSE m

----------------------------------------------------------------------------
(* The calls on the iterator.                                              *)

\* NewDBIterator over a NewMergingIterator of new children
NewIterator(rs) ==
    [m |-> [children |-> [i \in DOMAIN rs |->
                             IF IsMem(i) THEN None
                             ELSE IF rs[i].opened THEN NewTableIter(rs[i])
                             ELSE NoData],
            current |-> None, forward |-> TRUE],
     forward |-> TRUE, valid |-> FALSE, saved_key |-> None, saved_value |-> None]

\* The entries of one run, in order
EntriesOf(ws, is) ==
    LET es == {[key |-> <<ws[i].key, -i>>, value |-> [seq |-> i, kind |-> ws[i].kind]] :
                   i \in is}
    IN  [n \in 1 .. Cardinality(es) |->
            CHOOSE e \in es : Cardinality({d \in es : Before(d.key, e.key)}) = n - 1]

Deletions == Cardinality({i \in DOMAIN written : written[i].kind = "deletion"})
Newer == NumWrites - sequence

\* The ways in which a file may have suffered
Spoilt(f) == {SpoilFooter(f)} \union {SpoilBlock(f, o) : o \in DataBlocks(f.raw)}

\* Any writes, lying in the runs in any way that compactions leave: of one key,
\* newer versions in earlier runs.  The order of writes to different keys makes
\* no difference to an iterator that shows them all, so those come key by key.
\* A run of no tables has no iterator.  The
\* newest table may have been damaged since it was written; to bound the states,
\* only it, and only where every write is a value to be shown.
Init ==
    /\ written \in [1 .. NumWrites -> [key : Keys, kind : {"value", "deletion"}]]
    /\ sequence \in 1 .. NumWrites
    /\ Deletions + Newer <= MaxOdd
    /\ Newer = 0 => \A i \in 1 .. NumWrites - 1 : written[i].key <= written[i + 1].key
    /\ \E home \in [1 .. NumWrites -> 1 .. NumRuns] :
        /\ \A i, j \in 1 .. NumWrites :
               i < j /\ written[i].key = written[j].key => home[j] <= home[i]
        /\ LET In(r) == {i \in 1 .. NumWrites : home[i] = r}
               used == SelectSeq([r \in 1 .. NumRuns - 1 |-> r + 1], LAMBDA r : In(r) # {})
               files == [i \in DOMAIN used |-> TableFile(EntriesOf(written, In(used[i])))]
               spoilt == IF Deletions + Newer # 0 \/ files = <<>> THEN {}
                         ELSE {[files EXCEPT ![1] = f] : f \in Spoilt(files[1])}
           IN  \E left \in {files} \union spoilt :
                   runs = <<EntriesOf(written, In(1))>> \o
                          [i \in DOMAIN left |-> Open(left[i])]
    /\ iter = NewIterator(runs)

SeekToFirst ==
    iter' = FindNextUserEntry([iter EXCEPT !.forward = TRUE, !.saved_value = None,
                                           !.m = MergeSeekToFirst(@)], FALSE, None)

SeekToLast ==
    iter' = FindPrevUserEntry([iter EXCEPT !.forward = FALSE, !.saved_value = None,
                                           !.m = MergeSeekToLast(@)], "deletion")

Seek(k) ==
    iter' = FindNextUserEntry([iter EXCEPT !.forward = TRUE, !.saved_value = None,
                                           !.m = MergeSeek(@, <<k, -sequence>>)], FALSE, None)

\* Next: after a walk back the iterator stands before the entries of its key.
Next ==
    /\ iter.valid
    /\ IF iter.forward
       THEN iter' = FindNextUserEntry([iter EXCEPT !.saved_key = UserKey(iter.m)],
                                      TRUE, UserKey(iter.m))
       ELSE LET m == IF MergeValid(iter.m) THEN MergeNext(iter.m)
                     ELSE MergeSeekToFirst(iter.m)
            IN  iter' = FindNextUserEntry([iter EXCEPT !.forward = TRUE, !.m = m],
                                          TRUE, iter.saved_key)

\* Prev: after a walk forward it first goes back past the entries of its key.
AfterTurn(it) ==
    IF MergeValid(it.m) THEN FindPrevUserEntry([it EXCEPT !.forward = FALSE], "deletion")
    ELSE [Exhausted(it) EXCEPT !.saved_value = None]

Prev ==
    /\ iter.valid
    /\ IF ~iter.forward
       THEN iter' = FindPrevUserEntry(iter, "deletion")
       ELSE iter' = AfterTurn([iter EXCEPT !.m = BackPast(@, UserKey(@)),
                                           !.saved_key = UserKey(iter.m)])

\* Seeking the first of all keys is SeekToFirst.
Targets == 2 .. NumKeys + 1

Call ==
    /\ \/ SeekToFirst
       \/ SeekToLast
       \/ \E k \in Targets : Seek(k)
       \/ Next
       \/ Prev
    /\ UNCHANGED <<written, sequence, runs>>

Spec == Init /\ [][Call]_vars

----------------------------------------------------------------------------
(* Properties.                                                             *)

\* The writes in a block, those a table was made of, and those it can still show
Writes(b) == {b.data[e].value.seq : e \in DOMAIN b.data}
Held(t) == UNION {Writes(t.raw[o].crc) : o \in DataBlocks(t.raw)}
Left(t) ==
    IF ~t.opened THEN {}
    ELSE UNION {Writes(t.raw[o].crc) :
                    o \in {b \in DataBlocks(t.raw) : t.raw[b].contents = t.raw[b].crc}}

Newest(ns) == {n \in ns : \A m \in ns : m <= n}

\* A lookup in a table, through its index and one block, meets the newest
\* version of the key that is not newer than asked for, when the table has one,
\* or says that a block is damaged; that it says only when it cannot tell.
LookupsAgree ==
    iter = NewIterator(runs) =>
        \A i \in {j \in 2 .. Len(runs) : runs[j].opened}, k \in Keys, s \in 1 .. NumWrites :
            LET got == InternalGet(runs[i], <<k, -s>>)
                seqs == {e.value.seq : e \in {g \in got.saved : g.key[1] = k}}
            IN  /\ got.ok => seqs = Newest({n \in Held(runs[i]) : n <= s /\ written[n].key = k})
                /\ Left(runs[i]) = Held(runs[i]) => got.ok

\* What an iterator is to show of some writes
View(ns) ==
    {<<written[i].key, i>> : i \in {j \in ns : /\ j <= sequence
        /\ written[j].kind = "value"
        /\ \A n \in ns : j < n /\ n <= sequence => written[n].key # written[j].key}}

\* The writes that the runs can still show, and where the iterator stands
Surviving ==
    {runs[1][n].value.seq : n \in DOMAIN runs[1]}
        \union UNION {Left(runs[i]) : i \in 2 .. Len(runs)}

At == IF iter.valid THEN {<<Key(iter), Value(iter)>>} ELSE {}

Promised == INSTANCE LevelScan WITH view <- View(DOMAIN written), at <- At
Salvaged == INSTANCE LevelScan WITH view <- View(Surviving), at <- At

\* Whatever calls are made in whatever order, the iterator walks the keys that
\* were there, each with the value of its last write: an overwritten value, a
\* deleted key or a write made since never shows, and no key is passed over or
\* shown twice at a turn.  A table that does not open or a block that cannot be
\* read is left out, and nothing else; and whoever asks for the status has been
\* told before a step shows anything but what was stored.
Scan ==
    /\ Promised!Init
    /\ [][/\ Salvaged!Step(Targets)
          /\ ~MergeOk(iter'.m) \/ Promised!Step(Targets)]_vars
============================================================================
