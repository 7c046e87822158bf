----------------------------- MODULE LevelReads -----------------------------
(***************************************************************************)
(* Reads of the vendored LevelDB while it is written: DBImpl::Get and      *)
(* NewIterator hold on to two memory tables and a version and then look    *)
(* through them without the mutex, while a writer links nodes into the     *)
(* skip list they walk, a memory table is switched and flushed, files are  *)
(* compacted and deleted, and the cache closes tables.                     *)
(*                                                                         *)
(* The levels of a version are one sequence here, newest file first        *)
(* (LevelTables has the levels and the deletions), and a compaction takes  *)
(* all of its files.  A failing write is LevelStore's.                     *)
(***************************************************************************)
EXTENDS LevelSkipList, LevelCache, FiniteSetsExt

CONSTANTS
    Readers,        \* threads that read
    NumKeys,        \* user keys are 1..NumKeys
    MaxWrites,      \* bound on the writes
    Orders,         \* bound: the orders in which keys are written
    MaxFiles,       \* bound on the table files ever written
    Ops             \* what readers do: "get", "forward", "backward"

ASSUME ReadsAssumption ==
    /\ NumKeys \in Nat \ {0} /\ MaxWrites \in Nat
    /\ MaxFiles \in Nat
    /\ \A o \in Orders : Len(o) = MaxWrites /\ ToSet(o) \subseteq 1 .. NumKeys
    /\ Ops \subseteq {"get", "forward", "backward"}

VARIABLES
    written,        \* every write in order: its position is its sequence number
    last,           \* versions_->LastSequence()
    ins,            \* the insertion under way, or NoInsert
    mems,           \* the memory tables: their skip list and references
    mem, imm,       \* mem_, and imm_ or None
    files,          \* the table files there are, and the entries of each
    new_file,       \* versions_->NewFileNumber()
    current,        \* the current version's files, newest first
    vrefs,          \* the versions there are, and their references
    cache,          \* the table cache
    flush, comp,    \* the background thread's flush and compaction, or Idle
    rd              \* the readers

vars == <<written, last, ins, mems, mem, imm, files, new_file, current, vrefs,
          cache, flush, comp, rd>>

Keys == 1 .. NumKeys
None == 0
NoInsert == [node |-> Null]
Idle == [pc |-> "idle"]

\* Internal keys are places in the order of InternalKeyComparator: user keys rise,
\* and under one user key sequence numbers fall.
Internal(k, s) == k * (MaxWrites + 2) + (MaxWrites + 1 - s)
KeyOf(n) == n \div (MaxWrites + 2)
SequenceOf(n) == MaxWrites + 1 - (n % (MaxWrites + 2))

Nodes(m) == DOMAIN mems[m].list.next \ {HeadNode}

----------------------------------------------------------------------------
(* References.                                                             *)

Ref(refs, x) == [refs EXCEPT ![x] = @ + 1]

Freed(refs, x) ==
    IF refs[x] = 1 THEN [y \in DOMAIN refs \ {x} |-> refs[y]]
    ELSE [refs EXCEPT ![x] = @ - 1]

MemRef(ms, m) == IF m = None THEN ms ELSE [ms EXCEPT ![m].refs = @ + 1]

\* MemTable::Unref: the last reference frees the arena and every node in it
MemUnref(ms, m) ==
    IF m = None THEN ms
    ELSE IF ms[m].refs = 1 THEN [x \in DOMAIN ms \ {m} |-> ms[x]]
    ELSE [ms EXCEPT ![m].refs = @ - 1]

\* AppendVersion: the version set lets go of the version that was current.  Two
\* versions without a file count as one.
AppendVersion(refs, from, to) ==
    IF to \in DOMAIN refs THEN Freed(Ref(refs, to), from)
    ELSE Freed((to :> 1) @@ refs, from)

Init ==
    /\ written = <<>> /\ last = 0 /\ ins = NoInsert
    /\ mems = (1 :> [list |-> NewList, refs |-> 1])
    /\ mem = 1 /\ imm = None
    /\ files = <<>> /\ new_file = 1
    /\ current = <<>> /\ vrefs = (<<>> :> 1)
    /\ cache = NewLRUCache
    /\ flush = Idle /\ comp = Idle
    /\ rd = [r \in Readers |-> Idle]

----------------------------------------------------------------------------
(* The writer at the head of the queue.                                    *)

stored == <<files, new_file, current, vrefs, cache, flush, comp>>

\* MemTable::Add, outside the mutex: a node of a random height
MemAdd(k, height) ==
    LET n == Internal(k, last + 1)
        list == mems[mem].list
    IN  /\ ins = NoInsert /\ last < MaxWrites
        /\ \E o \in Orders : IsPrefix(Append(written, k), o)
        /\ written' = Append(written, k)
        /\ ins' = [node |-> n, prev |-> Prevs(list, n), level |-> 0, height |-> height]
        /\ mems' = [mems EXCEPT ![mem].list = Grow(@, n, height)]
        /\ UNCHANGED <<last, mem, imm, rd, stored>>

MemLink ==
    /\ ins # NoInsert /\ ins.level < ins.height
    /\ mems' = [mems EXCEPT ![mem].list = Link(@, ins.node, ins.prev, ins.level)]
    /\ ins' = [ins EXCEPT !.level = @ + 1]
    /\ UNCHANGED <<written, last, mem, imm, rd, stored>>

\* Back under the mutex, SetLastSequence
Publish ==
    /\ ins # NoInsert /\ ins.level = ins.height
    /\ last' = last + 1
    /\ ins' = NoInsert
    /\ UNCHANGED <<written, mems, mem, imm, rd, stored>>

\* MakeRoomForWrite, whatever the size that was reached
SwitchMemTable ==
    LET new == CHOOSE m \in 1 .. Cardinality(DOMAIN mems) + 1 : m \notin DOMAIN mems
    IN  /\ ins = NoInsert /\ imm = None /\ Nodes(mem) # {}
        /\ imm' = mem /\ mem' = new
        /\ mems' = mems @@ (new :> [list |-> NewList, refs |-> 1])
        /\ UNCHANGED <<written, last, ins, rd, stored>>

----------------------------------------------------------------------------
(* The background thread.                                                  *)

memory == <<written, last, ins, rd>>

\* mutant: only the files of the version that has become current
LiveNow(refs, pending) == pending \union ToSet(current')

\* The files of the versions there are, and the outputs that are in none yet
Live(refs, pending) == pending \union UNION {ToSet(v) : v \in DOMAIN refs}

DeleteObsoleteFiles(refs, pending, c) ==
    LET gone == DOMAIN files \ Live(refs, pending)
    IN  /\ files' = [f \in DOMAIN files \cap Live(refs, pending) |-> files[f]]
        /\ cache' = FoldLeft(LAMBDA d, f : Erase(d, f), c, SetToSeq(gone))

Pending(work) == IF work = Idle THEN {} ELSE {work.file} \ {None}

\* WriteLevel0Table: the table, complete and closed
FlushBuild ==
    /\ imm # None /\ flush = Idle /\ new_file < MaxFiles
    /\ comp = Idle \/ comp.pc = "merging"
    /\ files' = files @@ (new_file :> Nodes(imm))
    /\ flush' = [pc |-> "built", file |-> new_file, handle |-> None]
    /\ new_file' = new_file + 1
    /\ UNCHANGED <<memory, mems, mem, imm, current, vrefs, cache, comp>>

\* Before it counts, BuildTable opens the table through the cache.
FlushOpen ==
    /\ flush.pc = "built"
    /\ cache' = Insert(cache, flush.file)
    /\ flush' = [flush EXCEPT !.pc = "opened", !.handle = Fresh(cache)]
    /\ UNCHANGED <<memory, mems, mem, imm, files, new_file, current, vrefs, comp>>

FlushClose ==
    /\ flush.pc = "opened"
    /\ cache' = Release(cache, flush.handle)
    /\ flush' = [flush EXCEPT !.pc = "checked", !.handle = None]
    /\ UNCHANGED <<memory, mems, mem, imm, files, new_file, current, vrefs, comp>>

\* mutant: the new table is looked at last
FlushedLast(f) == Append(current, f)

WithFlushed(f) == <<f>> \o current

\* CompactMemTable, its edit applied
FlushInstall ==
    LET version == WithFlushed(flush.file)
        refs == AppendVersion(vrefs, current, version)
    IN  /\ flush.pc = "checked"
        /\ current' = version /\ vrefs' = refs
        /\ mems' = MemUnref(mems, imm) /\ imm' = None
        /\ flush' = Idle
        /\ DeleteObsoleteFiles(refs, Pending(comp), cache)
        /\ UNCHANGED <<memory, mem, new_file, comp>>

\* BackgroundCompaction: the inputs hold their version
CompactStart ==
    /\ imm = None /\ flush = Idle /\ comp = Idle /\ Len(current) > 1
    /\ comp' = [pc |-> "opening", inputs |-> current, todo |-> current, handles |-> {},
                file |-> None, smallest_snapshot |-> last]
    /\ vrefs' = Ref(vrefs, current)
    /\ UNCHANGED <<memory, mems, mem, imm, files, new_file, current, cache, flush>>

\* MakeInputIterator: an iterator, and so a handle, for every input
CompactOpen ==
    LET f == comp.todo[1] IN
    /\ comp.pc = "opening" /\ comp.todo # <<>>
    /\ cache' = IF Found(cache, f) THEN Lookup(cache, f) ELSE Insert(cache, f)
    /\ comp' = [comp EXCEPT !.todo = Tail(@),
                            !.handles = @ \union {IF Found(cache, f) THEN cache.table[f]
                                                  ELSE Fresh(cache)},
                            !.pc = IF Len(comp.todo) = 1 THEN "merging" ELSE @]
    /\ UNCHANGED <<memory, mems, mem, imm, files, new_file, current, vrefs, flush>>

\* What DoCompactionWork keeps: all but what a newer entry hides from every reader
\* that is still to come
Kept(ns, smallest) ==
    {n \in ns : ~\E m \in ns : /\ KeyOf(m) = KeyOf(n)
                               /\ SequenceOf(n) < SequenceOf(m) /\ SequenceOf(m) <= smallest}

\* DoCompactionWork between two flushes, up to the end of its output
CompactMerge ==
    LET out == Kept(UNION {files[f] : f \in ToSet(comp.inputs)}, comp.smallest_snapshot)
    IN  /\ comp.pc = "merging" /\ flush = Idle
        /\ files' = files @@ (new_file :> out)
        /\ comp' = [comp EXCEPT !.pc = "built", !.file = new_file]
        /\ new_file' = new_file + 1
        /\ UNCHANGED <<memory, mems, mem, imm, current, vrefs, cache, flush>>

\* FinishCompactionOutputFile opens the output once, too.
CompactVerify ==
    /\ comp.pc = "built"
    /\ cache' = Release(Insert(cache, comp.file), Fresh(cache))
    /\ comp' = [comp EXCEPT !.pc = "checked"]
    /\ UNCHANGED <<memory, mems, mem, imm, files, new_file, current, vrefs, flush>>

\* The input iterator goes, then the output takes the inputs' place in whatever
\* version is current by now
CompactInstall ==
    LET kept == SelectSeq(current, LAMBDA f : f \notin ToSet(comp.inputs))
        version == Append(kept, comp.file)
        refs == Freed(AppendVersion(vrefs, current, version), comp.inputs)
    IN  /\ comp.pc = "checked"
        /\ current' = version /\ vrefs' = refs
        /\ comp' = Idle
        /\ DeleteObsoleteFiles(refs, {},
               FoldLeft(LAMBDA d, h : Release(d, h), cache, SetToSeq(comp.handles)))
        /\ UNCHANGED <<memory, mems, mem, imm, new_file, flush>>

----------------------------------------------------------------------------
(* Readers.                                                                *)

\* all that a reader leaves alone but its references and the cache
world == <<written, last, ins, mem, imm, files, new_file, current, flush, comp>>

\* Get's and NewInternalIterator's first part, under the mutex.  An iterator
\* opens its tables first, a lookup the memory tables.
Begin(r, op, k) ==
    /\ rd[r] = Idle
    /\ op # "get" => k = 1
    /\ rd' = [rd EXCEPT ![r] =
          [pc |-> IF op = "get" THEN "search" ELSE "table", op |-> op, key |-> k,
           snapshot |-> last, mem |-> mem, imm |-> imm, version |-> current,
           in |-> mem, at |-> Null, todo |-> current, handles |-> {}, got |-> <<>>]]
    /\ mems' = MemRef(MemRef(mems, mem), imm)
    /\ vrefs' = Ref(vrefs, current)
    /\ UNCHANGED <<world, cache>>

Moves(r, new) ==
    /\ rd' = [rd EXCEPT ![r] = new]
    /\ UNCHANGED <<world, mems, vrefs, cache>>

List(r) == mems[rd[r].in].list

\* The height is read without a barrier: any that the list has had so far
Height(r) == 1 .. List(r).max_height

\* MemTable::Get and the iterator's SeekToLast and Prev start a walk.
Search(r) ==
    LET at == rd[r]
        target == IF at.op = "get" THEN Internal(at.key, at.snapshot)
                  ELSE IF at.at = Null THEN Infinity ELSE at.at
    IN  /\ at.pc = "search"
        /\ \E h \in Height(r) :
               Moves(r, [at EXCEPT !.pc = "walk", !.at = StartWalk(target, h)])

Step(r) ==
    /\ rd[r].pc = "walk" /\ ~EndsAfter(List(r), rd[r].at)
    /\ Moves(r, [rd[r] EXCEPT !.at = Walk(List(r), @)])

\* MemTable::Get: the node found answers if it is of the key
MemGet(r) ==
    LET at == rd[r]
        n == Follow(List(r), at.at)
    IN  /\ at.pc = "walk" /\ at.op = "get" /\ EndsAfter(List(r), at.at)
        /\ Moves(r, IF n # Null /\ KeyOf(n) = at.key
                    THEN [at EXCEPT !.pc = "done", !.at = Null, !.got = <<n>>]
                    ELSE IF at.in = at.mem /\ at.imm # None
                         THEN [at EXCEPT !.pc = "search", !.at = Null, !.in = at.imm]
                         ELSE [at EXCEPT !.pc = "table", !.at = Null])

\* An iterator that stands on n, or is past the end
Stands(at, n) ==
    IF n = Null THEN [at EXCEPT !.pc = "done", !.at = Null]
    ELSE [at EXCEPT !.pc = IF @ = "walk" THEN "search" ELSE @, !.at = n,
                    !.got = Append(@, n)]

\* SeekToLast and Prev, their walk at its end
MemPrev(r) ==
    /\ rd[r].pc = "walk" /\ rd[r].op = "backward" /\ EndsAfter(List(r), rd[r].at)
    /\ Moves(r, Stands(rd[r], NodeOf(rd[r].at.x)))

\* SeekToFirst and Next
MemNext(r) ==
    LET x == IF rd[r].at = Null THEN HeadNode ELSE rd[r].at
    IN  /\ rd[r].pc = "next"
        /\ Moves(r, Stands(rd[r], List(r).next[x][0]))

\* FindTable, and the next table to look at or to add to an iterator.  A table
\* that is not in the cache is opened outside the cache's mutex.
TableFound(r) ==
    LET f == rd[r].todo[1] IN
    /\ rd[r].pc = "table" /\ rd[r].todo # <<>> /\ Found(cache, f)
    /\ cache' = Lookup(cache, f)
    /\ rd' = [rd EXCEPT ![r].pc = "holds", ![r].handles = @ \union {cache.table[f]}]
    /\ UNCHANGED <<world, mems, vrefs>>

TableMissed(r) ==
    /\ rd[r].pc = "table" /\ rd[r].todo # <<>> /\ ~Found(cache, rd[r].todo[1])
    /\ Moves(r, [rd[r] EXCEPT !.pc = "opens"])

TableOpened(r) ==
    /\ rd[r].pc = "opens"
    /\ cache' = Insert(cache, rd[r].todo[1])
    /\ rd' = [rd EXCEPT ![r].pc = "holds", ![r].handles = @ \union {Fresh(cache)}]
    /\ UNCHANGED <<world, mems, vrefs>>

\* An error is not cached; the lookup ends with it, an iterator goes on without.
TableFails(r) ==
    /\ rd[r].pc = "opens"
    /\ Moves(r, [rd[r] EXCEPT !.pc = IF rd[r].op = "get" THEN "failed" ELSE "table",
                              !.todo = Tail(@)])

\* The entry of a table for a key: InternalGet with SaveValue
TableEntry(f, k, s) ==
    LET ns == {n \in files[f] : KeyOf(n) = k /\ n >= Internal(k, s)}
    IN  IF ns = {} THEN <<>> ELSE <<Min(ns)>>

\* TableCache::Get: look, and let go of the handle
TableGet(r) ==
    LET at == rd[r]
        h == CHOOSE h \in at.handles : TRUE
        entry == TableEntry(cache.key[h], at.key, at.snapshot)
    IN  /\ at.pc = "holds" /\ at.op = "get"
        /\ cache' = Release(cache, h)
        /\ rd' = [rd EXCEPT ![r] = [at EXCEPT
              !.handles = {}, !.todo = Tail(@), !.got = entry,
              !.pc = IF entry = <<>> THEN "table" ELSE "done"]]
        /\ UNCHANGED <<world, mems, vrefs>>

\* TableCache::NewIterator keeps it until the iterator goes.
TableKept(r) ==
    /\ rd[r].pc = "holds" /\ rd[r].op # "get"
    /\ Moves(r, [rd[r] EXCEPT !.pc = "table", !.todo = Tail(@)])

\* Every table looked at: not found; or every one opened, and the walk begins.
TablesEnd(r) ==
    /\ rd[r].pc = "table" /\ rd[r].todo = <<>>
    /\ Moves(r, [rd[r] EXCEPT !.pc = IF rd[r].op = "get" THEN "done"
                                     ELSE IF rd[r].op = "forward" THEN "next" ELSE "search"])

\* Get's last part, or CleanupIteratorState and UnrefEntry
End(r) ==
    LET at == rd[r] IN
    /\ at.pc \in {"done", "failed"}
    /\ mems' = MemUnref(MemUnref(mems, at.mem), at.imm)
    /\ vrefs' = Freed(vrefs, at.version)
    /\ cache' = FoldLeft(LAMBDA d, h : Release(d, h), cache, SetToSeq(at.handles))
    /\ rd' = [rd EXCEPT ![r] = Idle]
    /\ UNCHANGED world

Next ==
    \/ \E k \in Keys, height \in 1 .. kMaxHeight : MemAdd(k, height)
    \/ MemLink \/ Publish \/ SwitchMemTable
    \/ FlushBuild \/ FlushOpen \/ FlushClose \/ FlushInstall
    \/ CompactStart \/ CompactOpen \/ CompactMerge \/ CompactVerify \/ CompactInstall
    \/ \E r \in Readers :
        \/ \E op \in Ops, k \in Keys : Begin(r, op, k)
        \/ Search(r) \/ Step(r) \/ MemGet(r) \/ MemPrev(r) \/ MemNext(r)
        \/ TableFound(r) \/ TableMissed(r) \/ TableOpened(r) \/ TableFails(r)
        \/ TableGet(r) \/ TableKept(r) \/ TablesEnd(r) \/ End(r)

Spec == Init /\ [][Next]_vars

----------------------------------------------------------------------------
(* Properties.                                                             *)

\* The last write to k among the first s
Newest(k, s) ==
    LET ws == {i \in 1 .. s : written[i] = k}
    IN  IF ws = {} THEN <<>> ELSE <<Internal(k, Max(ws))>>

\* A lookup answers with the last write that was complete when it began, whatever
\* was written, switched, flushed, merged and deleted since.
GetsNewest ==
    \A r \in Readers : rd[r].pc = "done" /\ rd[r].op = "get" =>
        rd[r].got = Newest(rd[r].key, rd[r].snapshot)

\* An iterator passes every node that was complete when it began, once and in
\* order, among nodes that are still being linked.  (A reader that comes to a
\* pointer nobody has written has no next step that could be evaluated.)
ScansWhole ==
    \A r \in Readers : rd[r].pc # "idle" =>
        LET got == rd[r].got
            old == {n \in Nodes(rd[r].in) : SequenceOf(n) <= rd[r].snapshot}
        IN  rd[r].op # "get" =>
                /\ \A i, j \in DOMAIN got : i < j =>
                       IF rd[r].op = "forward" THEN got[i] < got[j] ELSE got[i] > got[j]
                /\ rd[r].pc = "done" => old \subseteq ToSet(got)

\* The handles somebody holds on an entry of the cache
Holders(h) ==
    Cardinality({r \in Readers : rd[r] # Idle /\ h \in rd[r].handles})
    + (IF comp # Idle /\ h \in comp.handles THEN 1 ELSE 0)
    + (IF flush # Idle /\ h = flush.handle THEN 1 ELSE 0)

\* An open table stays open while somebody reads it, is closed when the cache and
\* the last reader have let go, and is the table its holder asked for.
OpenWhileHeld ==
    /\ \A h \in Handles :
           cache.refs[h] = Holders(h) + (IF h \in Listed(cache) THEN 1 ELSE 0)
    /\ \A r \in Readers : rd[r] # Idle =>
           \A h \in rd[r].handles : cache.key[h] \in ToSet(rd[r].version)

\* Memory tables and files live as long as a reader may look at them, and no
\* longer than they are of use: nothing keeps a deleted file open for good.
HeldAlive ==
    /\ \A r \in Readers : rd[r] # Idle =>
           /\ {rd[r].mem, rd[r].imm} \ {None} \subseteq DOMAIN mems
           /\ ToSet(rd[r].version) \subseteq DOMAIN files
    /\ \A m \in DOMAIN mems :
           m \in {mem, imm} \/ \E r \in Readers : rd[r] # Idle /\ m \in {rd[r].mem, rd[r].imm}
    /\ DOMAIN cache.table \subseteq DOMAIN files
=============================================================================
