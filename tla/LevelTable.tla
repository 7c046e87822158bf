----------------------------- MODULE LevelTable -----------------------------
(***************************************************************************)
(* The layout of a table file of the vendored LevelDB and the iterators    *)
(* over it: block_builder.cc and table_builder.cc write it; format.cc,     *)
(* table.cc, block.cc and two_level_iterator.cc read it.                   *)
(*                                                                         *)
(* An internal key is <<user key, tag>>; the tag falls as the sequence     *)
(* number rises, so that tuples compare as InternalKeyComparator compares. *)
(* An offset in a block is the number of entries before it.  An iterator   *)
(* is a record, and its operations are functions on it.                    *)
(***************************************************************************)
EXTENDS Integers, Sequences, SequencesExt, FiniteSetsExt

CONSTANTS
    RestartInterval,   \* options.block_restart_interval
    BlockEntries       \* options.block_size, in entries

ASSUME TableAssumption ==
    RestartInterval \in Nat \ {0} /\ BlockEntries \in Nat \ {0}

Before(a, b) == a[1] < b[1] \/ (a[1] = b[1] /\ a[2] < b[2])

----------------------------------------------------------------------------
(* Writing.                                                                *)

\* BlockBuilder::Add: an entry keeps only what its key does not share with the
\* key before it, and every interval entries a key is kept whole.
AddToBlock(b, e, interval) ==
    LET restart == b.counter >= interval
        shared == IF restart \/ b.last_key = <<>> \/ b.last_key[1] # e.key[1]
                  THEN 0 ELSE 1
    IN  [data |-> Append(b.data, [shared |-> shared,
                                  rest |-> SubSeq(e.key, shared + 1, 2),
                                  value |-> e.value]),
         restarts |-> IF restart THEN Append(b.restarts, Len(b.data)) ELSE b.restarts,
         counter |-> IF restart THEN 1 ELSE b.counter + 1,
         last_key |-> e.key]

\* A block from Reset to Finish
Block(es, interval) ==
    LET b == FoldLeft(LAMBDA built, e : AddToBlock(built, e, interval),
                      [data |-> <<>>, restarts |-> <<0>>,
                       counter |-> 0, last_key |-> <<>>], es)
    IN  [data |-> b.data, restarts |-> b.restarts]

\* The tag of an internal key that comes before all others of its user key
FirstTag == -100

\* mutant: the index key of a block is the first key of the next
SeparatorTooFar(a, b) == b

\* FindShortestSeparator of the two comparators: a shorter user key between the
\* two, with the tag that comes first, if there is one; the first key if not
Separator(a, b) == IF a[1] + 1 < b[1] THEN <<a[1] + 1, FirstTag>> ELSE a

\* TableBuilder::Add and Flush: the entries in blocks of BlockEntries
InBlocks(es) ==
    LET n == (Len(es) + BlockEntries - 1) \div BlockEntries
    IN  [i \in 1 .. n |-> SubSeq(es, (i - 1) * BlockEntries + 1,
                                 IF i = n THEN Len(es) ELSE i * BlockEntries)]

\* The key of a block in the index: made when the next block's first key is
\* known, or (FindShortSuccessor) by Finish
IndexKey(parts, i) ==
    IF i < Len(parts) THEN Separator(Last(parts[i]).key, Head(parts[i + 1]).key)
    ELSE <<Last(parts[i]).key[1] + 1, FirstTag>>

\* A file is its raw blocks by their offsets, and the footer.  A checksum is
\* what it was taken of: it tells every damage.
Magic == "kTableMagicNumber"

\* TableBuilder::WriteBlock and WriteRawBlock: the block and its trailer.  That
\* the block is compressed, where snappy is built in, is left out, here and in
\* ReadBlock.
WriteBlock(f, b) ==
    [f EXCEPT !.raw = @ @@ (f.offset :> [contents |-> b, crc |-> b]),
              !.offset = @ + Len(b.data) + 1]

\* The BlockHandle of the block that is written next
Handle(f, b) == [offset |-> f.offset, size |-> Len(b.data)]

\* TableBuilder::Finish: the data blocks, the metaindex block, the index block
\* and the footer
TableFile(es) ==
    LET parts == InBlocks(es)
        blocks == [i \in DOMAIN parts |-> Block(parts[i], RestartInterval)]
        data == FoldLeft(LAMBDA built, b :
                             [file |-> WriteBlock(built.file, b),
                              handles |-> Append(built.handles, Handle(built.file, b))],
                         [file |-> [raw |-> <<>>, offset |-> 0], handles |-> <<>>], blocks)
        meta == Block(<<>>, RestartInterval)
        index == Block([i \in DOMAIN parts |-> [key |-> IndexKey(parts, i),
                                                value |-> data.handles[i]]], 1)
        withMeta == WriteBlock(data.file, meta)
    IN  [raw |-> WriteBlock(withMeta, index).raw,
         footer |-> [metaindex |-> Handle(data.file, meta),
                     index |-> Handle(withMeta, index),
                     magic |-> Magic]]

\* The data blocks among raw blocks: all but the metaindex and the index block
DataBlocks(raw) == {o \in DOMAIN raw : \E m, i \in DOMAIN raw : o < m /\ m < i}

\* What a disk may do to a file: a block loses an entry, or the footer is not one
SpoilBlock(f, o) == [f EXCEPT !.raw[o].contents.data = Front(@)]
SpoilFooter(f) == [f EXCEPT !.footer.magic = "something else"]

----------------------------------------------------------------------------
(* Opening.                                                                *)

\* Footer::DecodeFrom
IsFooter(footer) == footer.magic = Magic

\* ReadBlock: the set of the block, none of one that fails its checksum
ReadBlock(raw, handle, verify_checksums) ==
    LET r == raw[handle.offset]
    IN  IF verify_checksums /\ r.contents # r.crc THEN {} ELSE {r.contents}

\* Table::Open.  There is no filter policy, so ReadMeta reads nothing; without
\* paranoid checks the checksum of the index is not looked at.
Open(f) ==
    IF ~IsFooter(f.footer) THEN [opened |-> FALSE, raw |-> f.raw]
    ELSE [opened |-> TRUE, raw |-> f.raw,
          index |-> CHOOSE b \in ReadBlock(f.raw, f.footer.index, FALSE) : TRUE]

----------------------------------------------------------------------------
(* Block::Iter.  next is NextEntryOffset(), the end of value_.             *)

BlockValid(b, it) == it.current < Len(b.data)

BlockValue(b, it) == b.data[it.current + 1].value

Invalid(b, it) == [it EXCEPT !.current = Len(b.data), !.restart_index = Len(b.restarts)]

NewBlockIter(b) ==
    [current |-> Len(b.data), next |-> 0, restart_index |-> Len(b.restarts), key |-> <<>>]

\* The key is put together from what it shares with the key held so far.
\* restart_index_ moves on only past restart points before the entry: an entry
\* at a restart point may count as the end of the stretch before it.
ParseNextKey(b, it) ==
    LET e == b.data[it.next + 1]
        behind == {j \in DOMAIN b.restarts :
                      j > it.restart_index + 1 /\ b.restarts[j] < it.next}
    IN  IF it.next >= Len(b.data) THEN Invalid(b, it)
        ELSE IF Len(it.key) < e.shared THEN [Invalid(b, it) EXCEPT !.key = <<>>]
        ELSE [current |-> it.next,
              next |-> it.next + 1,
              restart_index |-> Max({it.restart_index} \union {j - 1 : j \in behind}),
              key |-> SubSeq(it.key, 1, e.shared) \o e.rest]

SeekToRestartPoint(b, it, r) ==
    [it EXCEPT !.key = <<>>, !.restart_index = r, !.next = b.restarts[r + 1]]

\* ParseNextKey, again until the end of the entry reaches an offset
RECURSIVE ParseUpTo(_, _, _)
ParseUpTo(b, it, offset) ==
    LET n == ParseNextKey(b, it)
    IN  IF BlockValid(b, n) /\ n.next < offset THEN ParseUpTo(b, n, offset) ELSE n

BlockSeekToFirst(b, it) == ParseNextKey(b, SeekToRestartPoint(b, it, 0))

BlockSeekToLast(b, it) ==
    ParseUpTo(b, SeekToRestartPoint(b, it, Len(b.restarts) - 1), Len(b.data))

BlockNext(b, it) == ParseNextKey(b, it)

\* Back to a restart point before the entry, then forward to the one before it
BlockPrev(b, it) ==
    LET before == {r \in 0 .. it.restart_index :
                      r < Len(b.restarts) /\ b.restarts[r + 1] < it.current}
    IN  IF before = {} THEN Invalid(b, it)
        ELSE ParseUpTo(b, SeekToRestartPoint(b, it, Max(before)), it.current)

\* The binary search for the last restart point whose key is before the target
RECURSIVE Bisect(_, _, _, _)
Bisect(b, target, left, right) ==
    LET mid == (left + right + 1) \div 2
        midKey == b.data[b.restarts[mid + 1] + 1].rest
    IN  IF left >= right THEN left
        ELSE IF Before(midKey, target) THEN Bisect(b, target, mid, right)
        ELSE Bisect(b, target, left, mid - 1)

RECURSIVE ParseToKey(_, _, _)
ParseToKey(b, it, target) ==
    LET n == ParseNextKey(b, it)
    IN  IF BlockValid(b, n) /\ Before(n.key, target) THEN ParseToKey(b, n, target) ELSE n

BlockSeek(b, it, target) ==
    ParseToKey(b, SeekToRestartPoint(b, it, Bisect(b, target, 0, Len(b.restarts) - 1)),
               target)

----------------------------------------------------------------------------
(* TwoLevelIterator: an iterator over the index, and one over the block it *)
(* points at, made anew when that changes.                                 *)

NoData == [current |-> -1]

\* NewErrorIterator: the iterator over a block that could not be read
ErrorData == [current |-> -2]

IsBlockIter(data) == data.current >= 0

DataBlock(t, handle) == t.raw[handle.offset].contents

TwoLevelValid(t, it) ==
    IsBlockIter(it.data) /\ BlockValid(DataBlock(t, it.handle), it.data)

TwoLevelKey(it) == it.data.key
TwoLevelValue(t, it) == BlockValue(DataBlock(t, it.handle), it.data)

\* status(): no block read so far has failed
TwoLevelOk(it) == it.ok /\ it.data # ErrorData

NewTableIter(t) ==
    [index |-> NewBlockIter(t.index), data |-> NoData,
     handle |-> [offset |-> -1, size |-> 0], ok |-> TRUE]

\* Table::BlockReader, as FyreDL reads: with checksums, and without a cache
BlockReader(t, handle) ==
    IF ReadBlock(t.raw, handle, TRUE) = {} THEN ErrorData
    ELSE NewBlockIter(DataBlock(t, handle))

\* The error of the iterator that goes is kept.
SetDataIterator(it, data) ==
    [it EXCEPT !.ok = TwoLevelOk(it), !.data = data]

InitDataBlock(t, it) ==
    LET handle == BlockValue(t.index, it.index)
    IN  IF ~BlockValid(t.index, it.index) THEN SetDataIterator(it, NoData)
        ELSE IF it.data # NoData /\ handle = it.handle THEN it
        ELSE [SetDataIterator(it, BlockReader(t, handle)) EXCEPT !.handle = handle]

\* What the callers of InitDataBlock do next: the operation on the data iterator,
\* if there is one; on that of an error it does nothing
OnData(t, it, Op(_, _)) ==
    IF ~IsBlockIter(it.data) THEN it
    ELSE [it EXCEPT !.data = Op(DataBlock(t, it.handle), it.data)]

RECURSIVE SkipEmptyDataBlocksForward(_, _)
SkipEmptyDataBlocksForward(t, it) ==
    IF TwoLevelValid(t, it) THEN it
    ELSE IF ~BlockValid(t.index, it.index) THEN SetDataIterator(it, NoData)
    ELSE LET moved == [it EXCEPT !.index = BlockNext(t.index, @)]
         IN  SkipEmptyDataBlocksForward(t,
                 OnData(t, InitDataBlock(t, moved), BlockSeekToFirst))

RECURSIVE SkipEmptyDataBlocksBackward(_, _)
SkipEmptyDataBlocksBackward(t, it) ==
    IF TwoLevelValid(t, it) THEN it
    ELSE IF ~BlockValid(t.index, it.index) THEN SetDataIterator(it, NoData)
    ELSE LET moved == [it EXCEPT !.index = BlockPrev(t.index, @)]
         IN  SkipEmptyDataBlocksBackward(t,
                 OnData(t, InitDataBlock(t, moved), BlockSeekToLast))

TwoLevelSeek(t, it, target) ==
    LET at == InitDataBlock(t, [it EXCEPT !.index = BlockSeek(t.index, @, target)])
    IN  SkipEmptyDataBlocksForward(t,
            OnData(t, at, LAMBDA b, d : BlockSeek(b, d, target)))

TwoLevelSeekToFirst(t, it) ==
    LET at == InitDataBlock(t, [it EXCEPT !.index = BlockSeekToFirst(t.index, @)])
    IN  SkipEmptyDataBlocksForward(t, OnData(t, at, BlockSeekToFirst))

TwoLevelSeekToLast(t, it) ==
    LET at == InitDataBlock(t, [it EXCEPT !.index = BlockSeekToLast(t.index, @)])
    IN  SkipEmptyDataBlocksBackward(t, OnData(t, at, BlockSeekToLast))

TwoLevelNext(t, it) == SkipEmptyDataBlocksForward(t, OnData(t, it, BlockNext))

TwoLevelPrev(t, it) == SkipEmptyDataBlocksBackward(t, OnData(t, it, BlockPrev))

----------------------------------------------------------------------------
(* Table::InternalGet: the block the index names, and in it the first entry *)
(* at or after the key.  A block that cannot be read is reported.           *)

InternalGet(t, k) ==
    LET ii == BlockSeek(t.index, NewBlockIter(t.index), k)
        handle == BlockValue(t.index, ii)
        b == DataBlock(t, handle)
        bi == BlockSeek(b, NewBlockIter(b), k)
    IN  IF ~BlockValid(t.index, ii) THEN [ok |-> TRUE, saved |-> {}]
        ELSE IF BlockReader(t, handle) = ErrorData THEN [ok |-> FALSE, saved |-> {}]
        ELSE [ok |-> TRUE,
              saved |-> IF BlockValid(b, bi)
                        THEN {[key |-> bi.key, value |-> BlockValue(b, bi)]} ELSE {}]
============================================================================
