------------------------------ MODULE LevelLog ------------------------------
(***************************************************************************)
(* The format of LevelDB's logs (db/log_writer.cc, db/log_reader.cc): a    *)
(* record is cut into fragments that do not cross a block, each behind a   *)
(* header with its type, its length and a checksum over both and the data. *)
(*                                                                         *)
(* A file is a sequence of cells.  The header takes HeaderSize of them, the*)
(* data of a record one for each unit of its length, and the rest of a     *)
(* block that no header fits in is filled with zeros.                      *)
(***************************************************************************)
EXTENDS Naturals, Sequences, SequencesExt

CONSTANTS
    BlockSize,  \* kBlockSize, in cells
    HeaderSize  \* kHeaderSize, in cells

ASSUME BlockAssumption == /\ HeaderSize \in Nat \ {0}
                          /\ BlockSize \in Nat /\ BlockSize > HeaderSize

Zero == [part |-> "zero"]
Header(type, rec, from, n) ==
    [i \in 1 .. HeaderSize |->
        [part |-> "header", at |-> i, type |-> type, rec |-> rec, from |-> from, len |-> n]]
Data(rec, from, n) == [i \in 1 .. n |-> [part |-> "data", rec |-> rec, at |-> from + i]]

LesserOf(a, b) == IF a <= b THEN a ELSE b

-----------------------------------------------------------------------------
(***************************************************************************)
(* Writer::AddRecord.  The writer goes by its own count of the cells in the*)
(* block, block_offset_, and never asks the file.                          *)
(***************************************************************************)
FragmentType(begin, end) ==
    IF begin THEN IF end THEN "full" ELSE "first"
    ELSE IF end THEN "last" ELSE "middle"

\* One turn of the loop: st holds the file, block_offset_, and how much of the
\* record has been written.
EmitPhysicalRecord(st, rec, len) ==
    LET leftover == BlockSize - st.off
        trailer  == IF leftover < HeaderSize THEN leftover ELSE 0
        off      == IF leftover < HeaderSize THEN 0 ELSE st.off
        n        == LesserOf(len - st.from, BlockSize - off - HeaderSize)
        type     == FragmentType(st.begin, st.from + n = len)
    IN [cells |-> st.cells \o [i \in 1 .. trailer |-> Zero]
                           \o Header(type, rec, st.from, n) \o Data(rec, st.from, n),
        off   |-> off + HeaderSize + n,
        from  |-> st.from + n,
        begin |-> FALSE]

\* The loop runs once for an empty record, and until all is written; here, for
\* at most k turns.
Turns(cells, off, rec, len, k) ==
    FoldLeft(LAMBDA st, i : IF st.begin \/ st.from < len
                            THEN EmitPhysicalRecord(st, rec, len) ELSE st,
             [cells |-> cells, off |-> off, from |-> 0, begin |-> TRUE],
             [i \in 1 .. k |-> i])

AddRecord(cells, off, rec, len) == Turns(cells, off, rec, len, len + 2)

\* An append that fails in one of the turns leaves any part of its fragment in
\* the file; block_offset_ moves on as if all of it had been written.
AddRecordFails(cells, off, rec, len) ==
    UNION {LET before == Turns(cells, off, rec, len, k)
               after  == Turns(cells, off, rec, len, k + 1)
           IN {[cells |-> SubSeq(after.cells, 1, n), off |-> after.off] :
                  n \in Len(before.cells) .. Len(after.cells)} : k \in 0 .. len}

-----------------------------------------------------------------------------
(***************************************************************************)
(* log::Reader, over a whole file.                                         *)
(***************************************************************************)
BlockEnd(file, pos)  == LesserOf(Len(file), (pos \div BlockSize + 1) * BlockSize)

\* The block was read short: the file ends in it.
LastBlock(file, pos) == BlockEnd(file, pos) < (pos \div BlockSize + 1) * BlockSize

IsHeader(file, pos) ==
    \A i \in 1 .. HeaderSize :
        /\ file[pos + i].part = "header"
        /\ file[pos + i] = [file[pos + 1] EXCEPT !.at = i]

DataAt(file, pos) == SubSeq(file, pos + HeaderSize + 1, pos + HeaderSize + file[pos + 1].len)

\* The checksum covers the type and the data.
ChecksumOK(file, pos) ==
    LET h == file[pos + 1] IN DataAt(file, pos) = Data(h.rec, h.from, h.len)

\* ReadPhysicalRecord: the type of the fragment at pos, and where to go on.  A
\* trailer is skipped, and after damage so is the rest of the block.
ReadPhysicalRecord(file, pos) ==
    LET left     == BlockEnd(file, pos) - pos
        overlong == HeaderSize + file[pos + 1].len > left
        short    == left < HeaderSize \/ (IsHeader(file, pos) /\ overlong)
    IN IF short /\ LastBlock(file, pos) THEN [type |-> "eof", at |-> pos, to |-> pos]
       ELSE IF left < HeaderSize THEN [type |-> "skip", at |-> pos, to |-> BlockEnd(file, pos)]
       ELSE IF short \/ ~IsHeader(file, pos) \/ ~ChecksumOK(file, pos)
       THEN [type |-> "bad", at |-> pos, to |-> BlockEnd(file, pos)]
       ELSE [type |-> file[pos + 1].type, at |-> pos,
             to |-> pos + HeaderSize + file[pos + 1].len]

\* A turn of ReadRecord's loop, which takes the fragment at "pos": "in" is
\* in_fragmented_record, and "found" the data of the records that are complete.
ReadFragment(file, st) ==
    LET r    == ReadPhysicalRecord(file, st.pos)
        data == DataAt(file, r.at)
        more == st.scratch \o data
        on(in, scratch, found) == [pos |-> r.to, in |-> in, scratch |-> scratch, found |-> found]
    IN CASE r.type = "eof"    -> st
         [] r.type = "skip"   -> on(st.in, st.scratch, st.found)
         [] r.type = "full"   -> on(FALSE, <<>>, Append(st.found, data))
         [] r.type = "first"  -> on(TRUE, data, st.found)
         [] r.type = "middle" -> on(st.in, IF st.in THEN more ELSE <<>>, st.found)
         [] r.type = "last"   -> on(FALSE, <<>>, IF st.in THEN Append(st.found, more) ELSE st.found)
         [] OTHER             -> on(FALSE, <<>>, st.found)

\* ReadRecord until the end of the file, which is no further than as many turns
\* as there are cells.
Records(file) ==
    LET read[i \in 0 .. Len(file)] ==
            IF i = 0 THEN [pos |-> 0, in |-> FALSE, scratch |-> <<>>, found |-> <<>>]
            ELSE ReadFragment(file, read[i - 1])
    IN read[Len(file)].found
=============================================================================
