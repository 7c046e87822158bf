----------------------------- MODULE LevelStore -----------------------------
(***************************************************************************)
(* How LevelDB (utils/leveldb-patched-windows, db/db_impl.cc, version_set.cc,*)
(* builder.cc) keeps the writes of the program: the queue of writers, the  *)
(* log, the memtables, the background thread that turns them into tables,  *)
(* the manifest that lists the tables, and recovery when the database is   *)
(* opened again after the process or the machine went down.                *)
(*                                                                         *)
(* A batch is a number and has one operation.  What the operations do to   *)
(* keys, and how tables are ordered in levels, is in LevelTables; here the *)
(* tables of a version are level 0 or below.  An action is what a thread   *)
(* does between two points where it may release the mutex or the process   *)
(* may go down.  Directories keep the order of what is done to them.       *)
(***************************************************************************)
EXTENDS LevelLog, FiniteSets, TLC

CONSTANTS
    Clients,     \* threads that write
    MaxWrites,   \* bound: batches written
    BufferSize,  \* write_buffer_size: a memtable with more batches is full
    Trigger,     \* kL0_CompactionTrigger: tables in level 0 that start a compaction
    StopAt,      \* kL0_StopWritesTrigger: tables in level 0 that stop the writers
    MaxFaults,   \* bound: calls of the file system that fail
    MaxStops,    \* bound: times that the process ends or dies, or the machine stops
    MaxEvents,   \* bound: those three together
    NestedFaults,\* the manifest may be torn by a flush in the middle of a compaction too
    EarlyFaults  \* the table of a log that is not the last may fail in recovery too,
                 \* which DB::Open does not notice (ErrorsFailOpen)

ASSUME StoreAssumption ==
    /\ MaxWrites \in Nat /\ BufferSize \in Nat /\ MaxFaults \in Nat /\ MaxStops \in Nat
    /\ MaxEvents \in Nat
    /\ Trigger \in Nat \ {0} /\ StopAt \in Nat \ {0} /\ Trigger <= StopAt
    /\ NestedFaults \in BOOLEAN /\ EarlyFaults \in BOOLEAN

VARIABLES
    \* On the disk.
    logs,      \* log files, by number: their cells, and how many are "safe" from a loss of power
    tables,    \* table files: their entries
    manifests, \* descriptors: their edits, and how many are safe
    current,   \* CURRENT: the number of the descriptor it names, or 0
    \* In the process.
    phase,     \* "down", a step of DB::Open, "up", or "closing"
    vs,        \* VersionSet: files of the current version, log, next, last, manifest
    todo,      \* logs still to be recovered, in the order of their numbers
    edit,      \* the VersionEdit being put together or written
    wal,       \* logfile_number_, block_offset_ of its writer, and whether an append failed
    mem, imm,  \* memtables: sets of entries; an empty imm stands for NULL
    queue,     \* writers_
    op,        \* the Writer of each client, and where in Write it is
    bg,        \* the background thread
    flush,     \* CompactMemTable: where it is, and the table's number
    made,      \* DoCompactionWork: where it is, and the table's number
    inputs,    \* the version a compaction took its inputs from
    pending,   \* pending_outputs_
    reader,    \* a version that a Get or an iterator holds
    bgError,   \* bg_error_ is set
    \* History.
    count,     \* batches begun
    stored,    \* batches that a reader finds, or would after the next Open
    told,      \* batches whose Write returned OK
    synced,    \* those of them with sync
    doubtful,  \* batches in a log behind an append that failed, or in a log that was skipped
    stops, faults

disk     == <<logs, tables, manifests, current>>
opening  == <<todo, edit>>
memory   == <<mem, imm, wal>>
writers  == <<queue, op>>
work     == <<bg, flush, made, inputs, pending>>
history  == <<count, stored, told, synced, doubtful, stops, faults>>
vars == <<disk, phase, vs, opening, memory, writers, work, reader, bgError, history>>

-----------------------------------------------------------------------------
NoFiles   == [l0 |-> {}, l1 |-> {}]
NoVersion == [l0 |-> {0}, l1 |-> {0}]
NoEdit    == [log |-> 0, next |-> 0, last |-> 0, add |-> NoFiles, del |-> {}, wrote |-> "no"]
Idle      == [pc |-> "idle", batch |-> 0, sync |-> FALSE, group |-> <<>>, ok |-> TRUE]
NoOutput  == [pc |-> "no", to |-> 0]
NoLog     == [number |-> 0, off |-> 0, failed |-> FALSE]
NewVs     == [files |-> NoFiles, log |-> 0, next |-> 2, last |-> 0, manifest |-> 0]

FilesOf(v) == v.l0 \cup v.l1

\* Entries are pairs of a sequence number and a batch.
Content(v)    == UNION {tables[n] : n \in FilesOf(v) \cap DOMAIN tables}
BatchesOf(es) == {e[2] : e \in es}

\* The record of a group in the log: its first sequence number, its batches.
Entries(rec)  == {<<rec[1] + i - 2, rec[i]>> : i \in 2 .. Len(rec)}

With(f, n, x) == [m \in DOMAIN f \cup {n} |-> IF m = n THEN x ELSE f[m]]
Keep(f, S)    == [m \in DOMAIN f \cap S |-> f[m]]

MoreEvents == count + faults + stops < MaxEvents

Fault == faults < MaxFaults /\ MoreEvents /\ faults' = faults + 1

-----------------------------------------------------------------------------
(***************************************************************************)
(* The version set: edits, and the files that no version needs.            *)
(***************************************************************************)

\* Builder::Apply and SaveTo.
Apply(files, e) == [l0 |-> (files.l0 \ e.del) \cup e.add.l0,
                    l1 |-> (files.l1 \ e.del) \cup e.add.l1]

\* LogAndApply, as far as it goes under the mutex.
NewEdit(log, add, del) ==
    [log |-> log, next |-> vs.next, last |-> vs.last, add |-> add, del |-> del, wrote |-> "no"]

Torn == [NoEdit EXCEPT !.wrote = "torn"]

\* .. the record in the manifest, and its Sync, without the mutex.  If one of
\* them fails, the record may be there in whole or in part.
ManifestWrite ==
    /\ edit.wrote = "no" /\ edit # NoEdit
    /\ phase \in {"up", "closing"}
    /\ LET m == manifests[vs.manifest]
           written(e, safe) == With(manifests, vs.manifest,
                                    [edits |-> Append(m.edits, e), safe |-> safe])
       IN \/ /\ manifests' = written(edit, Len(m.edits) + 1)
             /\ edit' = [edit EXCEPT !.wrote = "ok"]
             /\ UNCHANGED faults
          \/ /\ Fault
             /\ edit' = [edit EXCEPT !.wrote = "failed"]
             /\ \/ manifests' = written(edit, m.safe)
                \/ /\ (bg = "compacting" /\ flush.pc = "edit") => NestedFaults
                   /\ manifests' = written(Torn, m.safe)
    /\ UNCHANGED <<logs, tables, current, phase, vs, todo, memory, writers, work, reader, bgError,
                   count, stored, told, synced, doubtful, stops>>

\* mutant: forgets the versions that readers hold.
LiveVersionsOwn(files, input) == ({files, input}) \ {NoVersion}

\* DeleteObsoleteFiles; versions in use besides the current one are those of a
\* compaction and of readers.
LiveVersions(files, input) == ({files, input, reader}) \ {NoVersion}

DeleteObsoleteFiles(files, log, input, outputs, failed) ==
    IF failed THEN UNCHANGED <<logs, tables, manifests>>
    ELSE /\ tables' = Keep(tables, outputs \cup UNION {FilesOf(v) : v \in LiveVersions(files, input)})
         /\ logs' = [n \in {k \in DOMAIN logs : k >= log} |-> logs[n]]
         /\ manifests' = [n \in {k \in DOMAIN manifests : k >= vs.manifest} |-> manifests[n]]

NeedsCompaction(files) == Cardinality(files.l0) >= Trigger

\* MaybeScheduleCompaction, for a background thread that is in state b.
MaybeScheduleCompaction(b, im, files, failed) ==
    IF b = "off" /\ phase # "closing" /\ ~failed /\ (im # {} \/ NeedsCompaction(files))
    THEN "scheduled" ELSE b

\* mutant: nobody is signalled.
SignalNobody(ops) == ops

\* bg_cv_.SignalAll, which wakes the writer that waits in MakeRoomForWrite.
SignalAll(ops) == [c \in Clients |-> IF ops[c].pc = "bgwait" THEN [ops[c] EXCEPT !.pc = "room"]
                                     ELSE ops[c]]

-----------------------------------------------------------------------------
(***************************************************************************)
(* DBImpl::Write.                                                          *)
(***************************************************************************)

\* Into the queue, and if there is nobody before it, on to MakeRoomForWrite.
Write(c, sync) ==
    /\ phase = "up"
    /\ op[c].pc = "idle"
    /\ count < MaxWrites /\ MoreEvents
    /\ count' = count + 1
    /\ queue' = Append(queue, c)
    /\ op' = [op EXCEPT ![c] = [Idle EXCEPT !.batch = count + 1, !.sync = sync,
                                            !.pc = IF queue = <<>> THEN "room" ELSE "wait"]]
    /\ UNCHANGED <<disk, phase, vs, opening, memory, work, reader, bgError,
                   stored, told, synced, doubtful, stops, faults>>

\* The writers of a group leave the queue with their answer.  A failed append
\* sets no bg_error_: later writes go into the same log and are told OK, though
\* a reader of the log may not get past the place where the append failed.
Leave(c, group, ok) ==
    LET rest == SubSeq(queue, Len(group) + 1, Len(queue))
        out  == Range(group)
    IN /\ queue' = rest
       /\ op' = [d \in Clients |->
                    IF d \in out THEN Idle
                    ELSE IF rest # <<>> /\ d = Head(rest) THEN [op[d] EXCEPT !.pc = "room"]
                    ELSE op[d]]
       /\ told' = IF ok THEN told \cup {op[d].batch : d \in out} ELSE told
       /\ synced' = IF ok THEN synced \cup {op[d].batch : d \in {x \in out : op[x].sync}} ELSE synced
       /\ doubtful' = IF ok /\ wal.failed THEN doubtful \cup {op[d].batch : d \in out} ELSE doubtful

\* mutant: a write without sync takes along one that wants it.
GroupsOfAll(c) == {SubSeq(queue, 1, k) : k \in 1 .. Len(queue)}

\* BuildBatchGroup: the writers behind c, as many as the group may hold, but
\* none that wants a sync if c does not.
Groups(c) ==
    {g \in {SubSeq(queue, 1, k) : k \in 1 .. Len(queue)} :
        \A i \in 1 .. Len(g) : op[g[i]].sync => op[c].sync}

BuildBatchGroup(c) ==
    \E g \in Groups(c) : op' = [op EXCEPT ![c].group = g, ![c].pc = "append"]

\* MakeRoomForWrite, by the writer at the head of the queue.
HasRoom == Cardinality(mem) <= BufferSize

RoomFails(c) ==
    /\ op[c].pc = "room"
    /\ bgError
    /\ Leave(c, <<c>>, FALSE)
    /\ UNCHANGED <<disk, phase, vs, opening, memory, work, reader, bgError,
                   count, stored, stops, faults>>

RoomThere(c) ==
    /\ op[c].pc = "room"
    /\ ~bgError
    /\ HasRoom
    /\ BuildBatchGroup(c)
    /\ UNCHANGED <<disk, phase, vs, opening, memory, queue, work, reader, bgError, history>>

MustWait == imm # {} \/ Cardinality(vs.files.l0) >= StopAt

RoomWaits(c) ==
    /\ op[c].pc = "room"
    /\ ~bgError
    /\ ~HasRoom
    /\ MustWait
    /\ op' = [op EXCEPT ![c].pc = "bgwait"]
    /\ UNCHANGED <<disk, phase, vs, opening, memory, queue, work, reader, bgError, history>>

SwitchMemTable(c) ==
    /\ op[c].pc = "room"
    /\ ~bgError
    /\ ~HasRoom
    /\ ~MustWait
    /\ logs' = With(logs, vs.next, [cells |-> <<>>, safe |-> 0])
    /\ wal' = [number |-> vs.next, off |-> 0, failed |-> FALSE]
    /\ vs' = [vs EXCEPT !.next = @ + 1]
    /\ imm' = mem
    /\ mem' = {}
    /\ bg' = MaybeScheduleCompaction(bg, mem, vs.files, FALSE)
    /\ BuildBatchGroup(c)
    /\ UNCHANGED <<tables, manifests, current, phase, opening, queue, flush, made, inputs, pending,
                   reader, bgError, history>>

SwitchFails(c) ==
    /\ op[c].pc = "room"
    /\ ~bgError
    /\ ~HasRoom
    /\ ~MustWait
    /\ Fault
    /\ Leave(c, <<c>>, FALSE)
    /\ UNCHANGED <<disk, phase, vs, opening, memory, work, reader, bgError, count, stored, stops>>

\* log_->AddRecord, and logfile_->Sync, without the mutex.
Batches(c) == [i \in DOMAIN op[c].group |-> op[op[c].group[i]].batch]
Record(c)  == <<vs.last + 1>> \o Batches(c)

AppendLog(c) ==
    /\ op[c].pc = "append"
    /\ LET file == logs[wal.number]
           put(w) == logs' = With(logs, wal.number, [file EXCEPT !.cells = w.cells])
       IN \/ LET w == AddRecord(file.cells, wal.off, Record(c), Len(op[c].group))
             IN /\ put(w)
                /\ wal' = [wal EXCEPT !.off = w.off]
                /\ op' = [op EXCEPT ![c].pc = IF op[c].sync THEN "sync" ELSE "finish"]
                /\ UNCHANGED faults
          \/ /\ Fault
             /\ \E w \in AddRecordFails(file.cells, wal.off, Record(c), Len(op[c].group)) :
                   put(w) /\ wal' = [wal EXCEPT !.off = w.off, !.failed = TRUE]
             /\ op' = [op EXCEPT ![c].pc = "finish", ![c].ok = FALSE]
    /\ UNCHANGED <<tables, manifests, current, phase, vs, opening, mem, imm, queue, work, reader,
                   bgError, count, stored, told, synced, doubtful, stops>>

SyncLog(c) ==
    /\ op[c].pc = "sync"
    /\ \/ /\ logs' = [logs EXCEPT ![wal.number].safe = Len(logs[wal.number].cells)]
          /\ op' = [op EXCEPT ![c].pc = "finish"]
          /\ UNCHANGED faults
       \/ /\ Fault
          /\ op' = [op EXCEPT ![c].pc = "syncError", ![c].ok = FALSE]
          /\ UNCHANGED logs
    /\ UNCHANGED <<tables, manifests, current, phase, vs, opening, memory, queue, work, reader,
                   bgError, count, stored, told, synced, doubtful, stops>>

\* mutant: a write that failed gives its sequence numbers back.
FinishGivesBack(c) ==
    /\ op[c].pc \in {"finish", "syncError"}
    /\ mem' = IF op[c].ok THEN mem \cup Entries(Record(c)) ELSE mem
    /\ stored' = IF op[c].ok THEN stored \cup Range(Batches(c)) ELSE stored
    /\ vs' = [vs EXCEPT !.last = IF op[c].ok THEN @ + Len(op[c].group) ELSE @]
    /\ bgError' = (bgError \/ op[c].pc = "syncError")
    /\ Leave(c, op[c].group, op[c].ok)
    /\ UNCHANGED <<disk, phase, opening, imm, wal, work, reader, count, stops, faults>>

\* InsertInto, and under the mutex again, SetLastSequence and the queue.  A
\* failed Sync is recorded as a background error.
Finish(c) ==
    /\ op[c].pc \in {"finish", "syncError"}
    /\ mem' = IF op[c].ok THEN mem \cup Entries(Record(c)) ELSE mem
    /\ stored' = IF op[c].ok THEN stored \cup Range(Batches(c)) ELSE stored
    /\ vs' = [vs EXCEPT !.last = @ + Len(op[c].group)]
    /\ bgError' = (bgError \/ op[c].pc = "syncError")
    /\ Leave(c, op[c].group, op[c].ok)
    /\ UNCHANGED <<disk, phase, opening, imm, wal, work, reader, count, stops, faults>>

-----------------------------------------------------------------------------
(***************************************************************************)
(* The background thread.                                                  *)
(***************************************************************************)

\* The end of BackgroundCall, after work that leaves the memtable im, the
\* current version "files", and the error "failed".
BackgroundEnds(im, files, failed) ==
    /\ bg' = MaybeScheduleCompaction("off", im, files, failed)
    /\ op' = SignalAll(op)

\* BackgroundCall, when there is nothing it may do or has to do.
BackgroundCall ==
    /\ bg = "scheduled"
    /\ phase = "closing" \/ bgError \/ (imm = {} /\ ~NeedsCompaction(vs.files))
    /\ BackgroundEnds(imm, vs.files, bgError)
    /\ UNCHANGED <<disk, phase, vs, opening, memory, queue, flush, made, inputs, pending, reader,
                   bgError, history>>

Working == bg = "scheduled" /\ phase # "closing" /\ ~bgError

\* CompactMemTable, from BackgroundCompaction, or from a compaction that finds
\* has_imm_ set: the table gets its number.
FlushStart ==
    /\ flush.pc = "no"
    /\ imm # {}
    /\ \/ Working /\ bg' = "flushing"
       \/ /\ bg = "compacting" /\ made.pc \in {"open", "write"} /\ phase # "closing"
          /\ UNCHANGED bg
    /\ flush' = [pc |-> "build", to |-> vs.next]
    /\ pending' = pending \cup {vs.next}
    /\ vs' = [vs EXCEPT !.next = @ + 1]
    /\ UNCHANGED <<disk, phase, opening, memory, writers, made, inputs, reader, bgError, history>>

\* BuildTable, without the mutex; a table that fails is deleted.
BuildTable ==
    /\ flush.pc = "build"
    /\ \/ /\ tables' = With(tables, flush.to, imm)
          /\ flush' = [flush EXCEPT !.pc = "built"]
          /\ UNCHANGED faults
       \/ /\ Fault
          /\ flush' = [flush EXCEPT !.pc = "failed"]
          /\ tables' = Keep(tables, DOMAIN tables \ {flush.to})
    /\ UNCHANGED <<logs, manifests, current, phase, vs, opening, memory, writers, bg, made, inputs,
                   pending, reader, bgError, count, stored, told, synced, doubtful, stops>>

\* The rest of WriteLevel0Table, and the start of LogAndApply: earlier logs
\* will not be needed.  The table goes to level 0: PickLevelForMemTableOutput, which
\* may put it lower, is in LevelTables.
FlushEdit ==
    /\ flush.pc = "built"
    /\ phase # "closing"
    /\ edit' = NewEdit(wal.number, [NoFiles EXCEPT !.l0 = {flush.to}], {})
    /\ pending' = pending \ {flush.to}
    /\ flush' = [flush EXCEPT !.pc = "edit"]
    /\ UNCHANGED <<disk, phase, vs, todo, memory, writers, bg, made, inputs, reader, bgError,
                   history>>

\* CompactMemTable is over; a compaction that it was part of goes on.
FlushEnds(im, files, failed) ==
    /\ flush' = NoOutput
    /\ bgError' = failed
    /\ IF bg = "flushing" THEN BackgroundEnds(im, files, failed)
                          ELSE op' = SignalAll(op) /\ UNCHANGED bg

FlushInstall ==
    /\ flush.pc = "edit"
    /\ edit.wrote = "ok"
    /\ LET files == Apply(vs.files, edit)
       IN /\ vs' = [vs EXCEPT !.files = files, !.log = edit.log]
          /\ imm' = {}
          /\ DeleteObsoleteFiles(files, edit.log, inputs, pending, bgError)
          /\ FlushEnds({}, files, bgError)
    /\ edit' = NoEdit
    /\ doubtful' = doubtful \ BatchesOf(imm)
    /\ UNCHANGED <<current, phase, todo, mem, wal, queue, made, inputs, pending, reader,
                   count, stored, told, synced, stops, faults>>

\* The table, or the manifest, could not be written, or the database closes.
FlushFails ==
    /\ \/ flush.pc = "failed" \/ (flush.pc = "built" /\ phase = "closing")
       \/ flush.pc = "edit" /\ edit.wrote = "failed"
    /\ FlushEnds(imm, vs.files, TRUE)
    /\ pending' = pending \ {flush.to}
    /\ edit' = NoEdit
    /\ UNCHANGED <<disk, phase, vs, todo, memory, queue, made, inputs, reader, history>>

\* PickCompaction, when the file it finds overlaps no other: the file moves.
TrivialMove ==
    /\ Working
    /\ imm = {} /\ NeedsCompaction(vs.files)
    /\ \E n \in vs.files.l0 : edit' = NewEdit(vs.log, [NoFiles EXCEPT !.l1 = {n}], {n})
    /\ bg' = "moving"
    /\ UNCHANGED <<disk, phase, vs, todo, memory, writers, flush, made, inputs, pending, reader,
                   bgError, history>>

MoveInstall ==
    /\ bg = "moving"
    /\ edit.wrote # "no"
    /\ LET ok    == edit.wrote = "ok"
           files == IF ok THEN Apply(vs.files, edit) ELSE vs.files
       IN /\ vs' = [vs EXCEPT !.files = files]
          /\ bgError' = (bgError \/ ~ok)
          /\ BackgroundEnds(imm, files, bgError \/ ~ok)
    /\ edit' = NoEdit
    /\ UNCHANGED <<disk, phase, todo, memory, queue, flush, made, inputs, pending, reader, history>>

\* PickCompaction, when all files overlap, and the start of DoCompactionWork.
PickCompaction ==
    /\ Working
    /\ imm = {} /\ NeedsCompaction(vs.files)
    /\ inputs' = vs.files
    /\ made' = [pc |-> "open", to |-> 0]
    /\ bg' = "compacting"
    /\ UNCHANGED <<disk, phase, vs, opening, memory, writers, flush, pending, reader, bgError,
                   history>>

Compacting(pc) == bg = "compacting" /\ flush.pc = "no" /\ made.pc = pc

OpenCompactionOutputFile ==
    /\ Compacting("open")
    /\ made' = [pc |-> "write", to |-> vs.next]
    /\ pending' = pending \cup {vs.next}
    /\ vs' = [vs EXCEPT !.next = @ + 1]
    /\ UNCHANGED <<disk, phase, opening, memory, writers, bg, flush, inputs, reader, bgError, history>>

\* The loop, without the mutex, up to FinishCompactionOutputFile; it gives up
\* when the database closes.
FinishCompactionOutputFile ==
    /\ Compacting("write")
    /\ \/ /\ tables' = With(tables, made.to, Content(inputs))
          /\ made' = [made EXCEPT !.pc = "done"]
          /\ UNCHANGED faults
       \/ /\ (phase = "closing" /\ UNCHANGED faults) \/ Fault
          /\ made' = [made EXCEPT !.pc = "failed"]
          /\ UNCHANGED tables
    /\ UNCHANGED <<logs, manifests, current, phase, vs, opening, memory, writers, bg, flush, inputs,
                   pending, reader, bgError, count, stored, told, synced, doubtful, stops>>


InstallCompactionResults ==
    /\ Compacting("done")
    /\ edit' = NewEdit(vs.log, [NoFiles EXCEPT !.l1 = {made.to}], FilesOf(inputs))
    /\ made' = [made EXCEPT !.pc = "install"]
    /\ UNCHANGED <<disk, phase, vs, todo, memory, writers, bg, flush, inputs, pending, reader,
                   bgError, history>>

\* The end of DoCompactionWork, CleanupCompaction, ReleaseInputs and
\* DeleteObsoleteFiles.
CleanupCompaction ==
    /\ \/ Compacting("install") /\ edit.wrote # "no"
       \/ Compacting("failed")
    /\ LET ok     == edit.wrote = "ok"
           files  == IF ok THEN Apply(vs.files, edit) ELSE vs.files
           failed == bgError \/ ~ok
       IN /\ vs' = [vs EXCEPT !.files = files]
          /\ bgError' = failed
          /\ DeleteObsoleteFiles(files, vs.log, NoVersion, pending \ {made.to}, failed)
          /\ BackgroundEnds(imm, files, failed)
    /\ pending' = pending \ {made.to}
    /\ inputs' = NoVersion
    /\ made' = NoOutput
    /\ edit' = NoEdit
    /\ UNCHANGED <<current, phase, todo, memory, queue, flush, reader, history>>

-----------------------------------------------------------------------------
(***************************************************************************)
(* Readers: Get and NewInternalIterator hold the version they read.        *)
(***************************************************************************)
Get ==
    /\ phase = "up"
    /\ reader = NoVersion
    /\ FilesOf(vs.files) # {}
    /\ reader' = vs.files
    /\ UNCHANGED <<disk, phase, vs, opening, memory, writers, work, bgError, history>>

CleanupIteratorState ==
    /\ reader # NoVersion
    /\ reader' = NoVersion
    /\ UNCHANGED <<disk, phase, vs, opening, memory, writers, work, bgError, history>>

-----------------------------------------------------------------------------
(***************************************************************************)
(* DB::Open.  When a step fails, Open does, and leaves what it has done.   *)
(***************************************************************************)
Reset == /\ phase' = "down" /\ vs' = NewVs /\ todo' = {} /\ edit' = NoEdit /\ wal' = NoLog

Fails == Fault /\ Reset

\* NewDB: the first descriptor, which nobody syncs, and CURRENT.
NewDB ==
    /\ phase = "down"
    /\ current = 0
    /\ manifests' = [n \in {1} |-> [edits |-> <<[NoEdit EXCEPT !.next = 2]>>, safe |-> 0]]
    /\ phase' = "newdb"
    /\ UNCHANGED <<logs, tables, current, vs, opening, memory, writers, work, reader, bgError,
                   history>>

NewDBCurrent ==
    /\ phase = "newdb"
    /\ \/ current' = 1 /\ phase' = "recover" /\ UNCHANGED <<vs, opening, wal, faults>>
       \/ Fails /\ UNCHANGED current
    /\ UNCHANGED <<logs, tables, manifests, mem, imm, writers, work, reader, bgError,
                   count, stored, told, synced, doubtful, stops>>

Open ==
    /\ phase = "down"
    /\ current # 0
    /\ phase' = "recover"
    /\ UNCHANGED <<disk, vs, opening, memory, writers, work, reader, bgError, history>>

\* VersionSet::Recover: the edits of the descriptor that CURRENT names.  A
\* torn record is an error unless it is the last thing in the file.
EditsRead(mf) ==
    LET edits == mf[current].edits
    IN IF edits # <<>> /\ Last(edits).wrote = "torn" THEN Front(edits) ELSE edits

ManifestRead(mf) ==
    /\ current \in DOMAIN mf
    /\ \A i \in 1 .. Len(mf[current].edits) - 1 : mf[current].edits[i].wrote # "torn"
    /\ EditsRead(mf) # <<>>

VersionRead(mf) ==
    LET edits == EditsRead(mf)
    IN [files |-> FoldLeft(Apply, NoFiles, edits), log |-> Last(edits).log,
        last |-> Last(edits).last, next |-> Last(edits).next + 1, manifest |-> Last(edits).next]

\* DBImpl::Recover looks for a file of any kind with the number of each table.
Recoverable(mf) ==
    /\ ManifestRead(mf)
    /\ FilesOf(VersionRead(mf).files) \subseteq DOMAIN tables \cup DOMAIN logs \cup DOMAIN mf

Recover ==
    /\ phase = "recover"
    /\ IF Recoverable(manifests)
       THEN LET v == VersionRead(manifests)
            IN /\ vs' = v
               /\ todo' = {n \in DOMAIN logs : n >= v.log}
               /\ phase' = "logs"
       ELSE phase' = "down" /\ UNCHANGED <<vs, todo>>
    /\ edit' = NoEdit
    /\ UNCHANGED <<disk, memory, writers, work, reader, bgError, history>>

\* What InsertInto makes of the data of a record.
EntriesIn(data) == {<<c.rec[1] + c.at - 1, c.rec[c.at + 1]>> : c \in Range(data)}

\* What the next Open would find on the disk.
DiskBatches(lg, mf) ==
    IF current = 0 \/ ~Recoverable(mf) THEN {}
    ELSE LET v    == VersionRead(mf)
             read == {n \in DOMAIN lg : n >= v.log}
         IN BatchesOf(Content(v.files)
                      \cup UNION {EntriesIn(data) :
                                     data \in UNION {Range(Records(lg[n].cells)) : n \in read}})

\* RecoverLogFile: whenever the memtable has grown beyond the buffer, and at
\* the end of the log, it becomes a table in level 0.
ToTable(st) == [found |-> {}, next |-> st.next + 1, new |-> With(st.new, st.next, st.found)]

InsertRecord(st, data) ==
    LET more == [st EXCEPT !.found = @ \cup EntriesIn(data)]
    IN IF Cardinality(more.found) > BufferSize THEN ToTable(more) ELSE more

TablesOf(n, next) ==
    LET st == FoldLeft(InsertRecord, [found |-> {}, next |-> next, new |-> <<>>],
                       Records(logs[n].cells))
    IN IF st.found = {} THEN st.new ELSE ToTable(st).new

\* What a turn of the loop over the logs leaves, when it began the tables "new"
\* of log n and those in S were written.
LogRead(n, new, S) ==
    /\ tables' = [k \in DOMAIN tables \cup S |-> IF k \in S THEN new[k] ELSE tables[k]]
    /\ edit' = [edit EXCEPT
          !.add.l0 = @ \cup S,
          !.last = Max({@} \cup {e[1] : e \in UNION {new[k] : k \in DOMAIN new}})]
    /\ todo' = todo \ {n}
    /\ vs' = [vs EXCEPT !.next = Max({@ + Cardinality(DOMAIN new), n + 1})]
    /\ UNCHANGED <<phase, wal>>

\* A table fails, and with it DB::Open when the log was the last: the loop keeps
\* the status of the last one only.  Tables written before stay where they are.
RecoverLogFile ==
    /\ phase = "logs"
    /\ todo # {}
    /\ LET n   == Min(todo)
           new == TablesOf(n, vs.next)
       IN \/ LogRead(n, new, DOMAIN new) /\ UNCHANGED faults
          \/ \E bad \in DOMAIN new :
                LET begun == Keep(new, vs.next .. bad)
                IN IF todo = {n}
                   THEN Fails /\ tables' = [k \in DOMAIN tables \cup (DOMAIN begun \ {bad}) |->
                                               IF k \in DOMAIN begun \ {bad} THEN new[k] ELSE tables[k]]
                   ELSE EarlyFaults /\ Fault /\ LogRead(n, begun, DOMAIN begun \ {bad})
    /\ UNCHANGED <<logs, manifests, current, mem, imm, writers, work, reader, bgError,
                   count, stored, told, synced, doubtful, stops>>

LoggedBatches(n) ==
    BatchesOf(UNION {EntriesIn(data) : data \in Range(Records(logs[n].cells))})

\* .. when the log cannot be opened, MaybeIgnoreError makes that OK: it is skipped,
\* and deleted when the database is open.
SkipLogFile ==
    /\ phase = "logs"
    /\ todo # {}
    /\ Fault
    /\ LogRead(Min(todo), <<>>, {})
    /\ doubtful' = doubtful \cup LoggedBatches(Min(todo))
    /\ UNCHANGED <<logs, manifests, current, mem, imm, writers, work, reader, bgError,
                   count, stored, told, synced, stops>>

\* The rest of DB::Open: a log, whose number goes into the edit, and the last
\* sequence number found.
NewLogFile ==
    /\ phase = "logs"
    /\ todo = {}
    /\ \/ /\ logs' = With(logs, vs.next, [cells |-> <<>>, safe |-> 0])
          /\ wal' = [NoLog EXCEPT !.number = vs.next]
          /\ vs' = [vs EXCEPT !.next = @ + 1, !.last = Max({@, edit.last})]
          /\ edit' = [edit EXCEPT !.log = vs.next, !.next = vs.next + 1,
                                  !.last = Max({vs.last, edit.last})]
          /\ phase' = "manifest"
          /\ UNCHANGED <<todo, faults>>
       \/ Fails /\ UNCHANGED logs
    /\ UNCHANGED <<tables, manifests, current, mem, imm, writers, work, reader, bgError,
                   count, stored, told, synced, doubtful, stops>>

\* mutant: no Sync of the new descriptor.
WriteSnapshotUnsynced ==
    /\ phase = "manifest"
    /\ \/ /\ manifests' = With(manifests, vs.manifest,
                               [edits |-> <<[NoEdit EXCEPT !.add = vs.files], edit>>, safe |-> 0])
          /\ phase' = "setcurrent"
          /\ UNCHANGED <<vs, opening, wal, faults>>
       \/ Fails /\ manifests' = Keep(manifests, DOMAIN manifests \ {vs.manifest})
    /\ UNCHANGED <<logs, tables, current, mem, imm, writers, work, reader, bgError,
                   count, stored, told, synced, doubtful, stops>>

\* LogAndApply with no descriptor yet: a new one, with the version that was
\* recovered and the edit, which CURRENT names once it is synced.
WriteSnapshot ==
    /\ phase = "manifest"
    /\ \/ /\ manifests' = With(manifests, vs.manifest,
                               [edits |-> <<[NoEdit EXCEPT !.add = vs.files], edit>>, safe |-> 2])
          /\ phase' = "setcurrent"
          /\ UNCHANGED <<vs, opening, wal, faults>>
       \/ Fails /\ manifests' = Keep(manifests, DOMAIN manifests \ {vs.manifest})
    /\ UNCHANGED <<logs, tables, current, mem, imm, writers, work, reader, bgError,
                   count, stored, told, synced, doubtful, stops>>

\* From here on what was recovered is what there is.
SetCurrentFile ==
    /\ phase = "setcurrent"
    /\ \/ /\ current' = vs.manifest
          /\ phase' = "install"
          /\ UNCHANGED <<manifests, vs, opening, wal, faults>>
          /\ stored' = BatchesOf(Content(Apply(vs.files, edit)))
          /\ doubtful' = doubtful \ stored'
       \/ /\ Fails
          /\ manifests' = Keep(manifests, DOMAIN manifests \ {vs.manifest})
          /\ UNCHANGED <<current, stored, doubtful>>
    /\ UNCHANGED <<logs, tables, mem, imm, writers, work, reader, bgError,
                   count, told, synced, stops>>

Opened ==
    /\ phase = "install"
    /\ LET files == Apply(vs.files, edit)
       IN /\ vs' = [vs EXCEPT !.files = files, !.log = edit.log]
          /\ DeleteObsoleteFiles(files, edit.log, NoVersion, {}, FALSE)
          /\ bg' = MaybeScheduleCompaction("off", {}, files, FALSE)
    /\ edit' = NoEdit
    /\ phase' = "up"
    /\ UNCHANGED <<current, todo, memory, writers, flush, made, inputs, pending, reader, bgError,
                   history>>

-----------------------------------------------------------------------------
(***************************************************************************)
(* The end: ~DBImpl, the process, or the machine.                          *)
(***************************************************************************)
Gone ==
    /\ Reset
    /\ mem' = {} /\ imm' = {} /\ queue' = <<>> /\ op' = [c \in Clients |-> Idle]
    /\ bg' = "off" /\ flush' = NoOutput /\ made' = NoOutput /\ inputs' = NoVersion
    /\ pending' = {} /\ reader' = NoVersion /\ bgError' = FALSE

MayStop == stops < MaxStops /\ MoreEvents

Stops == MayStop /\ stops' = stops + 1

\* The callers are done, as db.h demands; the background thread may not be.
Close ==
    /\ phase = "up"
    /\ queue = <<>> /\ reader = NoVersion
    /\ MayStop
    /\ phase' = "closing"
    /\ UNCHANGED <<disk, vs, opening, memory, writers, work, reader, bgError, history>>

Closed ==
    /\ phase = "closing"
    /\ bg = "off"
    /\ Stops
    /\ Gone
    /\ stored' = DiskBatches(logs, manifests)
    /\ UNCHANGED <<disk, count, told, synced, doubtful, faults>>

Crash ==
    /\ phase # "down"
    /\ Stops
    /\ Gone
    /\ stored' = DiskBatches(logs, manifests)
    /\ UNCHANGED <<disk, count, told, synced, doubtful, faults>>

\* The machine: of what was not synced, each log keeps some, and so does the
\* descriptor.
Cuts == {cut \in [DOMAIN logs -> 0 .. Max({0} \cup {Len(logs[n].cells) : n \in DOMAIN logs})] :
            \A n \in DOMAIN logs : cut[n] \in logs[n].safe .. Len(logs[n].cells)}

CutLogs(cut) == [n \in DOMAIN logs |-> [cells |-> SubSeq(logs[n].cells, 1, cut[n]), safe |-> cut[n]]]

CutManifests ==
    IF current \notin DOMAIN manifests THEN {manifests}
    ELSE LET m == manifests[current]
         IN {With(manifests, current, [edits |-> SubSeq(m.edits, 1, k), safe |-> k]) :
                k \in m.safe .. Len(m.edits)}

PowerLoss ==
    /\ Stops
    /\ \E lg \in {CutLogs(cut) : cut \in Cuts}, mf \in CutManifests :
          /\ logs' = lg
          /\ manifests' = mf
          /\ stored' = DiskBatches(lg, mf)
    /\ Gone
    /\ told' = synced
    /\ UNCHANGED <<tables, current, count, synced, doubtful, faults>>

-----------------------------------------------------------------------------
Init ==
    /\ logs = <<>> /\ tables = <<>> /\ manifests = <<>> /\ current = 0
    /\ phase = "down" /\ vs = NewVs /\ todo = {} /\ edit = NoEdit /\ wal = NoLog
    /\ mem = {} /\ imm = {} /\ queue = <<>> /\ op = [c \in Clients |-> Idle]
    /\ bg = "off" /\ flush = NoOutput /\ made = NoOutput /\ inputs = NoVersion
    /\ pending = {} /\ reader = NoVersion /\ bgError = FALSE
    /\ count = 0 /\ stored = {} /\ told = {} /\ synced = {} /\ doubtful = {}
    /\ stops = 0 /\ faults = 0

Writer(c) ==
    \/ RoomFails(c) \/ RoomThere(c) \/ RoomWaits(c) \/ SwitchMemTable(c) \/ SwitchFails(c)
    \/ AppendLog(c) \/ SyncLog(c) \/ Finish(c)

Background ==
    \/ BackgroundCall \/ FlushStart \/ BuildTable \/ FlushEdit \/ FlushInstall \/ FlushFails
    \/ TrivialMove \/ MoveInstall \/ PickCompaction \/ OpenCompactionOutputFile
    \/ FinishCompactionOutputFile \/ InstallCompactionResults \/ CleanupCompaction
    \/ ManifestWrite

Opening ==
    \/ NewDB \/ NewDBCurrent \/ Open \/ Recover \/ RecoverLogFile \/ SkipLogFile \/ NewLogFile
    \/ WriteSnapshot \/ SetCurrentFile \/ Opened

Next ==
    \/ \E c \in Clients : Writer(c) \/ \E sync \in BOOLEAN : Write(c, sync)
    \/ Background
    \/ Get \/ CleanupIteratorState
    \/ Opening
    \/ Close \/ Closed \/ Crash \/ PowerLoss

Spec == Init /\ [][Next]_vars

-----------------------------------------------------------------------------
Promised == INSTANCE LevelPromise WITH begun <- count, ends <- stops


\* A write that returned OK stays in the database, whatever the writers, the
\* background thread and the end of the process do, and one with a sync outlives
\* the machine, unless a call of the file system fails on the log it is in: the
\* append of an earlier write, which LevelDB reports to that write alone
\* (db_impl.cc:1200), so that options.h:175-178 ("if it is just the process that
\* crashes .. no writes will be lost") does not bind the later ones; or the call
\* that opens the log for recovery (db_impl.cc:383-387).  What has become a table
\* is out of that danger.  Nothing disappears but at such an end or with such a log.
Promise == Promised!Spec

\* DeleteObsoleteFiles never takes a table of the current version, of one that
\* a compaction reads or that a reader holds, nor the log or the descriptor
\* that is written.
FilesExist ==
    phase \in {"up", "closing"} =>
        /\ \A v \in {vs.files, inputs, reader} \ {NoVersion} : FilesOf(v) \subseteq DOMAIN tables
        /\ wal.number \in DOMAIN logs
        /\ vs.manifest \in DOMAIN manifests /\ current = vs.manifest

\* Two batches never have a sequence number in common, and none has one beyond
\* LastSequence, which hides it from readers and would be given out again.
WellNumbered(es, last) ==
    /\ \A e, f \in es : e[1] = f[1] => e = f
    /\ \A e \in es : e[1] \in 1 .. last

SequencesUnique ==
    phase \in {"up", "closing"} => WellNumbered(mem \cup imm \cup Content(vs.files), vs.last)

\* What DB::Open has put together when it installs it: tables that exist and
\* are well numbered, and counters beyond every number in use.
Recovered ==
    phase = "install" =>
        LET files == Apply(vs.files, edit)
        IN /\ {vs.next, vs.last} \subseteq Nat
           /\ {wal.number, vs.manifest} \cup FilesOf(files) \subseteq 1 .. vs.next - 1
           /\ FilesOf(files) \subseteq DOMAIN tables
           /\ WellNumbered(Content(files), vs.last)

\* However the process or the machine stopped, the next Open finds a descriptor
\* that it can read, and all the tables that it lists, and makes a whole of them.
\* (The very first descriptor is not synced before CURRENT names it.)  One fault is
\* left out, with NestedFaults = FALSE: a flush in the middle of a compaction that
\* tears the descriptor, to which the compaction then appends, so that the next
\* Open fails.
OpensAgain == (current > 1 => Recoverable(manifests)) /\ Recovered

\* When the table of a log cannot be written during recovery, DB::Open fails.
ErrorsFailOpen == [][RecoverLogFile /\ faults' # faults => phase' = "down"]_vars

\* Nobody waits for a signal that will not come: the writer at the head of the
\* queue is at work, and when it waits for room, the background thread has work
\* to do, and signals when it ends.
WaitersWoken ==
    /\ queue # <<>> => op[Head(queue)].pc # "wait"
    /\ (\E c \in Clients : op[c].pc = "bgwait") => bg # "off"
=============================================================================
