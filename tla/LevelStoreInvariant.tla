------------------------ MODULE LevelStoreInvariant ------------------------
(***************************************************************************)
(* Why LevelStore is right: the inductive invariant that LevelStoreProofs  *)
(* proves.  The first half is about a session, from the end of DB::Open to *)
(* the end of the process; the second about what DB::Open would find on    *)
(* the disk, at any time, and about what it has put together so far.       *)
(***************************************************************************)
EXTENDS LevelStore

Session == phase \in {"up", "closing"}

\* Outside a session there are no writers, no work and nothing in memory.
Quiet ==
    ~Session =>
        /\ queue = <<>> /\ op = [c \in Clients |-> Idle] /\ mem = {} /\ imm = {}
        /\ bg = "off" /\ flush = NoOutput /\ made = NoOutput
        /\ inputs = NoVersion /\ reader = NoVersion /\ pending = {} /\ bgError = FALSE

Shapes ==
    /\ DOMAIN vs = DOMAIN NewVs
    /\ DOMAIN edit = DOMAIN NoEdit
    /\ DOMAIN wal = DOMAIN NoLog
    /\ count \in Nat

\* The new log and the new descriptor are there before they are named.
OpeningWell ==
    /\ phase \in {"manifest", "setcurrent", "install"} =>
          wal.number \in DOMAIN logs /\ edit.log = wal.number
    /\ phase \in {"setcurrent", "install"} => vs.manifest \in DOMAIN manifests
    /\ phase = "install" => current = vs.manifest

Versions == [l0 : SUBSET Nat, l1 : SUBSET Nat]

AtWork == {"append", "sync", "finish", "syncError"}

OpType == [pc : {"idle", "wait", "room", "bgwait"} \cup AtWork, batch : Nat, sync : BOOLEAN,
           group : Seq(Clients), ok : BOOLEAN]

VsType    == [files : Versions, log : Nat, next : Nat, last : Nat, manifest : Nat]
EditType  == [log : Nat, next : Nat, last : Nat, add : Versions, del : SUBSET Nat,
              wrote : {"no", "ok", "failed"}]
FlushType == [pc : {"no", "build", "built", "failed", "edit"}, to : Nat]
MadeType  == [pc : {"no", "open", "write", "done", "failed", "install"}, to : Nat]

Types ==
    /\ vs \in VsType
    /\ edit \in EditType
    /\ wal.number \in Nat
    /\ queue \in Seq(Clients)
    /\ op \in [Clients -> OpType]
    /\ bg \in {"off", "scheduled", "flushing", "moving", "compacting"}
    /\ flush \in FlushType
    /\ made \in MadeType
    /\ inputs \in Versions /\ reader \in Versions /\ pending \in SUBSET Nat
    /\ bgError \in BOOLEAN

\* The clients in the queue are those that write, once each; the first one
\* works, for a group that begins with it, and the others wait.
InLine ==
    /\ \A i, j \in 1 .. Len(queue) : queue[i] = queue[j] => i = j
    /\ \A c \in Clients : op[c].pc = "idle" <=> \A i \in 1 .. Len(queue) : queue[i] # c
    /\ \A c \in Clients : op[c].pc \notin {"idle", "wait"} <=> queue # <<>> /\ c = queue[1]
    /\ \A c \in Clients : op[c].pc \in AtWork =>
          \E k \in 1 .. Len(queue) : op[c].group = SubSeq(queue, 1, k)
    /\ phase = "closing" => queue = <<>>

\* A writer that waits for the background thread will hear from it.
Woken == (\E c \in Clients : op[c].pc = "bgwait") => bg # "off"

\* What the background thread does, and what a compaction it interrupts for a
\* flush was doing.
Stages ==
    /\ bg \in {"off", "scheduled", "moving"} => flush.pc = "no" /\ made.pc = "no"
    /\ bg = "flushing" => flush.pc # "no" /\ made.pc = "no"
    /\ bg = "compacting" => made.pc # "no" /\ (flush.pc # "no" => made.pc \in {"open", "write"})
    /\ flush.pc # "no" => imm # {}

\* Whenever there is work to do, the thread is at it or called.
Called ==
    phase = "up" /\ ~bgError /\ (imm # {} \/ NeedsCompaction(vs.files)) => bg # "off"

\* The edit is that of the work that wrote it.
EditWell ==
    IF flush.pc = "edit"
    THEN /\ edit.log = wal.number
         /\ edit.add = [l0 |-> {flush.to}, l1 |-> {}] /\ edit.del = {}
    ELSE IF bg = "moving"
    THEN \E n \in vs.files.l0 : edit.add = [l0 |-> {}, l1 |-> {n}] /\ edit.del = {n}
    ELSE IF made.pc = "install"
    THEN edit.add = [l0 |-> {}, l1 |-> {made.to}] /\ edit.del = FilesOf(inputs)
    ELSE edit = NoEdit

\* The files of the versions in use, and the numbers given out.
Held    == FilesOf(vs.files) \cup FilesOf(inputs) \cup FilesOf(reader)
Numbers == 1 .. vs.next - 1

\* A table that is being made has a number of its own, which protects it from
\* DeleteObsoleteFiles, and holds nothing new.
FlushOutput ==
    flush.pc # "no" =>
        /\ flush.to \in Numbers \ Held
        /\ flush.pc # "edit" => flush.to \in pending
        /\ flush.pc \in {"built", "edit"} => flush.to \in DOMAIN tables /\ tables[flush.to] = imm

MadeOutput ==
    made.pc \notin {"no", "open"} =>
        /\ made.to \in Numbers \ Held
        /\ made.to \in pending
        /\ flush.pc # "no" => made.to # flush.to
        /\ made.pc \in {"done", "install"} =>
              made.to \in DOMAIN tables /\ tables[made.to] \subseteq Content(vs.files)

\* A compaction only replaces files that are still there.
InputsStay ==
    /\ bg = "compacting" => FilesOf(inputs) \subseteq FilesOf(vs.files)
    /\ bg # "compacting" => inputs = NoVersion

FilesThere ==
    /\ FilesOf(vs.files) \subseteq Numbers \cap DOMAIN tables
    /\ \A v \in {inputs, reader} \ {NoVersion} : FilesOf(v) \subseteq Numbers \cap DOMAIN tables
    /\ wal.number \in Numbers \cap DOMAIN logs
    /\ vs.log <= wal.number
    /\ vs.manifest \in DOMAIN manifests /\ current = vs.manifest

Numbered == WellNumbered(mem \cup imm \cup Content(vs.files), vs.last)

SessionWell ==
    /\ Types
    /\ InLine
    /\ Woken
    /\ Stages
    /\ Called
    /\ EditWell
    /\ FlushOutput
    /\ MadeOutput
    /\ InputsStay
    /\ FilesThere
    /\ Numbered

IInv ==
    /\ Quiet
    /\ Shapes
    /\ OpeningWell
    /\ Session => SessionWell

-----------------------------------------------------------------------------
(***************************************************************************)
(* The disk: what DB::Open would find, whenever it is called.              *)
(***************************************************************************)
\* What AddRecord puts into a log: the zeros at the end of a block, headers, and
\* the batches of a record, whose first number is the sequence number of the first.
Zeros == {Zero}
HeaderCell == [part : {"header"}, at : Nat, type : {"full", "first", "middle", "last"},
               rec : Seq(Nat), from : Nat, len : Nat]
DataCell == {c \in [part : {"data"}, rec : Seq(Nat), at : Nat] :
                c.at \in 1 .. Len(c.rec) - 1 /\ c.rec[1] # 0}
Cell == Zeros \cup HeaderCell \cup DataCell

\* The entries of which a log holds cells, and of which recovery may find some.
Written(cells) == {<<c.rec[1] + c.at - 1, c.rec[c.at + 1]>> : c \in {x \in Range(cells) : x.part = "data"}}
Logged(lg, lo) == UNION {Written(lg[n].cells) : n \in {k \in DOMAIN lg : k >= lo}}

LogType  == [cells : Seq(Cell), safe : Nat]
DiskEdit == [log : Nat, next : Nat, last : Nat, add : Versions, del : SUBSET Nat,
             wrote : {"no", "torn"}]
ManifestType == [edits : Seq(DiskEdit), safe : Nat]

DiskTypes ==
    /\ current \in Nat
    /\ DOMAIN logs \subseteq Nat /\ \A n \in DOMAIN logs : logs[n] \in LogType
    /\ \A n \in DOMAIN manifests : /\ manifests[n] \in ManifestType
                                   /\ manifests[n].safe <= Len(manifests[n].edits)

\* The edits of descriptor m after which the next Open may find its end: a stop
\* keeps those that are safe, and any number of the others, and a torn one
\* ends them.  Version(m, j) is what Open makes of the first j.
Intact(m, j) == \A i \in 1 .. j : m.edits[i].wrote # "torn"
Ends(m) == {j \in 1 .. Len(m.edits) :
               /\ Intact(m, j)
               /\ j >= m.safe \/ (j + 1 = m.safe /\ m.edits[m.safe].wrote = "torn")}
Version(m, j) == FoldLeft(Apply, NoFiles, SubSeq(m.edits, 1, j))

\* The entries of the tables of a version, and what is asked of them.
Tables(tb, v) == UNION {tb[n] : n \in FilesOf(v) \cap DOMAIN tb}
Unique(es)     == \A e, f \in es : e[1] = f[1] => e = f
Upto(es, last) == \A e \in es : e[1] \in 1 .. last

\* If the descriptor ends there, Open finds all the tables, gives out none of
\* their numbers again, and no entry twice in them and in the logs it will read.
EndWell(m, j, tb, lg, cur) ==
    LET v == Version(m, j)
        e == m.edits[j]
    IN /\ FilesOf(v) \subseteq DOMAIN tb \cap 1 .. e.next - 1
       /\ cur < e.next /\ e.log < e.next
       /\ Upto(Tables(tb, v), e.last)
       /\ Unique(Tables(tb, v) \cup Logged(lg, e.log))

DescriptorWell(m, tb, lg, cur) ==
    /\ \A j \in Ends(m) : EndWell(m, j, tb, lg, cur)
    /\ \A j, k \in Ends(m) : j <= k => m.edits[j].next <= m.edits[k].next

\* The descriptor that CURRENT names is well wherever it ends.
DiskWell ==
    IF current = 0 THEN DOMAIN logs = {}
    ELSE /\ current \in DOMAIN manifests
         /\ DescriptorWell(manifests[current], tables, logs, current)

\* A torn record is the last one, and never one of the first two, but for the
\* fault that NestedFaults stands for.
Readable ==
    current > 1 =>
        LET m == manifests[current]
        IN /\ m.safe >= 2 /\ Intact(m, 2)
           /\ ~NestedFaults => Intact(m, Len(m.edits) - 1)

\* In DB::Open: the first descriptor of all, before CURRENT names it ..
FirstOne ==
    /\ phase = "newdb" => /\ current = 0
                          /\ manifests = [n \in {1} |-> [edits |-> <<[NoEdit EXCEPT !.next = 2]>>, safe |-> 0]]
    /\ phase \notin {"down", "newdb"} => current # 0

\* .. the descriptor that was read, whose number will not be the new one's ..
OldOne ==
    phase \in {"logs", "manifest", "setcurrent"} =>
        /\ current < vs.manifest
        /\ \A j \in Ends(manifests[current]) : manifests[current].edits[j].next <= vs.manifest

\* .. the tables that were listed, and those that were made from logs ..
FoundFiles ==
    phase \in {"logs", "manifest", "setcurrent", "install"} =>
        /\ vs \in VsType
        /\ 1 < vs.manifest /\ vs.manifest < vs.next
        /\ edit \in EditType /\ edit.add.l1 = {} /\ edit.del = {} /\ edit.wrote = "no"
        /\ FilesOf(vs.files) \cup edit.add.l0 \subseteq DOMAIN tables \cap 1 .. vs.next - 1

Found == Tables(tables, vs.files) \cup Tables(tables, edit.add)

\* .. the logs that are still to be read, whose entries nobody else has ..
FoundLogs ==
    phase = "logs" =>
        /\ todo \subseteq {n \in DOMAIN logs : n >= vs.log}
        /\ \A n \in DOMAIN logs : n < vs.next \/ n \in todo
        /\ Unique(Found \cup Logged(logs, vs.log))
        /\ \A e \in Found : e[1] \in 1 .. vs.last \/ e[1] \in 1 .. edit.last

\* .. the new log, and the entries found, below the last sequence number ..
FoundAll ==
    phase \in {"manifest", "setcurrent", "install"} =>
        /\ edit.log = wal.number /\ edit.next = vs.next /\ edit.last = vs.last
        /\ wal.number \in 1 .. vs.next - 1 /\ wal.off = 0
        /\ \A n \in DOMAIN logs : n <= wal.number
        /\ wal.number \in DOMAIN logs /\ logs[wal.number].cells = <<>>
        /\ WellNumbered(Found, vs.last)

\* .. and the new descriptor, which is synced.
NewOne ==
    phase \in {"setcurrent", "install"} =>
        /\ vs.manifest \in DOMAIN manifests
        /\ manifests[vs.manifest] = [edits |-> <<[NoEdit EXCEPT !.add = vs.files], edit>>, safe |-> 2]

OpeningDisk == FirstOne /\ OldOne /\ FoundFiles /\ FoundLogs /\ FoundAll /\ NewOne

\* A session: the descriptor it writes, what the writer at the head of the queue
\* has put into the log but not into the memtable, and every entry that this or
\* the next session may show to a reader.
Descriptor == manifests[vs.manifest]
Flying == {"sync", "finish", "syncError"}
InFlight == UNION {Entries(Record(c)) : c \in {d \in Clients : op[d].pc \in Flying}}
Known == mem \cup imm \cup Tables(tables, vs.files)
         \cup (UNION {Tables(tables, Version(Descriptor, j)) : j \in Ends(Descriptor)})
         \cup Logged(logs, vs.log)

\* Wherever the descriptor ends, it gives out no numbers beyond those of e, and
\* needs no log that is gone.
EndsBefore(e) ==
    \A j \in Ends(Descriptor) : /\ Descriptor.edits[j].next <= e.next
                                /\ Descriptor.edits[j].last <= e.last
                                /\ Descriptor.edits[j].log >= vs.log

\* An edit that is still to be written would be a good end.
EditReady ==
    edit # NoEdit /\ edit.wrote = "no" =>
        /\ EndsBefore(edit)
        /\ edit.next <= vs.next /\ edit.last <= vs.last
        /\ edit.log >= vs.log /\ edit.log < edit.next /\ vs.manifest < edit.next
        /\ FilesOf(edit.add) \subseteq DOMAIN tables \cap 1 .. edit.next - 1
        /\ Upto(Tables(tables, edit.add), edit.last)

\* A table that is not finished is in none of the versions Open may find.
Apart ==
    \A j \in Ends(Descriptor) :
        /\ flush.pc = "build" => flush.to \notin FilesOf(Version(Descriptor, j))
        /\ made.pc = "write" => made.to \notin FilesOf(Version(Descriptor, j))

\* As long as all went well, there is one such version: the current one.
Synced ==
    ~bgError /\ edit.wrote # "failed" =>
        /\ Descriptor.safe = Len(Descriptor.edits)
        /\ Version(Descriptor, Len(Descriptor.edits))
             = IF edit.wrote = "ok" THEN Apply(vs.files, edit) ELSE vs.files

\* Once the edit is synced, Open no longer needs the log that it replaces.
EditThere ==
    edit.wrote = "ok" => \A j \in Ends(Descriptor) : Descriptor.edits[j].log >= edit.log

\* After a torn record nothing else is written.
AfterTorn ==
    ~NestedFaults /\ ~Intact(Descriptor, Len(Descriptor.edits)) =>
        \/ edit.wrote = "failed" /\ (flush.pc = "edit" => bg = "flushing")
        \/ edit = NoEdit /\ bgError /\ bg \in {"off", "scheduled"}

\* No two entries have a number in common, whatever becomes of the process, and
\* those beyond LastSequence are the ones in flight.
KnownWell ==
    /\ Unique(Known \cup InFlight)
    /\ \A e \in Known : e \in InFlight \/ e[1] \in 1 .. vs.last

DescriptorReady ==
    /\ vs.manifest \in 2 .. vs.next - 1
    /\ Descriptor.edits[Descriptor.safe].wrote # "torn"
    /\ EndsBefore(vs)
    /\ EditReady
    /\ Apart
    /\ Synced
    /\ EditThere
    /\ AfterTorn

SessionDisk ==
    Session => wal.off \in 0 .. BlockSize /\ DescriptorReady /\ KnownWell

-----------------------------------------------------------------------------
DiskInv == DiskTypes /\ DiskWell /\ Readable

Whole == IInv /\ DiskInv /\ OpeningDisk /\ SessionDisk
=============================================================================
