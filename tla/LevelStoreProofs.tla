-------------------------- MODULE LevelStoreProofs --------------------------
(***************************************************************************)
(* LevelDB, for any number of writers, writes, faults and stops, and for   *)
(* any sizes of blocks, headers and buffers: nobody waits for ever, no file*)
(* that is in use is deleted, no sequence number is given out twice, and   *)
(* the database can be opened again wherever the process, or the machine,  *)
(* stopped, but for the fault that NestedFaults stands for.                *)
(*                                                                         *)
(* The invariant is in LevelStoreInvariant.  Its first half, on a session, *)
(* needs of the rest only what DB::Open installs (Recovered).  The second  *)
(* half, on the disk, gives that: AddRecord, the log reader, the fold of   *)
(* the edits and the loop over the records are loops, of which the lemmas  *)
(* here show what each turn keeps.                                         *)
(***************************************************************************)
EXTENDS LevelStoreInvariant, FiniteSetTheorems, SequenceTheorems, WellFoundedInduction, TLAPS

-----------------------------------------------------------------------------
(***************************************************************************)
(* Steps, by what they do to the session.                                  *)
(***************************************************************************)
Acts ==
    \/ \E c \in Clients : Writer(c) \/ \E sync \in BOOLEAN : Write(c, sync)
    \/ Background
    \/ Get \/ CleanupIteratorState
    \/ Close

Stopping == Closed \/ Crash \/ PowerLoss

LEMMA StoppingQuiets ==
  ASSUME Stopping
  PROVE  /\ phase' = "down" /\ vs' = NewVs /\ edit' = NoEdit /\ wal' = NoLog
         /\ queue' = <<>> /\ op' = [c \in Clients |-> Idle] /\ mem' = {} /\ imm' = {}
         /\ bg' = "off" /\ flush' = NoOutput /\ made' = NoOutput
         /\ inputs' = NoVersion /\ reader' = NoVersion /\ pending' = {} /\ bgError' = FALSE
         /\ count' = count
<1>1. Gone /\ count' = count
  BY DEF Stopping, Closed, Crash, PowerLoss, Stops
<1> QED
  BY <1>1 DEF Gone, Reset

LEMMA SessionSteps ==
  ASSUME Session, Next
  PROVE  Acts \/ Stopping
BY Zenon DEF Session, Next, Acts, Stopping, Opening, NewDB, NewDBCurrent, Open, Recover, RecoverLogFile, SkipLogFile, LogRead,
   NewLogFile, WriteSnapshot, SetCurrentFile, Opened

LEMMA QuietSteps ==
  ASSUME Quiet, ~Session, Next
  PROVE  Opening \/ Stopping
<1> USE DEF Quiet, Session
<1>1. ASSUME NEW c \in Clients, Writer(c) \/ \E sync \in BOOLEAN : Write(c, sync)
      PROVE  FALSE
  <2>1. op[c].pc = "idle"
    BY DEF Idle
  <2> QED
    BY <1>1, <2>1, Zenon DEF Writer, Write, RoomFails, RoomThere, RoomWaits, SwitchMemTable, SwitchFails,
       AppendLog, SyncLog, Finish
<1>2. ~Background
  <2>1. flush.pc = "no" /\ bg = "off" /\ imm = {}
    BY DEF NoOutput
  <2> QED
    BY <2>1 DEF Background, BackgroundCall, FlushStart, BuildTable, FlushEdit, FlushInstall, FlushFails,
       TrivialMove, MoveInstall, PickCompaction, OpenCompactionOutputFile, Compacting, Working,
       FinishCompactionOutputFile, InstallCompactionResults, CleanupCompaction, ManifestWrite
<1>3. ~Get /\ ~CleanupIteratorState /\ ~Close
  BY DEF Get, CleanupIteratorState, Close
<1> QED
  BY <1>1, <1>2, <1>3 DEF Next, Stopping

-----------------------------------------------------------------------------
(***************************************************************************)
(* DB::Open.                                                               *)
(***************************************************************************)
LEMMA OpeningKeepsShapes ==
  ASSUME Shapes, Opening
  PROVE  Shapes'
<1> USE DEF Shapes
<1>1. count' = count
  BY Zenon DEF Opening, NewDB, NewDBCurrent, Open, Recover, RecoverLogFile, SkipLogFile, LogRead, NewLogFile, WriteSnapshot,
     SetCurrentFile, Opened, history
<1>2. DOMAIN NoLog' = DOMAIN NoLog /\ DOMAIN NoEdit' = DOMAIN NoEdit /\ DOMAIN NewVs' = DOMAIN NewVs
  BY DEF NoLog, NoEdit, NewVs, NoFiles
<1>3. CASE UNCHANGED <<vs, edit, wal>>
  BY <1>1, <1>2, <1>3
<1>4. CASE Reset
  BY <1>1, <1>2, <1>4 DEF Reset
<1>5. CASE Recover
  <2>1. DOMAIN VersionRead(manifests) = DOMAIN NewVs
    BY DEF VersionRead, NewVs
  <2>2. DOMAIN vs' = DOMAIN NewVs /\ edit' = NoEdit /\ wal' = wal
    BY <1>5, <2>1 DEF Recover, memory
  <2> QED
    BY <1>1, <1>2, <2>2
<1>6. CASE RecoverLogFile \/ SkipLogFile
  <2>1. \/ Reset
        \/ /\ wal' = wal
           /\ \E x, S, y : edit' = [edit EXCEPT !.add.l0 = @ \cup S, !.last = y]
                          /\ vs' = [vs EXCEPT !.next = x]
    BY <1>6, Zenon DEF RecoverLogFile, SkipLogFile, LogRead, Fails
  <2> QED
    BY <1>1, <1>2, <1>4, <2>1, Zenon
<1>7. CASE NewLogFile
  <2>1. CASE ~Reset
    <3>1. wal' = [NoLog EXCEPT !.number = vs.next]
      BY <1>7, <2>1 DEF NewLogFile, Fails
    <3>2. vs' = [vs EXCEPT !.next = vs.next + 1, !.last = Max({vs.last, edit.last})]
      BY <1>7, <2>1 DEF NewLogFile, Fails
    <3>3. edit' = [edit EXCEPT !.log = vs.next, !.next = vs.next + 1,
                               !.last = Max({vs.last, edit.last})]
      BY <1>7, <2>1 DEF NewLogFile, Fails
    <3> QED
      BY <1>1, <1>2, <3>1, <3>2, <3>3
  <2> QED
    BY <1>4, <2>1
<1>8. CASE Opened
  <2>1. wal' = wal /\ edit' = NoEdit /\ \E x, y : vs' = [vs EXCEPT !.files = x, !.log = y]
    BY <1>8, Zenon DEF Opened, memory
  <2> QED
    BY <1>1, <1>2, <2>1
<1>9. CASE NewDB \/ NewDBCurrent \/ Open \/ WriteSnapshot \/ SetCurrentFile
  <2>1. UNCHANGED <<vs, edit, wal>> \/ Reset
    BY <1>9 DEF NewDB, NewDBCurrent, Open, WriteSnapshot, SetCurrentFile, Fails, opening, memory
  <2> QED
    BY <2>1, <1>3, <1>4
<1> QED
  BY <1>5, <1>6, <1>7, <1>8, <1>9 DEF Opening

LEMMA OpeningKeepsWell ==
  ASSUME Shapes, OpeningWell, Opening
  PROVE  OpeningWell'
<1> USE DEF OpeningWell
<1>1. CASE phase' \notin {"manifest", "setcurrent", "install"}
  BY <1>1
<1>2. CASE NewLogFile
  <2>1. CASE ~Reset
    <3>1. wal'.number = vs.next
      BY <1>2, <2>1 DEF NewLogFile, Fails, NoLog
    <3>2. vs.next \in DOMAIN logs'
      BY <1>2, <2>1 DEF NewLogFile, Fails, With
    <3>3. edit'.log = vs.next
      <4>1. \E y, z : edit' = [edit EXCEPT !.log = vs.next, !.next = y, !.last = z]
        BY <1>2, <2>1, Zenon DEF NewLogFile, Fails
      <4> QED
        BY <4>1 DEF Shapes, NoEdit
    <3>4. phase' = "manifest"
      BY <1>2, <2>1 DEF NewLogFile, Fails
    <3> QED
      BY <3>1, <3>2, <3>3, <3>4
  <2>2. CASE Reset
    BY <2>2, <1>1 DEF Reset
  <2> QED
    BY <2>1, <2>2
<1>3. CASE WriteSnapshot
  <2>1. CASE ~Reset
    BY <1>3, <2>1 DEF WriteSnapshot, Fails, With, opening
  <2>2. CASE Reset
    BY <2>2, <1>1 DEF Reset
  <2> QED
    BY <2>1, <2>2
<1>4. CASE SetCurrentFile
  <2>1. CASE ~Reset
    BY <1>4, <2>1 DEF SetCurrentFile, Fails, opening
  <2>2. CASE Reset
    BY <2>2, <1>1 DEF Reset
  <2> QED
    BY <2>1, <2>2
<1>5. CASE NewDB \/ NewDBCurrent \/ Open \/ Recover \/ RecoverLogFile \/ SkipLogFile \/ Opened
  <2>1. phase' \notin {"manifest", "setcurrent", "install"}
    BY <1>5, Zenon DEF NewDB, NewDBCurrent, Open, Recover, RecoverLogFile, SkipLogFile, LogRead, Opened, Fails, Reset
  <2> QED
    BY <1>1, <2>1
<1> QED
  BY <1>2, <1>3, <1>4, <1>5 DEF Opening

LEMMA OpeningKeepsQuiet ==
  ASSUME Quiet, ~Session, Opening
  PROVE  Quiet'
<1>1. \/ phase' = "up"
      \/ UNCHANGED <<queue, op, mem, imm, bg, flush, made, inputs, reader, pending, bgError>>
  BY Zenon DEF Opening, NewDB, NewDBCurrent, Open, Recover, RecoverLogFile, SkipLogFile, LogRead, NewLogFile, WriteSnapshot,
     SetCurrentFile, Opened, memory, writers, work
<1> QED
  BY <1>1 DEF Quiet, Session, NoOutput, NoVersion, Idle

-----------------------------------------------------------------------------
(***************************************************************************)
(* Helpers: the queue, the files on the disk, sequence numbers.            *)
(***************************************************************************)
LEMMA FirstOfGroup ==
  ASSUME Types, InLine, NEW c \in Clients, op[c].pc \notin {"idle", "wait"}
  PROVE  /\ queue # <<>> /\ Len(queue) \in Nat \ {0} /\ c = queue[1]
         /\ <<c>> = SubSeq(queue, 1, 1)
         /\ phase # "closing"
<1>1. queue # <<>> /\ c = queue[1] /\ phase # "closing"
  BY DEF InLine
<1>2. queue \in Seq(Clients)
  BY DEF Types
<1>3. Len(queue) \in Nat \ {0}
  BY <1>1, <1>2, EmptySeq
<1>4. <<c>> = SubSeq(queue, 1, 1)
  BY <1>1, <1>2, <1>3, SubSeqProperties
<1> QED
  BY <1>1, <1>3, <1>4

\* When a group leaves, the next writer works and all others are as before.
LEMMA LeaveKeepsLine ==
  ASSUME Types, InLine, NEW c \in Clients, NEW k \in 1 .. Len(queue), NEW ok,
         Leave(c, SubSeq(queue, 1, k), ok), phase' = phase
  PROVE  /\ queue' \in Seq(Clients)
         /\ op' \in [Clients -> OpType]
         /\ InLine'
         /\ \A d \in Clients : op'[d].pc = "bgwait" => op[d].pc = "bgwait"
<1> DEFINE rest == SubSeq(queue, k + 1, Len(queue))
           out  == {queue[i] : i \in 1 .. k}
<1>1. queue \in Seq(Clients) /\ Len(queue) \in Nat
  BY DEF Types
<1>2. /\ Len(SubSeq(queue, 1, k)) = k
      /\ \A i \in 1 .. k : SubSeq(queue, 1, k)[i] = queue[i]
      /\ DOMAIN SubSeq(queue, 1, k) = 1 .. k
  BY <1>1, SubSeqProperties
<1>3. Range(SubSeq(queue, 1, k)) = out
  BY <1>2 DEF Range
<1>4. /\ rest \in Seq(Clients) /\ Len(rest) = Len(queue) - k
      /\ \A i \in 1 .. Len(queue) - k : rest[i] = queue[k + i]
  <2>1. k + 1 \in 1 .. Len(queue) + 1
    BY <1>1
  <2> QED
    BY <1>1, <2>1, SubSeqProperties
<1>5. /\ queue' = rest
      /\ op' = [d \in Clients |->
                   IF d \in out THEN Idle
                   ELSE IF rest # <<>> /\ d = Head(rest) THEN [op[d] EXCEPT !.pc = "room"]
                   ELSE op[d]]
  BY <1>2, <1>3 DEF Leave
<1> HIDE DEF rest, out
<1>6. rest # <<>> => Head(rest) = rest[1] /\ Len(rest) \in Nat \ {0}
  BY <1>4, EmptySeq
<1>7. rest = <<>> => Len(rest) = 0
  BY <1>4
<1>8. op \in [Clients -> OpType]
  BY DEF Types
<1>9. Idle \in OpType
  BY DEF Idle, OpType
<1>10. \A d \in Clients :
         op'[d] = IF d \in out THEN Idle
                  ELSE IF rest # <<>> /\ d = rest[1] THEN [op[d] EXCEPT !.pc = "room"]
                  ELSE op[d]
  BY <1>5, <1>6
<1>11. op' \in [Clients -> OpType]
  BY <1>5, <1>8, <1>9 DEF OpType
<1>12. \A d \in Clients : op'[d].pc = IF d \in out THEN "idle"
                                     ELSE IF rest # <<>> /\ d = rest[1] THEN "room" ELSE op[d].pc
  <2>1. TAKE d \in Clients
  <2>2. op[d] \in OpType
    BY <1>8
  <2>3. [op[d] EXCEPT !.pc = "room"].pc = "room" /\ Idle.pc = "idle"
    BY <2>2 DEF Idle
  <2> HIDE DEF rest, out
  <2> QED
    BY <1>10, <2>3, Zenon
<1>13. queue[1] \in out
  BY <1>1 DEF out
<1>14. \A d \in Clients : d \in out => \A i \in 1 .. Len(rest) : rest[i] # d
  <2> SUFFICES ASSUME NEW d \in Clients, d \in out, NEW i \in 1 .. Len(rest), rest[i] = d
               PROVE  FALSE
    OBVIOUS
  <2>1. PICK j \in 1 .. k : d = queue[j]
    BY DEF out
  <2>2. k + i \in 1 .. Len(queue) /\ j \in 1 .. Len(queue) /\ queue[k + i] = queue[j]
    BY <1>1, <1>4, <2>1
  <2>3. k + i = j
    BY <2>2 DEF InLine
  <2> QED
    BY <1>1, <2>1, <2>3
<1>15. \A d \in Clients : d \notin out =>
         ((\A i \in 1 .. Len(queue) : queue[i] # d) <=> (\A i \in 1 .. Len(rest) : rest[i] # d))
  <2> SUFFICES ASSUME NEW d \in Clients, d \notin out
               PROVE  (\A i \in 1 .. Len(queue) : queue[i] # d)
                         <=> (\A i \in 1 .. Len(rest) : rest[i] # d)
    OBVIOUS
  <2>1. ASSUME \A i \in 1 .. Len(queue) : queue[i] # d
        PROVE  \A i \in 1 .. Len(rest) : rest[i] # d
    BY <1>1, <1>4, <2>1
  <2>2. ASSUME \A i \in 1 .. Len(rest) : rest[i] # d, NEW i \in 1 .. Len(queue)
        PROVE  queue[i] # d
    <3>1. CASE i \in 1 .. k
      BY <3>1 DEF out
    <3>2. CASE i \notin 1 .. k
      <4>1. i - k \in 1 .. Len(rest) /\ queue[k + (i - k)] = rest[i - k] /\ k + (i - k) = i
        BY <1>1, <1>4, <3>2
      <4> QED
        BY <2>2, <4>1
    <3> QED
      BY <3>1, <3>2
  <2> QED
    BY <2>1, <2>2
<1>16. InLine'
  <2>1. ASSUME NEW i \in 1 .. Len(rest), NEW j \in 1 .. Len(rest), rest[i] = rest[j]
        PROVE  i = j
    <3>1. k + i \in 1 .. Len(queue) /\ k + j \in 1 .. Len(queue) /\ queue[k + i] = queue[k + j]
      BY <1>1, <1>4, <2>1
    <3>2. k + i = k + j
      BY <3>1 DEF InLine
    <3> QED
      BY <1>1, <3>2
  <2>2. \A d \in Clients : op'[d].pc = "idle" <=> \A i \in 1 .. Len(rest) : rest[i] # d
    <3>1. TAKE d \in Clients
    <3>2. CASE d \in out
      BY <1>12, <1>14, <3>2
    <3>3. CASE d \notin out /\ rest # <<>> /\ d = rest[1]
      BY <1>6, <1>12, <3>3
    <3>4. CASE d \notin out /\ ~(rest # <<>> /\ d = rest[1])
      BY <1>12, <1>15, <3>4 DEF InLine
    <3> QED
      BY <3>2, <3>3, <3>4
  <2>3. \A d \in Clients : op'[d].pc \notin {"idle", "wait"} <=> rest # <<>> /\ d = rest[1]
    <3>1. TAKE d \in Clients
    <3>2. CASE d \in out
      BY <1>6, <1>12, <1>14, <3>2
    <3>3. CASE d \notin out /\ rest # <<>> /\ d = rest[1]
      BY <1>12, <3>3
    <3>4. CASE d \notin out /\ ~(rest # <<>> /\ d = rest[1])
      BY <1>12, <1>13, <3>4 DEF InLine
    <3> QED
      BY <3>2, <3>3, <3>4
  <2>4. \A d \in Clients : op'[d].pc \notin AtWork
    BY <1>12, <1>13 DEF InLine, AtWork
  <2>5. phase # "closing"
    BY <1>1 DEF InLine
  <2> QED
    BY <1>5, <2>1, <2>2, <2>3, <2>4, <2>5 DEF InLine
<1>17. \A d \in Clients : op'[d].pc = "bgwait" => op[d].pc = "bgwait"
  BY <1>12
<1> QED
  BY <1>4, <1>5, <1>11, <1>16, <1>17

\* A working writer that goes on working leaves the queue in order.
LEMMA WorkKeepsLine ==
  ASSUME Types, InLine, queue' = queue, phase' = phase \/ queue = <<>>,
         \A d \in Clients :
            \/ op'[d] = op[d]
            \/ /\ op[d].pc \notin {"idle", "wait"} /\ op'[d].pc \notin {"idle", "wait"}
               /\ op'[d].pc \in AtWork =>
                     \E k \in 1 .. Len(queue) : op'[d].group = SubSeq(queue, 1, k)
  PROVE  InLine'
<1>1. \A d \in Clients : op'[d].pc = "idle" <=> op[d].pc = "idle"
  OBVIOUS
<1>2. \A d \in Clients : op'[d].pc \notin {"idle", "wait"} <=> op[d].pc \notin {"idle", "wait"}
  OBVIOUS
<1>3. \A d \in Clients : op'[d].pc \in AtWork =>
         \E k \in 1 .. Len(queue) : op'[d].group = SubSeq(queue, 1, k)
  BY DEF InLine
<1>4. phase' = "closing" => queue = <<>>
  BY DEF InLine
<1> QED
  BY <1>1, <1>2, <1>3, <1>4 DEF InLine

LEMMA SignalAllWakes ==
  ASSUME op \in [Clients -> OpType]
  PROVE  /\ SignalAll(op) \in [Clients -> OpType]
         /\ \A d \in Clients : \/ op[d].pc # "bgwait" /\ SignalAll(op)[d] = op[d]
                               \/ op[d].pc = "bgwait" /\ SignalAll(op)[d].pc = "room"
<1>1. \A d \in Clients : op[d].pc = "bgwait" =>
         /\ [op[d] EXCEPT !.pc = "room"].pc = "room"
         /\ [op[d] EXCEPT !.pc = "room"] \in
               OpType
  BY DEF OpType
<1>2. \A d \in Clients : SignalAll(op)[d] = IF op[d].pc = "bgwait" THEN [op[d] EXCEPT !.pc = "room"]
                                           ELSE op[d]
  BY DEF SignalAll
<1>3. SignalAll(op) \in [Clients -> OpType]
  BY <1>1 DEF SignalAll, OpType
<1> QED
  BY <1>1, <1>2, <1>3

LEMMA GroupsArePrefixes ==
  ASSUME Types, NEW c \in Clients, NEW g \in Groups(c)
  PROVE  g \in Seq(Clients) /\ \E k \in 1 .. Len(queue) : g = SubSeq(queue, 1, k)
<1>1. PICK k \in 1 .. Len(queue) : g = SubSeq(queue, 1, k)
  BY DEF Groups
<1>2. queue \in Seq(Clients) /\ Len(queue) \in Nat
  BY DEF Types
<1>3. 1 \in 1 .. Len(queue) + 1
  BY <1>2, <1>1
<1>4. g \in Seq(Clients)
  BY <1>1, <1>2, <1>3, SubSeqProperties
<1> QED
  BY <1>1, <1>4

-----------------------------------------------------------------------------
(***************************************************************************)
(* What the steps of a session keep: the queue, and the signals.           *)
(***************************************************************************)
Lined ==
    /\ queue \in Seq(Clients)
    /\ op \in [Clients -> OpType]
    /\ InLine

\* Which steps leave the queue and the writers alone.
Aside ==
    \/ FlushStart \/ BuildTable \/ FlushEdit \/ TrivialMove \/ PickCompaction
    \/ OpenCompactionOutputFile \/ FinishCompactionOutputFile \/ InstallCompactionResults
    \/ ManifestWrite \/ Get \/ CleanupIteratorState

\* .. and which wake the writer that waits for the background thread.
Signals ==
    BackgroundCall \/ FlushInstall \/ FlushFails \/ MoveInstall \/ CleanupCompaction

LEMMA SignalsSignal ==
  ASSUME Signals
  PROVE  op' = SignalAll(op) /\ queue' = queue /\ phase' = phase
BY DEF Signals, BackgroundCall, FlushInstall, FlushFails, MoveInstall, CleanupCompaction,
   FlushEnds, BackgroundEnds

LEMMA AsideLeaves ==
  ASSUME Aside
  PROVE  op' = op /\ queue' = queue /\ phase' = phase
BY DEF Aside, FlushStart, BuildTable, FlushEdit, TrivialMove, PickCompaction,
   OpenCompactionOutputFile, FinishCompactionOutputFile, InstallCompactionResults,
   ManifestWrite, Get, CleanupIteratorState, writers

LEMMA WriterKeepsLine ==
  ASSUME SessionWell, NEW c \in Clients, Writer(c)
  PROVE  Lined' /\ phase' = phase
         /\ \A d \in Clients : op'[d].pc = "bgwait" => op[d].pc = "bgwait" \/ RoomWaits(c)
<1>1. /\ Types /\ InLine /\ op[c] \in OpType /\ queue \in Seq(Clients) /\ op \in [Clients -> OpType]
  BY SMTT(30) DEF SessionWell, Types
<1>2. op[c].pc \notin {"idle", "wait"} /\ phase' = phase
  BY Zenon DEF Writer, RoomFails, RoomThere, RoomWaits, SwitchMemTable, SwitchFails, AppendLog, SyncLog,
     Finish
<1>3. /\ queue # <<>> /\ Len(queue) \in Nat \ {0} /\ c = queue[1]
      /\ <<c>> = SubSeq(queue, 1, 1) /\ phase # "closing"
  BY <1>1, <1>2, FirstOfGroup
<1>4. CASE RoomFails(c) \/ SwitchFails(c)
  <2>1. Leave(c, SubSeq(queue, 1, 1), FALSE)
    BY <1>3, <1>4 DEF RoomFails, SwitchFails
  <2>2. 1 \in 1 .. Len(queue)
    BY <1>3
  <2> QED
    BY <1>1, <1>2, <2>1, <2>2, LeaveKeepsLine DEF Lined
<1>5. CASE Finish(c)
  <2>1. op[c].pc \in AtWork
    BY <1>5 DEF Finish, AtWork
  <2>2. PICK k \in 1 .. Len(queue) : op[c].group = SubSeq(queue, 1, k)
    BY <1>1, <2>1 DEF InLine
  <2>3. Leave(c, SubSeq(queue, 1, k), op[c].ok)
    BY <1>5, <2>2 DEF Finish
  <2> QED
    BY <1>1, <1>2, <2>3, LeaveKeepsLine DEF Lined
<1>6. ASSUME NEW r \in OpType, op' = [op EXCEPT ![c] = r], queue' = queue,
             r.pc \in AtWork \/ (r.pc = "bgwait" /\ RoomWaits(c)),
             r.pc \in AtWork => \E k \in 1 .. Len(queue) : r.group = SubSeq(queue, 1, k)
      PROVE  Lined' /\ \A d \in Clients : op'[d].pc = "bgwait" => op[d].pc = "bgwait" \/ RoomWaits(c)
  <2>1. op' \in [Clients -> OpType]
    BY <1>1, <1>6
  <2>2. op'[c] = r /\ \A d \in Clients : d # c => op'[d] = op[d]
    BY <1>1, <1>6
  <2>3. r.pc \notin {"idle", "wait"}
    BY <1>6 DEF AtWork
  <2>4. \A d \in Clients : 
            \/ op'[d] = op[d]
            \/ /\ op[d].pc \notin {"idle", "wait"} /\ op'[d].pc \notin {"idle", "wait"}
               /\ op'[d].pc \in AtWork =>
                     \E k \in 1 .. Len(queue) : op'[d].group = SubSeq(queue, 1, k)
    BY <1>2, <1>6, <2>2, <2>3
  <2>5. InLine'
    BY <1>1, <1>2, <1>6, <2>4, WorkKeepsLine
  <2>6. \A d \in Clients : op'[d].pc = "bgwait" => op[d].pc = "bgwait" \/ RoomWaits(c)
    BY <1>6, <2>2 DEF AtWork
  <2> QED
    BY <1>1, <1>6, <2>1, <2>5, <2>6 DEF Lined
<1>7. CASE RoomThere(c) \/ SwitchMemTable(c)
  <2>1. PICK g \in Groups(c) : op' = [op EXCEPT ![c].group = g, ![c].pc = "append"]
    BY <1>7 DEF RoomThere, SwitchMemTable, BuildBatchGroup
  <2>2. g \in Seq(Clients) /\ \E k \in 1 .. Len(queue) : g = SubSeq(queue, 1, k)
    BY <1>1, GroupsArePrefixes
  <2>3. PICK r : r = [op[c] EXCEPT !.group = g, !.pc = "append"]
    OBVIOUS
  <2>4. r \in OpType /\ r.pc = "append" /\ r.group = g
    BY <1>1, <2>2, <2>3 DEF OpType, AtWork
  <2>5. op' = [op EXCEPT ![c] = r] /\ queue' = queue
    BY <1>1, <1>7, <2>1, <2>3 DEF RoomThere, SwitchMemTable
  <2> QED
    BY <1>2, <1>6, <2>2, <2>4, <2>5 DEF AtWork
<1>8. CASE RoomWaits(c)
  <2>1. PICK r : r = [op[c] EXCEPT !.pc = "bgwait"]
    OBVIOUS
  <2>2. r \in OpType /\ r.pc = "bgwait"
    BY <1>1, <2>1 DEF OpType
  <2>3. op' = [op EXCEPT ![c] = r] /\ queue' = queue
    BY <1>1, <1>8, <2>1 DEF RoomWaits
  <2> QED
    BY <1>2, <1>6, <1>8, <2>2, <2>3 DEF AtWork
<1>9. CASE AppendLog(c) \/ SyncLog(c)
  <2>1. op[c].pc \in AtWork
    BY <1>9, Zenon DEF AppendLog, SyncLog, AtWork
  <2>2. PICK pc, ok : /\ pc \in {"sync", "finish", "syncError"} /\ ok \in {op[c].ok, FALSE}
                      /\ op' = [op EXCEPT ![c].pc = pc, ![c].ok = ok]
    <3>1. \/ op' = [op EXCEPT ![c].pc = IF op[c].sync THEN "sync" ELSE "finish"]
          \/ op' = [op EXCEPT ![c].pc = "finish"]
          \/ op' = [op EXCEPT ![c].pc = "finish", ![c].ok = FALSE]
          \/ op' = [op EXCEPT ![c].pc = "syncError", ![c].ok = FALSE]
      BY <1>9, Zenon DEF AppendLog, SyncLog
    <3>2. ASSUME NEW pc, op' = [op EXCEPT ![c].pc = pc]
          PROVE  op' = [op EXCEPT ![c].pc = pc, ![c].ok = op[c].ok]
      BY <1>1, <3>2 DEF OpType
    <3> QED
      BY <3>1, <3>2, Zenon
  <2>3. PICK r : r = [op[c] EXCEPT !.pc = pc, !.ok = ok]
    OBVIOUS
  <2>4. r \in OpType /\ r.pc = pc /\ r.group = op[c].group
    BY <1>1, <2>2, <2>3 DEF OpType, AtWork
  <2>5. op' = [op EXCEPT ![c] = r] /\ queue' = queue
    BY <1>1, <1>9, <2>2, <2>3, Zenon DEF AppendLog, SyncLog
  <2>6. \E k \in 1 .. Len(queue) : r.group = SubSeq(queue, 1, k)
    BY <1>1, <2>1, <2>4 DEF InLine
  <2> QED
    BY <1>2, <1>6, <2>2, <2>4, <2>5, <2>6 DEF AtWork
<1> QED
  BY <1>2, <1>4, <1>5, <1>7, <1>8, <1>9 DEF Writer

LEMMA ActsKeepLine ==
  ASSUME Shapes, SessionWell, Acts
  PROVE  Lined'
<1>1. Types /\ InLine /\ queue \in Seq(Clients) /\ op \in [Clients -> OpType]
  BY DEF SessionWell, Types
<1>2. CASE \E c \in Clients : Writer(c)
  BY <1>2, WriterKeepsLine
<1>3. ASSUME NEW c \in Clients, NEW sync \in BOOLEAN, Write(c, sync)
      PROVE  Lined'
  <2>1. PICK r : r = [Idle EXCEPT !.batch = count + 1, !.sync = sync,
                                  !.pc = IF queue = <<>> THEN "room" ELSE "wait"]
    OBVIOUS
  <2>2. /\ queue' = Append(queue, c) /\ phase' = phase /\ phase = "up" /\ op[c].pc = "idle"
        /\ op' = [op EXCEPT ![c] = r]
    BY <1>3, <2>1 DEF Write
  <2>3. r \in OpType /\ r.pc = IF queue = <<>> THEN "room" ELSE "wait"
    <3>1. count + 1 \in Nat
      BY DEF Shapes
    <3>2. Idle \in OpType
      BY DEF Idle, OpType
    <3>3. PICK pc : pc = IF queue = <<>> THEN "room" ELSE "wait"
      OBVIOUS
    <3>4. r = [Idle EXCEPT !.batch = count + 1, !.sync = sync, !.pc = pc]
      BY <2>1, <3>3
    <3> QED
      BY <3>1, <3>2, <3>3, <3>4 DEF OpType
  <2>4. /\ op' \in [Clients -> OpType] /\ op'[c] = r
        /\ \A d \in Clients : d # c => op'[d] = op[d]
    BY <1>1, <2>2, <2>3
  <2>5. /\ Len(queue) \in Nat /\ Len(queue') = Len(queue) + 1 /\ queue' \in Seq(Clients)
        /\ \A i \in 1 .. Len(queue) : queue'[i] = queue[i]
        /\ queue'[Len(queue) + 1] = c
    BY <1>1, <2>2
  <2>6. \A i \in 1 .. Len(queue') : i \in 1 .. Len(queue) \/ i = Len(queue) + 1
    BY <2>5
  <2>7. \A i \in 1 .. Len(queue) : queue[i] # c
    BY <1>1, <2>2 DEF InLine
  <2>8. \A i, j \in 1 .. Len(queue') : queue'[i] = queue'[j] => i = j
    <3>1. TAKE i, j \in 1 .. Len(queue')
    <3> QED
      BY <1>1, <2>5, <2>6, <2>7 DEF InLine
  <2>9. \A d \in Clients : op'[d].pc = "idle" <=> \A i \in 1 .. Len(queue') : queue'[i] # d
    <3>1. TAKE d \in Clients
    <3>2. CASE d = c
      <4>1. Len(queue) + 1 \in 1 .. Len(queue')
        BY <2>5
      <4> QED
        BY <2>3, <2>4, <2>5, <3>2, <4>1
    <3>3. CASE d # c
      <4>1. op'[d] = op[d]
        BY <2>4, <3>3
      <4>2. (\A i \in 1 .. Len(queue') : queue'[i] # d) <=> \A i \in 1 .. Len(queue) : queue[i] # d
        BY <2>5, <2>6, <3>3
      <4> QED
        BY <1>1, <4>1, <4>2 DEF InLine
    <3> QED
      BY <3>2, <3>3
  <2>10. \A d \in Clients : op'[d].pc \notin {"idle", "wait"} <=> queue' # <<>> /\ d = queue'[1]
    <3>1. TAKE d \in Clients
    <3>2. CASE queue = <<>>
      <4>1. Len(queue) = 0 /\ queue' # <<>> /\ queue'[1] = c
        BY <2>2, <2>5, <3>2
      <4> QED
        BY <1>1, <2>3, <2>4, <3>2, <4>1 DEF InLine
    <3>3. CASE queue # <<>>
      <4>1. Len(queue) \in Nat \ {0}
        BY <1>1, <3>3, EmptySeq
      <4>2. queue' # <<>> /\ queue'[1] = queue[1] /\ queue[1] # c
        BY <2>5, <2>7, <4>1
      <4> QED
        BY <1>1, <2>3, <2>4, <3>3, <4>2 DEF InLine
    <3> QED
      BY <3>2, <3>3
  <2>11. ASSUME NEW d \in Clients, op'[d].pc \in AtWork
         PROVE  \E k \in 1 .. Len(queue') : op'[d].group = SubSeq(queue', 1, k)
    <3>1. d # c
      BY <2>3, <2>4, <2>11 DEF AtWork
    <3>2. PICK k \in 1 .. Len(queue) : op[d].group = SubSeq(queue, 1, k)
      BY <1>1, <2>4, <2>11, <3>1 DEF InLine
    <3>3. SubSeq(queue', 1, k) = SubSeq(queue, 1, k)
      BY <1>1, <2>2, <2>5, <3>2
    <3>4. k \in 1 .. Len(queue')
      BY <2>5, <3>2
    <3> QED
      BY <2>4, <3>1, <3>2, <3>3, <3>4
  <2> QED
    BY <2>2, <2>4, <2>5, <2>8, <2>9, <2>10, <2>11 DEF Lined, InLine
<1>4. CASE Signals
  <2>1. op' = SignalAll(op) /\ queue' = queue /\ phase' = phase
    BY <1>4, SignalsSignal
  <2>2. /\ op' \in [Clients -> OpType]
        /\ \A d \in Clients : \/ op[d].pc # "bgwait" /\ op'[d] = op[d]
                              \/ op[d].pc = "bgwait" /\ op'[d].pc = "room"
    BY <1>1, <2>1, SignalAllWakes
  <2>3. InLine'
    BY <1>1, <2>1, <2>2, WorkKeepsLine DEF AtWork
  <2> QED
    BY <1>1, <2>1, <2>2, <2>3 DEF Lined
<1>5. CASE Aside
  BY <1>1, <1>5, AsideLeaves DEF Lined, InLine
<1>6. CASE Close
  BY <1>1, <1>6 DEF Close, Lined, InLine, writers
<1> QED
  BY <1>2, <1>3, <1>4, <1>5, <1>6 DEF Acts, Background, Signals, Aside

-----------------------------------------------------------------------------
(***************************************************************************)
(* .. and the types.                                                       *)
(***************************************************************************)
LEMMA FilesTyped ==
  /\ NoFiles \in Versions /\ NoVersion \in Versions
  /\ NoEdit \in EditType
  /\ NoOutput \in FlushType /\ NoOutput \in MadeType
  /\ \A n \in Nat : /\ [NoFiles EXCEPT !.l0 = {n}] \in Versions
                    /\ [NoFiles EXCEPT !.l1 = {n}] \in Versions
  /\ \A v \in Versions : FilesOf(v) \in SUBSET Nat
  /\ \A v \in Versions, e \in EditType : Apply(v, e) \in Versions
  /\ \A e \in EditType : [e EXCEPT !.wrote = "ok"] \in EditType /\ [e EXCEPT !.wrote = "failed"] \in EditType
<1>1. /\ NoFiles \in Versions /\ NoVersion \in Versions
      /\ NoOutput \in FlushType /\ NoOutput \in MadeType
  BY DEF NoFiles, NoVersion, NoOutput, Versions, FlushType, MadeType
<1>2. NoEdit \in EditType
  BY <1>1 DEF NoEdit, EditType
<1>3. \A n \in Nat : /\ [NoFiles EXCEPT !.l0 = {n}] \in Versions
                     /\ [NoFiles EXCEPT !.l1 = {n}] \in Versions
  BY DEF NoFiles, Versions
<1>4. \A v \in Versions : FilesOf(v) \in SUBSET Nat
  BY DEF Versions, FilesOf
<1>5. ASSUME NEW v \in Versions, NEW e \in EditType
      PROVE  Apply(v, e) \in Versions
  <2>1. /\ v.l0 \in SUBSET Nat /\ v.l1 \in SUBSET Nat
        /\ e.add.l0 \in SUBSET Nat /\ e.add.l1 \in SUBSET Nat
    BY DEF Versions, EditType
  <2>2. /\ (v.l0 \ e.del) \cup e.add.l0 \in SUBSET Nat
        /\ (v.l1 \ e.del) \cup e.add.l1 \in SUBSET Nat
    BY <2>1
  <2> QED
    BY <2>2 DEF Apply, Versions
<1>6. ASSUME NEW e \in EditType
      PROVE  [e EXCEPT !.wrote = "ok"] \in EditType /\ [e EXCEPT !.wrote = "failed"] \in EditType
  BY DEF EditType
<1> QED
  BY <1>1, <1>2, <1>3, <1>4, <1>5, <1>6

LEMMA NewEditTyped ==
  ASSUME vs \in VsType, NEW log \in Nat, NEW add \in Versions, NEW del \in SUBSET Nat
  PROVE  NewEdit(log, add, del) \in EditType
<1>1. vs.next \in Nat /\ vs.last \in Nat
  BY DEF VsType
<1> QED
  BY <1>1 DEF NewEdit, EditType

LEMMA ActsKeepTypes ==
  ASSUME Shapes, SessionWell, Acts
  PROVE  Types'
<1>1. /\ vs \in VsType /\ edit \in EditType /\ wal.number \in Nat
      /\ queue \in Seq(Clients) /\ op \in [Clients -> OpType]
      /\ bg \in {"off", "scheduled", "flushing", "moving", "compacting"}
      /\ flush \in FlushType /\ made \in MadeType
      /\ inputs \in Versions /\ reader \in Versions /\ pending \in SUBSET Nat
      /\ bgError \in BOOLEAN
      /\ vs.files \in Versions /\ vs.log \in Nat /\ vs.next \in Nat /\ vs.last \in Nat
      /\ vs.files.l0 \in SUBSET Nat
      /\ FilesOf(vs.files) \in SUBSET Nat /\ FilesOf(inputs) \in SUBSET Nat
      /\ flush.to \in Nat /\ made.to \in Nat /\ edit.log \in Nat
      /\ Apply(vs.files, edit) \in Versions
      /\ DOMAIN wal = DOMAIN NoLog
  BY FilesTyped DEF SessionWell, Types, Shapes, VsType, Versions, FlushType, MadeType, EditType
<1>2. queue' \in Seq(Clients) /\ op' \in [Clients -> OpType]
  BY ActsKeepLine DEF Lined
<1>3. vs' \in VsType
  <2>1. CASE vs' = vs
    BY <1>1, <2>1
  <2>2. CASE vs' = [vs EXCEPT !.next = @ + 1]
    BY <1>1, <2>2, SMTT(30) DEF VsType
  <2>3. ASSUME NEW f \in Versions, vs' = [vs EXCEPT !.files = f] PROVE vs' \in VsType
    BY <1>1, <2>3 DEF VsType
  <2>4. ASSUME NEW f \in Versions, NEW n \in Nat, vs' = [vs EXCEPT !.files = f, !.log = n]
        PROVE  vs' \in VsType
    BY <1>1, <2>4 DEF VsType
  <2>5. ASSUME NEW c \in Clients, Finish(c) PROVE vs' \in VsType
    <3>1. Len(op[c].group) \in Nat
      BY <1>1 DEF OpType
    <3>2. vs' = [vs EXCEPT !.last = @ + Len(op[c].group)]
      BY <2>5 DEF Finish
    <3>3. PICK n \in Nat : n = vs.last + Len(op[c].group)
      BY <1>1, <3>1
    <3>4. vs' = [vs EXCEPT !.last = n]
      BY <3>2, <3>3
    <3> QED
      BY <1>1, <3>4 DEF VsType
  <2>6. \/ vs' = vs \/ vs' = [vs EXCEPT !.next = @ + 1] \/ \E c \in Clients : Finish(c)
        \/ \E f \in Versions : vs' = [vs EXCEPT !.files = f]
        \/ \E f \in Versions, n \in Nat : vs' = [vs EXCEPT !.files = f, !.log = n]
    <3>1. CASE \E c \in Clients : Writer(c) \/ \E sync \in BOOLEAN : Write(c, sync)
      BY <3>1, ZenonT(60) DEF Writer, Write, RoomFails, RoomThere, RoomWaits, SwitchMemTable, SwitchFails,
         AppendLog, SyncLog
    <3>2. CASE FlushInstall
      <4>1. vs' = [vs EXCEPT !.files = Apply(vs.files, edit), !.log = edit.log]
        BY <3>2 DEF FlushInstall
      <4> QED
        BY <1>1, <4>1, Zenon
    <3>3. CASE MoveInstall \/ CleanupCompaction
      <4>1. vs' = [vs EXCEPT !.files = Apply(vs.files, edit)] \/ vs' = [vs EXCEPT !.files = vs.files]
        BY <3>3 DEF MoveInstall, CleanupCompaction
      <4> QED
        BY <1>1, <4>1, Zenon
    <3>4. CASE ~FlushInstall /\ ~MoveInstall /\ ~CleanupCompaction
               /\ (Background \/ Get \/ CleanupIteratorState \/ Close)
      BY <3>4, Zenon DEF Background, BackgroundCall, FlushStart, BuildTable, FlushEdit, FlushFails,
         TrivialMove, PickCompaction, OpenCompactionOutputFile, FinishCompactionOutputFile,
         InstallCompactionResults, ManifestWrite, Get, CleanupIteratorState, Close
    <3> QED
      BY <3>1, <3>2, <3>3, <3>4, ZenonT(60) DEF Acts
  <2> QED
    BY <2>1, <2>2, <2>3, <2>4, <2>5, <2>6, Zenon
<1>4. wal'.number \in Nat
  <2>1. \/ wal' = wal \/ wal' = [number |-> vs.next, off |-> 0, failed |-> FALSE]
        \/ \E x : wal' = [wal EXCEPT !.off = x] \/ wal' = [wal EXCEPT !.off = x, !.failed = TRUE]
    <3>1. CASE \E c \in Clients : Writer(c) \/ \E sync \in BOOLEAN : Write(c, sync)
      BY <3>1, ZenonT(60) DEF Writer, Write, RoomFails, RoomThere, RoomWaits, SwitchMemTable, SwitchFails,
         AppendLog, SyncLog, Finish, memory
    <3>2. CASE Background \/ Get \/ CleanupIteratorState \/ Close
      BY <3>2, Zenon DEF Background, BackgroundCall, FlushStart, BuildTable, FlushEdit, FlushFails,
         TrivialMove, PickCompaction, OpenCompactionOutputFile, FinishCompactionOutputFile,
         InstallCompactionResults, ManifestWrite, Get, CleanupIteratorState, Close, FlushInstall,
         MoveInstall, CleanupCompaction, memory
    <3> QED
      BY <3>1, <3>2, ZenonT(60) DEF Acts
  <2>2. \A x : [wal EXCEPT !.off = x].number = wal.number
               /\ [wal EXCEPT !.off = x, !.failed = TRUE].number = wal.number
    BY <1>1 DEF NoLog
  <2>3. CASE wal' = [number |-> vs.next, off |-> 0, failed |-> FALSE]
    BY <1>1, <2>3
  <2>4. wal'.number = wal.number \/ wal' = [number |-> vs.next, off |-> 0, failed |-> FALSE]
    BY <2>1, <2>2, Zenon
  <2> QED
    BY <1>1, <2>3, <2>4
<1>5. edit' \in EditType
  <2>1. CASE edit' = edit \/ edit' = NoEdit
    BY <1>1, <2>1, FilesTyped
  <2>2. CASE \E n \in vs.files.l0 : edit' = NewEdit(vs.log, [NoFiles EXCEPT !.l1 = {n}], {n})
    <3>1. PICK n \in vs.files.l0 : edit' = NewEdit(vs.log, [NoFiles EXCEPT !.l1 = {n}], {n})
      BY <2>2
    <3>2. n \in Nat /\ {n} \in SUBSET Nat
      BY <1>1
    <3> QED
      BY <1>1, <3>1, <3>2, FilesTyped, NewEditTyped
  <2>3. CASE edit' = NewEdit(wal.number, [NoFiles EXCEPT !.l0 = {flush.to}], {})
    BY <1>1, <2>3, FilesTyped, NewEditTyped
  <2>4. CASE edit' = NewEdit(vs.log, [NoFiles EXCEPT !.l1 = {made.to}], FilesOf(inputs))
    BY <1>1, <2>4, FilesTyped, NewEditTyped
  <2>5. CASE edit' = [edit EXCEPT !.wrote = "ok"] \/ edit' = [edit EXCEPT !.wrote = "failed"]
    BY <1>1, <2>5, FilesTyped, Zenon
  <2>6. CASE \E c \in Clients : Writer(c) \/ \E sync \in BOOLEAN : Write(c, sync)
    BY <2>6, <2>1, Zenon DEF Writer, Write, RoomFails, RoomThere, RoomWaits, SwitchMemTable, SwitchFails,
       AppendLog, SyncLog, Finish, opening
  <2>7. CASE FlushEdit \/ TrivialMove \/ InstallCompactionResults \/ ManifestWrite
    BY <2>7, <2>2, <2>3, <2>4, <2>5 DEF FlushEdit, TrivialMove, InstallCompactionResults,
       ManifestWrite
  <2>8. CASE \/ BackgroundCall \/ FlushStart \/ BuildTable \/ FlushFails \/ PickCompaction
             \/ OpenCompactionOutputFile \/ FinishCompactionOutputFile \/ FlushInstall
             \/ MoveInstall \/ CleanupCompaction \/ Get \/ CleanupIteratorState \/ Close
    BY <2>8, <2>1 DEF BackgroundCall, FlushStart, BuildTable, FlushFails, PickCompaction,
       OpenCompactionOutputFile, FinishCompactionOutputFile, FlushInstall, MoveInstall,
       CleanupCompaction, Get, CleanupIteratorState, Close, opening
  <2> QED
    BY <2>6, <2>7, <2>8 DEF Acts, Background
<1>6. bg' \in {"off", "scheduled", "flushing", "moving", "compacting"}
  <2>1. ASSUME NEW b \in {"off", bg}, NEW im, NEW files, NEW failed,
               bg' = MaybeScheduleCompaction(b, im, files, failed)
        PROVE  bg' \in {bg, "off", "scheduled"}
    BY <2>1 DEF MaybeScheduleCompaction
  <2>2. CASE \E c \in Clients : Writer(c) \/ \E sync \in BOOLEAN : Write(c, sync)
    BY <1>1, <2>1, <2>2, ZenonT(60) DEF Writer, Write, RoomFails, RoomThere, RoomWaits, SwitchMemTable,
       SwitchFails, AppendLog, SyncLog, Finish, work
  <2>3. CASE Signals
    <3>1. bg' = bg \/ \E im, files, failed : BackgroundEnds(im, files, failed)
      BY <2>3 DEF Signals, BackgroundCall, FlushInstall, FlushFails, FlushEnds, MoveInstall,
         CleanupCompaction
    <3>2. bg' \in {bg, "off", "scheduled"}
      BY <2>1, <3>1 DEF BackgroundEnds
    <3> QED
      BY <1>1, <3>2
  <2>4. CASE Aside \/ Close
    BY <1>1, <2>4 DEF Aside, FlushStart, BuildTable, FlushEdit, TrivialMove, PickCompaction,
       OpenCompactionOutputFile, FinishCompactionOutputFile, InstallCompactionResults,
       ManifestWrite, Get, CleanupIteratorState, Close, work
  <2> QED
    BY <2>2, <2>3, <2>4 DEF Acts, Background, Signals, Aside
<1>7. flush' \in FlushType /\ made' \in MadeType
  <2>1. CASE UNCHANGED <<flush, made>>
    BY <1>1, <2>1
  <2>2. CASE \E c \in Clients : Writer(c) \/ \E sync \in BOOLEAN : Write(c, sync)
    BY <2>1, <2>2, Zenon DEF Writer, Write, RoomFails, RoomThere, RoomWaits, SwitchMemTable,
       SwitchFails, AppendLog, SyncLog, Finish, work
  <2>3. CASE FlushStart \/ BuildTable \/ FlushEdit \/ FlushInstall \/ FlushFails
    <3>1. made' = made
      BY <2>3 DEF FlushStart, BuildTable, FlushEdit, FlushInstall, FlushFails
    <3>2. \/ flush' \in {NoOutput, [pc |-> "build", to |-> vs.next]}
          \/ \E x \in {"built", "failed", "edit"} : flush' = [flush EXCEPT !.pc = x]
      BY <2>3 DEF FlushStart, BuildTable, FlushEdit, FlushInstall, FlushFails, FlushEnds
    <3> QED
      BY <1>1, <3>1, <3>2, FilesTyped DEF FlushType
  <2>4. CASE \/ PickCompaction \/ OpenCompactionOutputFile \/ FinishCompactionOutputFile
             \/ InstallCompactionResults \/ CleanupCompaction
    <3>1. flush' = flush
      BY <2>4 DEF PickCompaction, OpenCompactionOutputFile, FinishCompactionOutputFile,
         InstallCompactionResults, CleanupCompaction
    <3>2. \/ made' \in {NoOutput, [pc |-> "open", to |-> 0], [pc |-> "write", to |-> vs.next]}
          \/ \E x \in {"done", "failed", "install"} : made' = [made EXCEPT !.pc = x]
      BY <2>4 DEF PickCompaction, OpenCompactionOutputFile, FinishCompactionOutputFile,
         InstallCompactionResults, CleanupCompaction
    <3> QED
      BY <1>1, <3>1, <3>2, FilesTyped DEF MadeType
  <2>5. CASE \/ BackgroundCall \/ TrivialMove \/ MoveInstall \/ ManifestWrite
             \/ Get \/ CleanupIteratorState \/ Close
    BY <2>1, <2>5 DEF BackgroundCall, TrivialMove, MoveInstall, ManifestWrite,
       Get, CleanupIteratorState, Close, work
  <2> QED
    BY <2>2, <2>3, <2>4, <2>5 DEF Acts, Background
<1>8. inputs' \in Versions /\ reader' \in Versions /\ pending' \in SUBSET Nat /\ bgError' \in BOOLEAN
  <2>1. CASE \E c \in Clients : Writer(c) \/ \E sync \in BOOLEAN : Write(c, sync)
    BY <1>1, <2>1, Zenon DEF Writer, Write, RoomFails, RoomThere, RoomWaits, SwitchMemTable,
       SwitchFails, AppendLog, SyncLog, Finish, work
  <2>2. CASE Background
    BY <1>1, <2>2, FilesTyped DEF Background, BackgroundCall, FlushStart, BuildTable, FlushEdit,
       FlushFails, FlushEnds, TrivialMove, PickCompaction, OpenCompactionOutputFile,
       FinishCompactionOutputFile, InstallCompactionResults, ManifestWrite, FlushInstall,
       MoveInstall, CleanupCompaction, work
  <2>3. CASE Get \/ CleanupIteratorState \/ Close
    BY <1>1, <2>3, FilesTyped DEF Get, CleanupIteratorState, Close, work
  <2> QED
    BY <2>1, <2>2, <2>3, SMTT(30) DEF Acts
<1> QED
  BY <1>2, <1>3, <1>4, <1>5, <1>6, <1>7, <1>8 DEF Types

-----------------------------------------------------------------------------
(***************************************************************************)
(* .. the background thread is at work, or called, when it has to be.      *)
(***************************************************************************)
LEMMA ScheduleCalls ==
  ASSUME NEW b, NEW im, NEW files, NEW failed \in BOOLEAN, NEW to,
         to = MaybeScheduleCompaction(b, im, files, failed)
  PROVE  /\ b # "off" => to = b
         /\ to \in {b, "scheduled"}
         /\ phase # "closing" /\ ~failed /\ (im # {} \/ NeedsCompaction(files)) => to # "off"
BY DEF MaybeScheduleCompaction

\* Writers wait for a memtable that is on its way to a table, or because there
\* are more tables than start a compaction.
LEMMA WaitingHasWork ==
  ASSUME SessionWell, MustWait
  PROVE  imm # {} \/ NeedsCompaction(vs.files)
<1>1. CASE Cardinality(vs.files.l0) >= StopAt
  <2>1. vs.next \in Nat
    BY DEF SessionWell, Types, VsType
  <2>2. IsFiniteSet(1 .. vs.next - 1)
    BY <2>1, FS_Interval
  <2>3. vs.files.l0 \subseteq 1 .. vs.next - 1
    BY DEF SessionWell, FilesThere, FilesOf, Numbers
  <2>4. Cardinality(vs.files.l0) \in Nat
    BY <2>2, <2>3, FS_Subset, FS_CardinalityType
  <2> QED
    BY <1>1, <2>4, StoreAssumption DEF NeedsCompaction
<1> QED
  BY <1>1 DEF MustWait

LEMMA ActsKeepWoken ==
  ASSUME Session, Shapes, SessionWell, Acts
  PROVE  Woken'
<1>1. op \in [Clients -> OpType] /\ bgError \in BOOLEAN /\ Woken /\ Called /\ InLine
  BY DEF SessionWell, Types
<1>2. ASSUME NEW c \in Clients, Writer(c)
      PROVE  Woken'
  <2>1. \A d \in Clients : op'[d].pc = "bgwait" => op[d].pc = "bgwait" \/ RoomWaits(c)
    BY <1>2, WriterKeepsLine
  <2>2. bg # "off" => bg' # "off"
    <3>1. bg' = bg \/ bg' = MaybeScheduleCompaction(bg, mem, vs.files, FALSE)
      BY <1>2, Zenon DEF Writer, RoomFails, RoomThere, RoomWaits, SwitchMemTable, SwitchFails, AppendLog,
         SyncLog, Finish, work
    <3> QED
      BY <3>1, ScheduleCalls, Zenon
  <2>3. RoomWaits(c) => bg # "off"
    <3> SUFFICES ASSUME RoomWaits(c) PROVE bg # "off"
      OBVIOUS
    <3>1. phase = "up"
      <4>1. op[c].pc = "room"
        BY DEF RoomWaits
      <4>2. phase # "closing"
        BY <1>1, <4>1, FirstOfGroup DEF SessionWell
      <4> QED
        BY <4>2 DEF Session
    <3> QED
      BY <1>1, <3>1, WaitingHasWork DEF RoomWaits, Called
  <2> QED
    BY <1>1, <2>1, <2>2, <2>3 DEF Woken
<1>3. ASSUME NEW c \in Clients, NEW sync \in BOOLEAN, Write(c, sync)
      PROVE  Woken'
  <2>1. bg' = bg
    BY <1>3 DEF Write, work
  <2>2. \A d \in Clients : op'[d].pc = "bgwait" => op[d].pc = "bgwait"
    <3>1. PICK r : /\ r = [Idle EXCEPT !.batch = count + 1, !.sync = sync,
                                       !.pc = IF queue = <<>> THEN "room" ELSE "wait"]
                   /\ op' = [op EXCEPT ![c] = r]
      BY <1>3 DEF Write
    <3>2. r.pc # "bgwait"
      BY <3>1 DEF Idle
    <3> QED
      BY <1>1, <3>1, <3>2
  <2> QED
    BY <1>1, <2>1, <2>2 DEF Woken
<1>4. CASE Signals
  <2>1. \A d \in Clients : op'[d].pc # "bgwait"
    BY <1>1, <1>4, SignalsSignal, SignalAllWakes
  <2> QED
    BY <2>1 DEF Woken
<1>5. CASE Aside \/ Close
  <2>1. op' = op
    BY <1>5, AsideLeaves DEF Close, writers
  <2>2. bg # "off" => bg' # "off"
    BY <1>5 DEF Aside, FlushStart, BuildTable, FlushEdit, TrivialMove, PickCompaction,
       OpenCompactionOutputFile, FinishCompactionOutputFile, InstallCompactionResults,
       ManifestWrite, Get, CleanupIteratorState, Close, work
  <2> QED
    BY <1>1, <2>1, <2>2 DEF Woken
<1> QED
  BY <1>2, <1>3, <1>4, <1>5 DEF Acts, Background, Signals, Aside

LEMMA ActsKeepCalled ==
  ASSUME Shapes, SessionWell, Acts
  PROVE  Called'
<1>1. bgError \in BOOLEAN /\ Called /\ vs \in VsType /\ Stages
  BY DEF SessionWell, Types
<1>2. CASE /\ bgError => bgError'
           /\ imm' = imm /\ vs'.files = vs.files
           /\ phase' = "up" => phase = "up"
           /\ bg # "off" => bg' # "off"
  BY <1>1, <1>2 DEF Called, NeedsCompaction
<1>3. CASE \E c \in Clients : SwitchMemTable(c)
  <2>1. /\ bg' = MaybeScheduleCompaction(bg, mem, vs.files, FALSE) /\ imm' = mem
        /\ phase' = phase /\ bgError' = bgError /\ vs' = [vs EXCEPT !.next = @ + 1]
    BY <1>3 DEF SwitchMemTable
  <2>2. vs'.files = vs.files
    BY <1>1, <2>1 DEF VsType
  <2>3. (imm' # {} \/ NeedsCompaction(vs.files)) /\ phase # "closing" => bg' # "off"
    BY <2>1 DEF MaybeScheduleCompaction
  <2> QED
    BY <2>1, <2>2, <2>3 DEF Called, NeedsCompaction
<1>4. ASSUME NEW im, NEW files, NEW failed \in BOOLEAN,
             bg' = MaybeScheduleCompaction("off", im, files, failed),
             imm' = im, vs'.files = files, bgError' = failed, phase' = phase
      PROVE  Called'
  BY <1>4, ScheduleCalls DEF Called, NeedsCompaction
<1>5. CASE BackgroundCall
  BY <1>1, <1>4, <1>5 DEF BackgroundCall, BackgroundEnds, memory
<1>6. CASE FlushInstall
  <2>1. PICK files : files = Apply(vs.files, edit)
    OBVIOUS
  <2>2. vs' = [vs EXCEPT !.files = files, !.log = edit.log] /\ imm' = {} /\ bgError' = bgError
        /\ phase' = phase /\ FlushEnds({}, files, bgError)
    BY <1>6, <2>1 DEF FlushInstall, FlushEnds
  <2>3. vs'.files = files
    BY <1>1, <2>2 DEF VsType
  <2>4. CASE bg = "flushing"
    BY <1>1, <1>4, <2>2, <2>3, <2>4 DEF FlushEnds, BackgroundEnds
  <2>5. CASE bg # "flushing"
    <3>1. bg' = bg
      BY <2>2, <2>5 DEF FlushEnds
    <3>2. bg # "off"
      BY <1>1, <1>6 DEF Stages, FlushInstall
    <3> QED
      BY <3>1, <3>2 DEF Called
  <2> QED
    BY <2>4, <2>5
<1>7. CASE FlushFails
  BY <1>7 DEF FlushFails, FlushEnds, Called
<1>8. CASE MoveInstall \/ CleanupCompaction
  <2>1. PICK files : files = IF edit.wrote = "ok" THEN Apply(vs.files, edit) ELSE vs.files
    OBVIOUS
  <2>2. /\ vs' = [vs EXCEPT !.files = files] /\ imm' = imm
        /\ bgError' = (bgError \/ edit.wrote # "ok")
        /\ BackgroundEnds(imm, files, bgError \/ edit.wrote # "ok") /\ phase' = phase
    BY <1>8, <2>1 DEF MoveInstall, CleanupCompaction, memory
  <2>3. vs'.files = files
    BY <1>1, <2>2 DEF VsType
  <2> QED
    BY <1>1, <1>4, <2>2, <2>3 DEF BackgroundEnds
<1>9. CASE \E c \in Clients : /\ Writer(c) \/ \E sync \in BOOLEAN : Write(c, sync)
                              /\ ~SwitchMemTable(c)
  <2>1. UNCHANGED <<imm, phase, bg>> /\ (bgError => bgError')
    <3>1. CASE \E c \in Clients : Finish(c)
      BY <1>1, <3>1 DEF Finish, work
    <3>2. CASE \A c \in Clients : ~Finish(c)
      <4>1. UNCHANGED <<imm, phase, bg>>
        BY <1>9, <3>2, ZenonT(60) DEF Writer, Write, RoomFails, RoomThere, RoomWaits, SwitchFails, AppendLog,
           SyncLog, memory, work
      <4>2. bgError' = bgError
        BY <1>9, <3>2, ZenonT(60) DEF Writer, Write, RoomFails, RoomThere, RoomWaits, SwitchFails, AppendLog,
           SyncLog
      <4> QED
        BY <4>1, <4>2, SMTT(30)
    <3> QED
      BY <3>1, <3>2
  <2>2. vs'.files = vs.files
    <3>1. vs' = vs \/ \E x : vs' = [vs EXCEPT !.last = x]
      <4>1. ASSUME NEW c \in Clients, Finish(c)
            PROVE  vs' = [vs EXCEPT !.last = vs.last + Len(op[c].group)]
        BY <4>1 DEF Finish
      <4>2. CASE \A c \in Clients : ~Finish(c)
        BY <1>9, <4>2, Zenon DEF Writer, Write, RoomFails, RoomThere, RoomWaits, SwitchFails, AppendLog,
           SyncLog
      <4> QED
        BY <4>1, <4>2
    <3> QED
      BY <1>1, <3>1 DEF VsType
  <2> QED
    BY <1>2, <2>1, <2>2
<1>10. CASE Aside \/ Close
  <2>1. UNCHANGED <<imm, bgError>> /\ (phase' = "up" => phase = "up") /\ (bg # "off" => bg' # "off")
        /\ (vs' = vs \/ vs' = [vs EXCEPT !.next = @ + 1])
    BY <1>10 DEF Aside, FlushStart, BuildTable, FlushEdit, TrivialMove, PickCompaction,
       OpenCompactionOutputFile, FinishCompactionOutputFile, InstallCompactionResults,
       ManifestWrite, Get, CleanupIteratorState, Close, work, memory
  <2>2. vs'.files = vs.files
    BY <1>1, <2>1 DEF VsType
  <2> QED
    BY <1>2, <2>1, <2>2
<1> QED
  BY <1>3, <1>5, <1>6, <1>7, <1>8, <1>9, <1>10 DEF Acts, Background, Aside

LEMMA ActsKeepStages ==
  ASSUME Shapes, SessionWell, Acts
  PROVE  Stages'
<1>1. Stages /\ flush \in FlushType /\ made \in MadeType
      /\ bg \in {"off", "scheduled", "flushing", "moving", "compacting"}
  BY DEF SessionWell, Types
<1>2. CASE \E c \in Clients : /\ Writer(c) \/ \E sync \in BOOLEAN : Write(c, sync)
  <2>1. UNCHANGED <<flush, made>>
    BY <1>2, ZenonT(60) DEF Writer, Write, RoomFails, RoomThere, RoomWaits, SwitchMemTable, SwitchFails,
       AppendLog, SyncLog, Finish, work
  <2>2. \/ UNCHANGED <<imm, bg>>
        \/ imm = {} /\ bg' = MaybeScheduleCompaction(bg, mem, vs.files, FALSE)
    BY <1>2, ZenonT(60) DEF Writer, Write, RoomFails, RoomThere, RoomWaits, SwitchMemTable, SwitchFails,
       AppendLog, SyncLog, Finish, work, memory, MustWait
  <2>3. bg # "off" => bg' = bg
    BY <2>2, ScheduleCalls
  <2>4. bg' \in {bg, "scheduled"}
    BY <2>2, ScheduleCalls
  <2> QED
    BY <1>1, <2>1, <2>2, <2>3, <2>4, Zenon DEF Stages
<1>3. ASSUME NEW im, NEW files, NEW failed, BackgroundEnds(im, files, failed),
             flush'.pc = "no", made'.pc = "no"
      PROVE  Stages'
  <2>1. bg' \in {"off", "scheduled"}
    BY <1>3 DEF BackgroundEnds, MaybeScheduleCompaction
  <2> QED
    BY <1>3, <2>1 DEF Stages
<1>4. CASE BackgroundCall
  BY <1>1, <1>3, <1>4 DEF BackgroundCall, Stages
<1>5. CASE FlushInstall \/ FlushFails
  <2>1. flush.pc # "no" /\ flush'.pc = "no" /\ made' = made
    <3>1. flush' = NoOutput /\ made' = made
      BY <1>5 DEF FlushInstall, FlushFails, FlushEnds
    <3>2. flush.pc # "no"
      BY <1>5 DEF FlushInstall, FlushFails
    <3> QED
      BY <3>1, <3>2 DEF NoOutput
  <2>2. CASE bg = "flushing"
    <3>1. \E im, files, failed : BackgroundEnds(im, files, failed)
      BY <1>5, <2>2 DEF FlushInstall, FlushFails, FlushEnds
    <3> QED
      BY <1>1, <1>3, <2>1, <2>2, <3>1 DEF Stages
  <2>3. CASE bg # "flushing"
    <3>1. bg' = bg
      BY <1>5, <2>3 DEF FlushInstall, FlushFails, FlushEnds
    <3> QED
      BY <1>1, <2>1, <2>3, <3>1 DEF Stages
  <2> QED
    BY <2>2, <2>3
<1>6. CASE MoveInstall
  <2>1. \E im, files, failed : BackgroundEnds(im, files, failed)
    BY <1>6 DEF MoveInstall
  <2>2. bg = "moving" /\ flush' = flush /\ made' = made
    BY <1>6 DEF MoveInstall
  <2> QED
    BY <1>1, <1>3, <2>1, <2>2 DEF Stages
<1>7. CASE CleanupCompaction
  <2>1. \E im, files, failed : BackgroundEnds(im, files, failed)
    BY <1>7 DEF CleanupCompaction
  <2>2. flush.pc = "no" /\ flush' = flush /\ made'.pc = "no"
    BY <1>7 DEF CleanupCompaction, Compacting, NoOutput
  <2> QED
    BY <1>3, <2>1, <2>2
<1>8. CASE FlushStart
  BY <1>1, <1>8 DEF FlushStart, Working, Stages, memory
<1>9. CASE BuildTable \/ FlushEdit
  BY <1>1, <1>9 DEF BuildTable, FlushEdit, Stages, memory, FlushType
<1>10. CASE TrivialMove \/ PickCompaction
  BY <1>1, <1>10 DEF TrivialMove, PickCompaction, Working, Stages, memory
<1>11. CASE OpenCompactionOutputFile \/ FinishCompactionOutputFile \/ InstallCompactionResults
  BY <1>1, <1>11 DEF OpenCompactionOutputFile, FinishCompactionOutputFile,
     InstallCompactionResults, Compacting, Stages, memory, MadeType
<1>12. CASE ManifestWrite \/ Get \/ CleanupIteratorState \/ Close
  BY <1>1, <1>12 DEF ManifestWrite, Get, CleanupIteratorState, Close, Stages, memory, work
<1> QED
  BY <1>2, <1>4, <1>5, <1>6, <1>7, <1>8, <1>9, <1>10, <1>11, <1>12 DEF Acts, Background

-----------------------------------------------------------------------------
(***************************************************************************)
(* .. the files.                                                           *)
(***************************************************************************)

\* What Write leaves alone: all but the log, the memtables and the counters.
LEMMA WritersFrame ==
  ASSUME Shapes, SessionWell, NEW c \in Clients, Writer(c) \/ \E sync \in BOOLEAN : Write(c, sync)
  PROVE  /\ UNCHANGED <<tables, manifests, current, edit, flush, made, inputs, pending, reader, phase>>
         /\ vs'.files = vs.files /\ vs'.log = vs.log /\ vs'.manifest = vs.manifest
         /\ vs'.next \in {vs.next, vs.next + 1}
         /\ wal'.number \in DOMAIN logs'
         /\ \/ wal'.number = wal.number
            \/ SwitchMemTable(c) /\ wal'.number = vs.next /\ vs'.next = vs.next + 1
         /\ \/ imm' = imm
            \/ imm = {} /\ imm' = mem /\ mem' = {} /\ vs'.last = vs.last
         /\ bg # "off" => bg' = bg
         /\ bg' \in {bg, "scheduled"}
<1>1. /\ vs \in VsType /\ DOMAIN wal = DOMAIN NoLog /\ wal.number \in DOMAIN logs /\ wal.number \in Nat
      /\ vs.next \in Nat
  BY SMTT(30) DEF Shapes, SessionWell, Types, FilesThere, VsType
<1>2. UNCHANGED <<tables, manifests, current, edit, flush, made, inputs, pending, reader, phase>>
  BY Zenon DEF Writer, Write, RoomFails, RoomThere, RoomWaits, SwitchMemTable, SwitchFails, AppendLog,
     SyncLog, Finish, disk, opening, work
<1>3. CASE SwitchMemTable(c)
  <2>1. /\ wal' = [number |-> vs.next, off |-> 0, failed |-> FALSE] /\ vs' = [vs EXCEPT !.next = @ + 1]
        /\ logs' = With(logs, vs.next, [cells |-> <<>>, safe |-> 0])
        /\ imm = {} /\ imm' = mem /\ mem' = {}
        /\ bg' = MaybeScheduleCompaction(bg, mem, vs.files, FALSE)
    BY <1>3 DEF SwitchMemTable, MustWait
  <2>2. vs.next \in DOMAIN logs'
    BY <2>1 DEF With
  <2>3. /\ vs'.files = vs.files /\ vs'.log = vs.log /\ vs'.manifest = vs.manifest
        /\ vs'.next = vs.next + 1 /\ vs'.last = vs.last
    BY <1>1, <2>1 DEF VsType
  <2>4. bg' \in {bg, "scheduled"} /\ (bg # "off" => bg' = bg)
    BY <2>1 DEF MaybeScheduleCompaction
  <2> QED
    BY <1>2, <1>3, <2>1, <2>2, <2>3, <2>4
<1>4. CASE Finish(c)
  <2>1. vs' = [vs EXCEPT !.last = vs.last + Len(op[c].group)]
    BY <1>4 DEF Finish
  <2>2. /\ vs'.files = vs.files /\ vs'.log = vs.log /\ vs'.manifest = vs.manifest
        /\ vs'.next = vs.next
    BY <1>1, <2>1 DEF VsType
  <2>3. UNCHANGED <<logs, wal, imm, bg>>
    BY <1>4 DEF Finish, disk, work
  <2> QED
    BY <1>1, <1>2, <2>2, <2>3
<1>5. CASE AppendLog(c)
  <2>1. UNCHANGED <<vs, imm, bg>> /\ \E w : logs' = With(logs, wal.number, w)
    BY <1>5, Zenon DEF AppendLog, work
  <2>2. wal.number \in DOMAIN logs'
    BY <2>1, SMTT(30) DEF With
  <2>3. \E x : wal' = [wal EXCEPT !.off = x] \/ wal' = [wal EXCEPT !.off = x, !.failed = TRUE]
    BY <1>5, Zenon DEF AppendLog
  <2>4. wal'.number = wal.number
    BY <1>1, <2>3 DEF NoLog
  <2> QED
    BY <1>2, <2>1, <2>2, <2>4, SMTT(30)
<1>6. CASE SyncLog(c)
  <2>1. UNCHANGED <<vs, wal, imm, bg>> /\ DOMAIN logs' = DOMAIN logs
    BY <1>6 DEF SyncLog, memory, work
  <2> QED
    BY <1>1, <1>2, <2>1
<1>7. CASE ~SwitchMemTable(c) /\ ~Finish(c) /\ ~AppendLog(c) /\ ~SyncLog(c)
  <2>1. UNCHANGED <<vs, wal, logs, imm, bg>>
    BY <1>7, Zenon DEF Writer, Write, RoomFails, RoomThere, RoomWaits, SwitchFails, disk, memory, work
  <2> QED
    BY <1>1, <1>2, <2>1
<1> QED
  BY <1>3, <1>4, <1>5, <1>6, <1>7

LEMMA ObsoleteDeleted ==
  ASSUME NEW files, NEW log, NEW input, NEW outputs, NEW failed \in BOOLEAN,
         DeleteObsoleteFiles(files, log, input, outputs, failed)
  PROVE  /\ DOMAIN tables' \subseteq DOMAIN tables
         /\ \A n \in DOMAIN tables' : tables'[n] = tables[n]
         /\ \A n \in DOMAIN tables :
               n \in outputs \/ (\E v \in {files, input, reader} : v # NoVersion /\ n \in FilesOf(v))
                  => n \in DOMAIN tables'
         /\ \A n \in DOMAIN logs : n >= log => n \in DOMAIN logs'
         /\ \A n \in DOMAIN manifests : n >= vs.manifest => n \in DOMAIN manifests'
<1>1. CASE failed
  BY <1>1 DEF DeleteObsoleteFiles
<1>2. CASE ~failed
  <2> DEFINE kept == outputs \cup UNION {FilesOf(v) : v \in LiveVersions(files, input)}
  <2>1. tables' = [n \in DOMAIN tables \cap kept |-> tables[n]]
    BY <1>2 DEF DeleteObsoleteFiles, Keep
  <2>2. ASSUME NEW v \in {files, input, reader}, v # NoVersion PROVE FilesOf(v) \subseteq kept
    BY <2>2 DEF LiveVersions
  <2>3. outputs \subseteq kept
    OBVIOUS
  <2>4. /\ logs' = [n \in {k \in DOMAIN logs : k >= log} |-> logs[n]]
        /\ manifests' = [n \in {k \in DOMAIN manifests : k >= vs.manifest} |-> manifests[n]]
    BY <1>2 DEF DeleteObsoleteFiles
  <2> HIDE DEF kept
  <2> QED
    BY <2>1, <2>2, <2>3, <2>4
<1> QED
  BY <1>1, <1>2

\* Steps that install no version.
LEMMA AsideFrame ==
  ASSUME SessionWell, Aside \/ BackgroundCall \/ FlushFails \/ Close
  PROVE  /\ vs'.files = vs.files /\ vs'.log = vs.log /\ vs'.manifest = vs.manifest
         /\ vs'.last = vs.last
         /\ vs'.next \in {vs.next, vs.next + 1}
         /\ UNCHANGED <<logs, current, wal, mem, imm>>
         /\ DOMAIN manifests' = DOMAIN manifests
         /\ BuildTable \/ FinishCompactionOutputFile \/ tables' = tables
<1>1. vs \in VsType /\ vs.manifest \in DOMAIN manifests
  BY DEF SessionWell, Types, FilesThere
<1>2. UNCHANGED <<logs, current, wal, mem, imm>>
      /\ (BuildTable \/ FinishCompactionOutputFile \/ tables' = tables)
  BY DEF Aside, BackgroundCall, FlushFails, Close, FlushStart, BuildTable, FlushEdit, TrivialMove,
     PickCompaction, OpenCompactionOutputFile, FinishCompactionOutputFile,
     InstallCompactionResults, ManifestWrite, Get, CleanupIteratorState, disk, memory
<1>3. DOMAIN manifests' = DOMAIN manifests
  <2>1. manifests' = manifests \/ \E w : manifests' = With(manifests, vs.manifest, w)
    BY DEF Aside, BackgroundCall, FlushFails, Close, FlushStart, BuildTable, FlushEdit, TrivialMove,
       PickCompaction, OpenCompactionOutputFile, FinishCompactionOutputFile,
       InstallCompactionResults, ManifestWrite, Get, CleanupIteratorState, disk
  <2> QED
    BY <1>1, <2>1 DEF With
<1>4. vs' = vs \/ vs' = [vs EXCEPT !.next = @ + 1]
  BY DEF Aside, BackgroundCall, FlushFails, Close, FlushStart, BuildTable, FlushEdit, TrivialMove,
     PickCompaction, OpenCompactionOutputFile, FinishCompactionOutputFile,
     InstallCompactionResults, ManifestWrite, Get, CleanupIteratorState
<1> QED
  BY <1>1, <1>2, <1>3, <1>4 DEF VsType

\* The steps that do: what they add and what they keep.
LEMMA FlushInstallFrame ==
  ASSUME SessionWell, FlushInstall
  PROVE  /\ vs'.files = [l0 |-> vs.files.l0 \cup {flush.to}, l1 |-> vs.files.l1]
         /\ vs'.log = wal.number /\ vs'.manifest = vs.manifest /\ vs'.last = vs.last
         /\ vs'.next = vs.next
         /\ UNCHANGED <<current, wal, mem, made, inputs, pending, reader, phase>>
         /\ imm' = {} /\ flush' = NoOutput /\ edit' = NoEdit
         /\ DeleteObsoleteFiles(vs'.files, wal.number, inputs, pending, bgError)
<1>1. /\ vs \in VsType /\ edit.log = wal.number /\ edit.add = [l0 |-> {flush.to}, l1 |-> {}]
      /\ edit.del = {}
  BY DEF SessionWell, Types, EditWell, FlushInstall
<1>2. PICK files : files = Apply(vs.files, edit)
  OBVIOUS
<1>3. files = [l0 |-> vs.files.l0 \cup {flush.to}, l1 |-> vs.files.l1]
  <2>1. vs.files \in Versions
    BY <1>1 DEF VsType
  <2> QED
    BY <1>1, <1>2, <2>1 DEF Apply, Versions
<1>4. /\ vs' = [vs EXCEPT !.files = files, !.log = edit.log]
      /\ DeleteObsoleteFiles(files, edit.log, inputs, pending, bgError)
      /\ imm' = {} /\ flush' = NoOutput /\ edit' = NoEdit
      /\ UNCHANGED <<current, wal, mem, made, inputs, pending, reader, phase>>
  BY <1>2 DEF FlushInstall, FlushEnds
<1>5. /\ vs'.files = files /\ vs'.log = edit.log /\ vs'.manifest = vs.manifest
      /\ vs'.last = vs.last /\ vs'.next = vs.next
  BY <1>1, <1>4 DEF VsType
<1> QED
  BY <1>1, <1>3, <1>4, <1>5

LEMMA MoveInstallFrame ==
  ASSUME SessionWell, MoveInstall
  PROVE  /\ vs'.files \in Versions /\ FilesOf(vs'.files) = FilesOf(vs.files)
         /\ vs'.log = vs.log /\ vs'.manifest = vs.manifest /\ vs'.last = vs.last
         /\ vs'.next = vs.next
         /\ UNCHANGED <<logs, tables, manifests, current, wal, mem, imm, flush, made, inputs, pending,
                        reader, phase>>
         /\ edit' = NoEdit
         /\ bg' \in {"off", "scheduled"}
<1>1. /\ vs \in VsType /\ vs.files \in Versions /\ edit \in EditType
  BY DEF SessionWell, Types, VsType
<1>2. PICK n \in vs.files.l0 : edit.add = [l0 |-> {}, l1 |-> {n}] /\ edit.del = {n}
  BY DEF SessionWell, EditWell, MoveInstall, Stages
<1>3. PICK files : files = IF edit.wrote = "ok" THEN Apply(vs.files, edit) ELSE vs.files
  OBVIOUS
<1>4. files \in Versions /\ FilesOf(files) = FilesOf(vs.files)
  <2>1. Apply(vs.files, edit) \in Versions
    BY <1>1, FilesTyped
  <2>2. FilesOf(Apply(vs.files, edit)) = FilesOf(vs.files)
    BY <1>1, <1>2 DEF Apply, FilesOf
  <2> QED
    BY <1>1, <1>3, <2>1, <2>2
<1>5. /\ vs' = [vs EXCEPT !.files = files]
      /\ UNCHANGED <<logs, tables, manifests, current, wal, mem, imm, flush, made, inputs, pending,
                     reader, phase>>
      /\ edit' = NoEdit
  BY <1>3 DEF MoveInstall, disk, memory
<1>6. bg' \in {"off", "scheduled"}
  BY DEF MoveInstall, BackgroundEnds, MaybeScheduleCompaction
<1>7. /\ vs'.files = files /\ vs'.log = vs.log /\ vs'.manifest = vs.manifest
      /\ vs'.last = vs.last /\ vs'.next = vs.next
  BY <1>1, <1>5 DEF VsType
<1> QED
  BY <1>4, <1>5, <1>6, <1>7

LEMMA CleanupCompactionFrame ==
  ASSUME SessionWell, CleanupCompaction
  PROVE  /\ vs'.files \in Versions
         /\ \/ vs'.files = vs.files
            \/ /\ made.pc = "install"
               /\ FilesOf(vs'.files) = (FilesOf(vs.files) \ FilesOf(inputs)) \cup {made.to}
         /\ vs'.log = vs.log /\ vs'.manifest = vs.manifest /\ vs'.last = vs.last
         /\ vs'.next = vs.next
         /\ UNCHANGED <<current, wal, mem, imm, flush, reader, phase>>
         /\ edit' = NoEdit /\ made' = NoOutput /\ inputs' = NoVersion /\ flush.pc = "no"
         /\ bg' \in {"off", "scheduled"} /\ pending' = pending \ {made.to}
         /\ \E failed \in BOOLEAN :
               DeleteObsoleteFiles(vs'.files, vs.log, NoVersion, pending \ {made.to}, failed)
<1>1. /\ vs \in VsType /\ vs.files \in Versions /\ edit \in EditType /\ flush.pc = "no"
  BY DEF SessionWell, Types, VsType, CleanupCompaction, Compacting
<1>2. PICK files : files = IF edit.wrote = "ok" THEN Apply(vs.files, edit) ELSE vs.files
  OBVIOUS
<1>3. PICK failed \in BOOLEAN : failed = (bgError \/ edit.wrote # "ok")
  OBVIOUS
<1>4. files \in Versions
  <2>1. Apply(vs.files, edit) \in Versions
    BY <1>1, FilesTyped
  <2> QED
    BY <1>1, <1>2, <2>1
<1>5. \/ files = vs.files
      \/ made.pc = "install" /\ FilesOf(files) = (FilesOf(vs.files) \ FilesOf(inputs)) \cup {made.to}
  <2>1. CASE Compacting("install")
    <3>1. edit.add = [l0 |-> {}, l1 |-> {made.to}] /\ edit.del = FilesOf(inputs)
      BY <2>1 DEF SessionWell, EditWell, Compacting
    <3>2. FilesOf(Apply(vs.files, edit)) = (FilesOf(vs.files) \ FilesOf(inputs)) \cup {made.to}
      BY <3>1 DEF Apply, FilesOf
    <3> QED
      BY <1>2, <2>1, <3>2 DEF Compacting
  <2>2. CASE Compacting("failed")
    <3>1. edit = NoEdit
      BY <2>2 DEF SessionWell, EditWell, Compacting
    <3> QED
      BY <1>2, <3>1 DEF NoEdit
  <2> QED
    BY <2>1, <2>2 DEF CleanupCompaction
<1>6. /\ vs' = [vs EXCEPT !.files = files]
      /\ DeleteObsoleteFiles(files, vs.log, NoVersion, pending \ {made.to}, failed)
      /\ UNCHANGED <<current, wal, mem, imm, flush, reader, phase>>
      /\ edit' = NoEdit /\ made' = NoOutput /\ inputs' = NoVersion
      /\ pending' = pending \ {made.to}
  BY <1>2, <1>3 DEF CleanupCompaction, memory
<1>7. bg' \in {"off", "scheduled"}
  BY DEF CleanupCompaction, BackgroundEnds, MaybeScheduleCompaction
<1>8. /\ vs'.files = files /\ vs'.log = vs.log /\ vs'.manifest = vs.manifest
      /\ vs'.last = vs.last /\ vs'.next = vs.next
  BY <1>1, <1>6 DEF VsType
<1> QED
  BY <1>1, <1>4, <1>5, <1>6, <1>7, <1>8

LEMMA ActsKeepEdit ==
  ASSUME Shapes, SessionWell, Acts
  PROVE  EditWell'
<1>1. EditWell /\ Stages /\ flush \in FlushType /\ made \in MadeType /\ vs \in VsType
      /\ edit \in EditType /\ bg \in {"off", "scheduled", "flushing", "moving", "compacting"}
  BY DEF SessionWell, Types
<1>2. ASSUME edit' = edit, flush' = flush, made' = made, inputs' = inputs, vs'.files = vs.files,
             bg' = "moving" <=> bg = "moving", flush.pc = "edit" => wal'.number = wal.number
      PROVE  EditWell'
  <2>1. CASE flush.pc = "edit"
    BY <1>1, <1>2, <2>1 DEF EditWell
  <2>2. CASE flush.pc # "edit" /\ bg = "moving"
    BY <1>1, <1>2, <2>2 DEF EditWell
  <2>3. CASE flush.pc # "edit" /\ bg # "moving" /\ made.pc = "install"
    BY <1>1, <1>2, <2>3 DEF EditWell
  <2>4. CASE flush.pc # "edit" /\ bg # "moving" /\ made.pc # "install"
    <3>1. edit' = NoEdit
      BY <1>1, <1>2, <2>4 DEF EditWell
    <3> QED
      BY <1>2, <2>4, <3>1 DEF EditWell
  <2> QED
    BY <2>1, <2>2, <2>3, <2>4
<1>3. CASE \E c \in Clients : Writer(c) \/ \E sync \in BOOLEAN : Write(c, sync)
  <2>1. /\ UNCHANGED <<edit, flush, made, inputs>> /\ vs'.files = vs.files
        /\ (wal'.number = wal.number \/ imm = {})
        /\ (bg # "off" => bg' = bg) /\ bg' \in {bg, "scheduled"}
    BY <1>3, WritersFrame DEF SwitchMemTable, MustWait
  <2>2. flush.pc = "edit" => imm # {}
    BY <1>1 DEF Stages
  <2> QED
    BY <1>2, <2>1, <2>2
<1>4. ASSUME flush'.pc # "edit", bg' # "moving", made'.pc # "install", edit' = NoEdit
      PROVE  EditWell'
  BY <1>4 DEF EditWell
<1>5. CASE BackgroundCall
  <2>1. flush.pc = "no" /\ made.pc = "no" /\ flush' = flush /\ made' = made /\ edit' = edit
    BY <1>1, <1>5 DEF BackgroundCall, Stages, opening
  <2>2. edit = NoEdit
    BY <1>1, <1>5, <2>1 DEF EditWell, BackgroundCall
  <2>3. bg' # "moving"
    BY <1>5 DEF BackgroundCall, BackgroundEnds, MaybeScheduleCompaction
  <2> QED
    BY <1>4, <2>1, <2>2, <2>3
<1>6. CASE FlushStart
  <2>1. flush.pc = "no" /\ bg # "moving" /\ bg' # "moving" /\ made.pc # "install"
        /\ flush'.pc = "build" /\ made' = made /\ edit' = edit
    BY <1>1, <1>6 DEF FlushStart, Working, Stages, opening
  <2>2. edit = NoEdit
    BY <1>1, <2>1 DEF EditWell
  <2> QED
    BY <1>4, <2>1, <2>2
<1>7. CASE BuildTable
  <2>1. /\ flush.pc = "build" /\ bg' = bg /\ made' = made /\ edit' = edit
        /\ \E x \in {"built", "failed"} : flush' = [flush EXCEPT !.pc = x]
    BY <1>7 DEF BuildTable, opening
  <2>3. flush'.pc # "edit"
    BY <1>1, <2>1 DEF FlushType
  <2>4. bg # "moving" /\ made.pc # "install"
    BY <1>1, <2>1 DEF Stages
  <2>2. edit = NoEdit
    BY <1>1, <2>1, <2>4 DEF EditWell
  <2> QED
    BY <1>4, <2>1, <2>2, <2>3, <2>4
<1>8. CASE FlushEdit
  <2>1. edit' = NewEdit(wal.number, [NoFiles EXCEPT !.l0 = {flush.to}], {})
        /\ flush' = [flush EXCEPT !.pc = "edit"] /\ wal' = wal
    BY <1>8 DEF FlushEdit, memory
  <2>2. flush'.pc = "edit" /\ flush'.to = flush.to
    BY <1>1, <2>1 DEF FlushType
  <2> QED
    BY <2>1, <2>2 DEF EditWell, NewEdit, NoFiles
<1>9. CASE FlushInstall \/ FlushFails
  <2>1. edit' = NoEdit /\ flush' = NoOutput /\ made' = made
    BY <1>9 DEF FlushInstall, FlushFails, FlushEnds
  <2>2. bg # "moving" /\ made.pc # "install"
    <3>1. flush.pc # "no"
      BY <1>9 DEF FlushInstall, FlushFails
    <3> QED
      BY <1>1, <3>1 DEF Stages
  <2>3. bg' # "moving"
    <3>1. bg' = bg \/ \E im, files, failed : BackgroundEnds(im, files, failed)
      BY <1>9 DEF FlushInstall, FlushFails, FlushEnds
    <3> QED
      BY <2>2, <3>1 DEF BackgroundEnds, MaybeScheduleCompaction
  <2> QED
    BY <1>4, <2>1, <2>2, <2>3 DEF NoOutput
<1>10. CASE TrivialMove
  <2>1. /\ bg = "scheduled" /\ bg' = "moving" /\ flush' = flush /\ vs' = vs
        /\ \E n \in vs.files.l0 : edit' = NewEdit(vs.log, [NoFiles EXCEPT !.l1 = {n}], {n})
    BY <1>10 DEF TrivialMove, Working
  <2>2. flush.pc = "no"
    BY <1>1, <2>1 DEF Stages
  <2>3. \E n \in vs.files.l0 : edit'.add = [l0 |-> {}, l1 |-> {n}] /\ edit'.del = {n}
    <3>1. PICK n \in vs.files.l0 : edit' = NewEdit(vs.log, [NoFiles EXCEPT !.l1 = {n}], {n})
      BY <2>1
    <3>2. edit'.add = [l0 |-> {}, l1 |-> {n}] /\ edit'.del = {n}
      BY <3>1 DEF NewEdit, NoFiles
    <3> QED
      BY <2>1, <3>2
  <2> QED
    BY <2>1, <2>2, <2>3 DEF EditWell
<1>11. CASE MoveInstall
  <2>1. bg = "moving" /\ flush' = flush /\ made' = made /\ edit' = NoEdit /\ bg' # "moving"
    BY <1>11, MoveInstallFrame DEF SessionWell, MoveInstall
  <2> QED
    BY <1>1, <1>4, <2>1 DEF Stages
<1>12. CASE PickCompaction \/ OpenCompactionOutputFile \/ FinishCompactionOutputFile
  <2>1. /\ flush.pc = "no" /\ bg # "moving" /\ bg' # "moving" /\ made.pc # "install"
        /\ made'.pc # "install" /\ flush' = flush /\ edit' = edit
    BY <1>1, <1>12 DEF PickCompaction, OpenCompactionOutputFile, FinishCompactionOutputFile, Working,
       Compacting, Stages, opening, MadeType
  <2>2. edit = NoEdit
    BY <1>1, <2>1 DEF EditWell
  <2> QED
    BY <1>4, <2>1, <2>2
<1>13. CASE InstallCompactionResults
  <2>1. /\ bg' = bg /\ bg = "compacting" /\ flush.pc = "no" /\ flush' = flush /\ inputs' = inputs
        /\ made' = [made EXCEPT !.pc = "install"]
        /\ edit' = NewEdit(vs.log, [NoFiles EXCEPT !.l1 = {made.to}], FilesOf(inputs))
    BY <1>13 DEF InstallCompactionResults, Compacting
  <2>2. made'.pc = "install" /\ made'.to = made.to
    BY <1>1, <2>1 DEF MadeType
  <2> QED
    BY <2>1, <2>2 DEF EditWell, NewEdit, NoFiles, FilesOf
<1>14. CASE CleanupCompaction
  <2>1. flush' = flush /\ flush.pc = "no" /\ made' = NoOutput /\ edit' = NoEdit /\ bg' # "moving"
    BY <1>14, CleanupCompactionFrame DEF SessionWell
  <2> QED
    BY <1>4, <2>1 DEF NoOutput
<1>15. CASE ManifestWrite
  <2>1. /\ edit # NoEdit /\ UNCHANGED <<flush, made, inputs, vs, bg, wal>>
        /\ \E w : edit' = [edit EXCEPT !.wrote = w]
    BY <1>15 DEF ManifestWrite, memory, work
  <2>2. UNCHANGED <<edit.add, edit.del, edit.log>>
    BY <1>1, <2>1 DEF EditType
  <2>3. flush.pc = "edit" \/ bg = "moving" \/ made.pc = "install"
    BY <1>1, <2>1 DEF EditWell
  <2> QED
    BY <1>1, <2>1, <2>2, <2>3 DEF EditWell
<1>16. CASE Get \/ CleanupIteratorState \/ Close
  BY <1>2, <1>16 DEF Get, CleanupIteratorState, Close, opening, work, memory
<1> QED
  BY <1>3, <1>5, <1>6, <1>7, <1>8, <1>9, <1>10, <1>11, <1>12, <1>13, <1>14, <1>15, <1>16
  DEF Acts, Background

LEMMA FreshNumber ==
  ASSUME SessionWell
  PROVE  /\ vs.next \in Nat /\ vs.next > 1 /\ 0 \notin Numbers
         /\ vs.next \notin Held /\ vs.next \notin Numbers
         /\ \A n \in Held : n \in Numbers \cup {0}
         /\ FilesOf(vs.files) \subseteq Numbers
         /\ NoVersion # vs.files
<1>1. vs.next \in Nat /\ wal.number \in 1 .. vs.next - 1
  BY DEF SessionWell, Types, VsType, FilesThere, Numbers
<1>2. FilesOf(NoVersion) = {0}
  BY DEF NoVersion, FilesOf
<1>3. \A n \in Held : n \in Numbers \cup {0}
  BY <1>2 DEF SessionWell, FilesThere, Held
<1>4. FilesOf(vs.files) \subseteq Numbers
  BY DEF SessionWell, FilesThere
<1> QED
  BY <1>1, <1>2, <1>3, <1>4 DEF Numbers

LEMMA ActsKeepInputs ==
  ASSUME Shapes, SessionWell, Acts
  PROVE  InputsStay'
<1>1. InputsStay /\ Stages /\ bg \in {"off", "scheduled", "flushing", "moving", "compacting"}
  BY DEF SessionWell, Types
<1>2. CASE \E c \in Clients : Writer(c) \/ \E sync \in BOOLEAN : Write(c, sync)
  <2>1. /\ inputs' = inputs /\ vs'.files = vs.files
        /\ (bg # "off" => bg' = bg) /\ bg' \in {bg, "scheduled"}
    BY <1>2, WritersFrame
  <2> QED
    BY <1>1, <2>1 DEF InputsStay
<1>3. ASSUME inputs' = inputs, bg # "compacting", bg' # "compacting"
      PROVE  InputsStay'
  BY <1>1, <1>3 DEF InputsStay
<1>4. ASSUME inputs' = inputs, bg' = bg, FilesOf(vs.files) \subseteq FilesOf(vs'.files)
      PROVE  InputsStay'
  BY <1>1, <1>4 DEF InputsStay
<1>5. CASE FlushInstall \/ FlushFails
  <2>1. inputs' = inputs /\ FilesOf(vs.files) \subseteq FilesOf(vs'.files)
    <3>1. CASE FlushInstall
      BY <3>1, FlushInstallFrame DEF FilesOf
    <3>2. CASE FlushFails
      BY <3>2 DEF FlushFails
    <3> QED
      BY <1>5, <3>1, <3>2
  <2>2. CASE bg = "flushing"
    <3>1. \E im, files, failed : BackgroundEnds(im, files, failed)
      BY <1>5, <2>2 DEF FlushInstall, FlushFails, FlushEnds
    <3>2. bg' # "compacting"
      BY <3>1 DEF BackgroundEnds, MaybeScheduleCompaction
    <3> QED
      BY <1>3, <2>1, <2>2, <3>2
  <2>3. CASE bg # "flushing"
    <3>1. bg' = bg
      BY <1>5, <2>3 DEF FlushInstall, FlushFails, FlushEnds
    <3> QED
      BY <1>4, <2>1, <3>1
  <2> QED
    BY <2>2, <2>3
<1>6. CASE MoveInstall
  <2>1. inputs' = inputs /\ bg' \in {"off", "scheduled"} /\ bg = "moving"
    BY <1>6, MoveInstallFrame DEF MoveInstall
  <2> QED
    BY <1>3, <2>1
<1>7. CASE CleanupCompaction
  BY <1>7, CleanupCompactionFrame DEF InputsStay
<1>8. CASE BackgroundCall
  BY <1>3, <1>8 DEF BackgroundCall, BackgroundEnds, MaybeScheduleCompaction
<1>9. CASE TrivialMove
  BY <1>3, <1>9 DEF TrivialMove, Working
<1>10. CASE PickCompaction
  BY <1>10 DEF PickCompaction, InputsStay
<1>11. CASE FlushStart
  <2>1. inputs' = inputs /\ vs'.files = vs.files
    BY <1>11, AsideFrame DEF Aside, FlushStart
  <2>2. bg' = bg \/ (bg = "scheduled" /\ bg' = "flushing")
    BY <1>11 DEF FlushStart, Working
  <2> QED
    BY <1>3, <1>4, <2>1, <2>2
<1>12. CASE \/ BuildTable \/ FlushEdit \/ OpenCompactionOutputFile \/ FinishCompactionOutputFile
            \/ InstallCompactionResults \/ ManifestWrite \/ Get \/ CleanupIteratorState \/ Close
  <2>1. vs'.files = vs.files
    BY <1>12, AsideFrame DEF Aside
  <2>2. inputs' = inputs /\ bg' = bg
    BY <1>12 DEF BuildTable, FlushEdit, OpenCompactionOutputFile, FinishCompactionOutputFile,
       InstallCompactionResults, ManifestWrite, Get, CleanupIteratorState, Close, work
  <2> QED
    BY <1>4, <2>1, <2>2
<1> QED
  BY <1>2, <1>5, <1>6, <1>7, <1>8, <1>9, <1>10, <1>11, <1>12 DEF Acts, Background

\* A table under construction is nobody's.
LEMMA HeldTablesStay ==
  ASSUME SessionWell, Aside \/ BackgroundCall \/ FlushFails \/ Close, NEW n \in Held
  PROVE  /\ n \in DOMAIN tables' <=> n \in DOMAIN tables
         /\ n \in DOMAIN tables => tables'[n] = tables[n]
<1>1. CASE BuildTable
  <2>1. flush.to # n
    BY <1>1 DEF BuildTable, SessionWell, FlushOutput
  <2>2. tables' = With(tables, flush.to, imm) \/ tables' = Keep(tables, DOMAIN tables \ {flush.to})
    BY <1>1 DEF BuildTable
  <2> QED
    BY <2>1, <2>2 DEF With, Keep
<1>2. CASE FinishCompactionOutputFile
  <2>1. made.to # n
    BY <1>2 DEF FinishCompactionOutputFile, Compacting, SessionWell, MadeOutput
  <2>2. tables' = With(tables, made.to, Content(inputs)) \/ tables' = tables
    BY <1>2 DEF FinishCompactionOutputFile
  <2>3. CASE tables' = With(tables, made.to, Content(inputs))
    <3>1. PICK es : es = Content(inputs)
      OBVIOUS
    <3> QED
      BY <2>1, <2>3, <3>1 DEF With
  <2> QED
    BY <2>2, <2>3
<1>3. CASE tables' = tables
  BY <1>3
<1> QED
  BY <1>1, <1>2, <1>3, AsideFrame

LEMMA ActsKeepFiles ==
  ASSUME Shapes, SessionWell, Acts
  PROVE  FilesThere'
<1>1. /\ vs \in VsType /\ vs.next \in Nat /\ vs.log \in Nat /\ wal.number \in Numbers
      /\ wal.number \in Nat /\ vs.log <= wal.number /\ vs.manifest \in Nat
      /\ wal.number \in DOMAIN logs
      /\ vs.manifest \in DOMAIN manifests /\ current = vs.manifest
      /\ FilesOf(vs.files) \subseteq Numbers \cap DOMAIN tables
      /\ \A v \in {inputs, reader} : v # NoVersion => FilesOf(v) \subseteq Numbers \cap DOMAIN tables
      /\ inputs \in Versions /\ reader \in Versions /\ bgError \in BOOLEAN
  BY DEF SessionWell, Types, VsType, FilesThere
<1>2. ASSUME vs'.next \in {vs.next, vs.next + 1}
      PROVE  Numbers \subseteq Numbers'
  BY <1>1, <1>2 DEF Numbers
<1>3. CASE \E c \in Clients : Writer(c) \/ \E sync \in BOOLEAN : Write(c, sync)
  <2>1. PICK c \in Clients : Writer(c) \/ \E sync \in BOOLEAN : Write(c, sync)
    BY <1>3
  <2>2. /\ UNCHANGED <<tables, manifests, current, inputs, reader>>
        /\ vs'.files = vs.files /\ vs'.log = vs.log /\ vs'.manifest = vs.manifest
        /\ vs'.next \in {vs.next, vs.next + 1}
        /\ wal'.number \in DOMAIN logs'
        /\ \/ wal'.number = wal.number
           \/ wal'.number = vs.next /\ vs'.next = vs.next + 1
    BY <2>1, WritersFrame
  <2>3. wal'.number \in Numbers' /\ vs'.log <= wal'.number
    BY <1>1, <2>2 DEF Numbers
  <2>4. Numbers \subseteq Numbers'
    BY <1>2, <2>2
  <2> QED
    BY <1>1, <2>2, <2>3, <2>4 DEF FilesThere
<1>4. CASE Aside \/ BackgroundCall \/ FlushFails \/ Close
  <2>1. /\ vs'.files = vs.files /\ vs'.log = vs.log /\ vs'.manifest = vs.manifest
        /\ vs'.next \in {vs.next, vs.next + 1}
        /\ UNCHANGED <<logs, current, wal>> /\ DOMAIN manifests' = DOMAIN manifests
    BY <1>4, AsideFrame
  <2>2. inputs' \in {inputs, vs.files, NoVersion} /\ reader' \in {reader, vs.files, NoVersion}
    BY <1>4 DEF Aside, BackgroundCall, FlushFails, Close, FlushStart, BuildTable, FlushEdit,
       TrivialMove, PickCompaction, OpenCompactionOutputFile, FinishCompactionOutputFile,
       InstallCompactionResults, ManifestWrite, Get, CleanupIteratorState, work
  <2>3. \A n \in Held : n \in DOMAIN tables => n \in DOMAIN tables'
    BY <1>4, HeldTablesStay
  <2>4. Numbers \subseteq Numbers'
    BY <1>2, <2>1
  <2>5. \A v \in {vs.files, inputs, reader} :
           v # NoVersion => FilesOf(v) \subseteq Numbers' \cap DOMAIN tables'
    BY <1>1, <2>3, <2>4 DEF Held
  <2>6. vs.files # NoVersion
    BY FreshNumber
  <2>7. FilesOf(vs.files) \subseteq Numbers' \cap DOMAIN tables'
    BY <2>5, <2>6
  <2> QED
    BY <1>1, <2>1, <2>2, <2>4, <2>5, <2>7 DEF FilesThere
<1>5. CASE FlushInstall
  <2>1. /\ vs'.files = [l0 |-> vs.files.l0 \cup {flush.to}, l1 |-> vs.files.l1]
        /\ vs'.log = wal.number /\ vs'.manifest = vs.manifest /\ vs'.next = vs.next
        /\ UNCHANGED <<current, wal, inputs, reader>>
        /\ DeleteObsoleteFiles(vs'.files, wal.number, inputs, pending, bgError)
    BY <1>5, FlushInstallFrame
  <2>2. FilesOf(vs'.files) = FilesOf(vs.files) \cup {flush.to}
    BY <2>1 DEF FilesOf
  <2>3. flush.to \in Numbers /\ flush.to \in DOMAIN tables
    BY <1>5 DEF SessionWell, FlushOutput, FlushInstall
  <2>4. FilesOf(vs'.files) \subseteq Numbers \cap DOMAIN tables
    BY <1>1, <2>2, <2>3
  <2>5. /\ \A n \in DOMAIN tables :
              (\E v \in {vs'.files, inputs, reader} : v # NoVersion /\ n \in FilesOf(v))
                 => n \in DOMAIN tables'
        /\ \A n \in DOMAIN logs : n >= wal.number => n \in DOMAIN logs'
        /\ \A n \in DOMAIN manifests : n >= vs.manifest => n \in DOMAIN manifests'
    <3>1. PICK files : files = vs'.files
      OBVIOUS
    <3>2. DeleteObsoleteFiles(files, wal.number, inputs, pending, bgError)
      BY <2>1, <3>1
    <3> QED
      BY <1>1, <3>1, <3>2, ObsoleteDeleted
  <2>6. vs'.files # NoVersion
    BY <2>4, FreshNumber DEF NoVersion, FilesOf
  <2>7. Numbers' = Numbers
    BY <2>1 DEF Numbers
  <2>8. \A v \in {vs'.files, inputs, reader} :
           v # NoVersion => FilesOf(v) \subseteq Numbers' \cap DOMAIN tables'
    BY <1>1, <2>4, <2>5, <2>7
  <2>9. wal.number \in DOMAIN logs' /\ vs.manifest \in DOMAIN manifests'
    BY <1>1, <2>5
  <2> QED
    BY <1>1, <2>1, <2>6, <2>7, <2>8, <2>9 DEF FilesThere
<1>6. CASE MoveInstall
  <2>1. /\ FilesOf(vs'.files) = FilesOf(vs.files)
        /\ vs'.log = vs.log /\ vs'.manifest = vs.manifest /\ vs'.next = vs.next
        /\ UNCHANGED <<logs, tables, manifests, current, wal, inputs, reader>>
    BY <1>6, MoveInstallFrame
  <2>2. Numbers' = Numbers
    BY <2>1 DEF Numbers
  <2> QED
    BY <1>1, <2>1, <2>2 DEF FilesThere
<1>7. CASE CleanupCompaction
  <2>1. /\ \/ vs'.files = vs.files
           \/ /\ made.pc = "install"
              /\ FilesOf(vs'.files) = (FilesOf(vs.files) \ FilesOf(inputs)) \cup {made.to}
        /\ vs'.log = vs.log /\ vs'.manifest = vs.manifest /\ vs'.next = vs.next
        /\ UNCHANGED <<current, wal, reader>> /\ inputs' = NoVersion
        /\ \E failed \in BOOLEAN :
              DeleteObsoleteFiles(vs'.files, vs.log, NoVersion, pending \ {made.to}, failed)
    BY <1>7, CleanupCompactionFrame
  <2>2. made.pc = "install" => made.to \in Numbers /\ made.to \in DOMAIN tables
    BY DEF SessionWell, MadeOutput
  <2>3. FilesOf(vs'.files) \subseteq Numbers \cap DOMAIN tables
    BY <1>1, <2>1, <2>2
  <2>4. /\ \A n \in DOMAIN tables :
              (\E v \in {vs'.files, NoVersion, reader} : v # NoVersion /\ n \in FilesOf(v))
                 => n \in DOMAIN tables'
        /\ \A n \in DOMAIN logs : n >= vs.log => n \in DOMAIN logs'
        /\ \A n \in DOMAIN manifests : n >= vs.manifest => n \in DOMAIN manifests'
    <3>1. PICK files : files = vs'.files
      OBVIOUS
    <3>2. PICK outputs : outputs = pending \ {made.to}
      OBVIOUS
    <3>3. PICK failed \in BOOLEAN : DeleteObsoleteFiles(files, vs.log, NoVersion, outputs, failed)
      BY <2>1, <3>1, <3>2
    <3> QED
      BY <3>1, <3>3, ObsoleteDeleted
  <2>5. vs'.files # NoVersion
    BY <2>3, FreshNumber DEF NoVersion, FilesOf
  <2>6. Numbers' = Numbers
    BY <2>1 DEF Numbers
  <2>7. \A v \in {vs'.files, reader} :
           v # NoVersion => FilesOf(v) \subseteq Numbers' \cap DOMAIN tables'
    BY <1>1, <2>3, <2>4, <2>6
  <2>8. wal.number \in DOMAIN logs' /\ vs.manifest \in DOMAIN manifests'
    BY <1>1, <2>4
  <2> QED
    BY <1>1, <2>1, <2>5, <2>6, <2>7, <2>8 DEF FilesThere
<1> QED
  BY <1>3, <1>4, <1>5, <1>6, <1>7 DEF Acts, Background, Aside

LEMMA ActsKeepFlushOutput ==
  ASSUME Shapes, SessionWell, Acts
  PROVE  FlushOutput'
<1>1. /\ vs \in VsType /\ vs.next \in Nat /\ flush \in FlushType /\ FlushOutput /\ Stages
      /\ bg \in {"off", "scheduled", "flushing", "moving", "compacting"}
  BY DEF SessionWell, Types, VsType
<1>2. CASE flush'.pc = "no"
  BY <1>2 DEF FlushOutput
<1>3. ASSUME Numbers \subseteq Numbers', Held' \subseteq Held \cup {0}, flush'.to = flush.to,
             flush.pc # "no", flush'.pc # "edit" => flush.to \in pending',
             flush'.pc \in {"built", "edit"} => flush.to \in DOMAIN tables' /\ tables'[flush.to] = imm'
      PROVE  FlushOutput'
  BY <1>1, <1>3, FreshNumber DEF FlushOutput
<1>4. ASSUME vs'.next \in {vs.next, vs.next + 1}
      PROVE  Numbers \subseteq Numbers'
  BY <1>1, <1>4 DEF Numbers
<1>5. CASE \E c \in Clients : Writer(c) \/ \E sync \in BOOLEAN : Write(c, sync)
  <2>1. /\ UNCHANGED <<tables, flush, inputs, pending, reader>>
        /\ vs'.files = vs.files /\ vs'.next \in {vs.next, vs.next + 1}
        /\ imm' = imm \/ imm = {}
    BY <1>5, WritersFrame
  <2>2. flush.pc # "no" => imm' = imm
    BY <1>1, <2>1 DEF Stages
  <2>3. Held' = Held
    BY <2>1 DEF Held
  <2> QED
    BY <1>1, <1>2, <1>3, <1>4, <2>1, <2>2, <2>3 DEF FlushOutput
<1>6. CASE FlushStart
  <2>1. /\ flush' = [pc |-> "build", to |-> vs.next] /\ pending' = pending \cup {vs.next}
        /\ vs' = [vs EXCEPT !.next = @ + 1] /\ UNCHANGED <<inputs, reader>>
    BY <1>6 DEF FlushStart
  <2>2. vs'.next = vs.next + 1 /\ vs'.files = vs.files
    BY <1>1, <2>1 DEF VsType
  <2>3. Held' = Held
    BY <2>1, <2>2 DEF Held
  <2>4. vs.next \in Numbers'
    BY <1>1, <2>2, FreshNumber DEF Numbers
  <2> QED
    BY <2>1, <2>3, <2>4, FreshNumber DEF FlushOutput
<1>7. CASE BuildTable
  <2>1. /\ flush.pc = "build" /\ UNCHANGED <<vs, inputs, reader, pending, imm>>
        /\ \/ tables' = With(tables, flush.to, imm) /\ flush' = [flush EXCEPT !.pc = "built"]
           \/ flush' = [flush EXCEPT !.pc = "failed"]
    BY <1>7 DEF BuildTable, memory
  <2>2. Held' = Held /\ Numbers' = Numbers
    BY <2>1 DEF Held, Numbers
  <2>3. flush'.to = flush.to /\ (flush'.pc # "failed" => tables' = With(tables, flush.to, imm))
        /\ flush'.pc # "edit"
    BY <1>1, <2>1 DEF FlushType
  <2>4. tables' = With(tables, flush.to, imm) =>
           flush.to \in DOMAIN tables' /\ tables'[flush.to] = imm
    BY DEF With
  <2>5. flush.to \in pending'
    BY <1>1, <2>1 DEF FlushOutput
  <2> QED
    BY <1>3, <2>1, <2>2, <2>3, <2>4, <2>5
<1>8. CASE FlushEdit
  <2>1. /\ flush.pc = "built" /\ flush' = [flush EXCEPT !.pc = "edit"]
        /\ UNCHANGED <<vs, tables, inputs, reader, imm>>
    BY <1>8 DEF FlushEdit, disk, memory
  <2>2. Held' = Held /\ Numbers' = Numbers
    BY <2>1 DEF Held, Numbers
  <2>3. flush'.to = flush.to /\ flush'.pc = "edit"
    BY <1>1, <2>1 DEF FlushType
  <2> QED
    BY <1>1, <1>3, <2>1, <2>2, <2>3 DEF FlushOutput
<1>9. CASE FlushInstall \/ FlushFails
  <2>1. flush' = NoOutput
    BY <1>9 DEF FlushInstall, FlushFails, FlushEnds
  <2> QED
    BY <1>2, <2>1 DEF NoOutput
<1>10. CASE \/ BackgroundCall \/ TrivialMove \/ MoveInstall \/ PickCompaction
            \/ OpenCompactionOutputFile \/ FinishCompactionOutputFile
            \/ InstallCompactionResults \/ CleanupCompaction
  <2>1. flush' = flush
    BY <1>10 DEF BackgroundCall, TrivialMove, MoveInstall, PickCompaction,
       OpenCompactionOutputFile, FinishCompactionOutputFile, InstallCompactionResults,
       CleanupCompaction
  <2>2. flush.pc = "no" \/ bg \in {"scheduled", "moving"}
    BY <1>10 DEF BackgroundCall, TrivialMove, MoveInstall, PickCompaction, Working, Compacting,
       OpenCompactionOutputFile, FinishCompactionOutputFile, InstallCompactionResults,
       CleanupCompaction
  <2>3. flush.pc = "no"
    BY <1>1, <2>2 DEF Stages
  <2> QED
    BY <1>2, <2>1, <2>3
<1>11. CASE ManifestWrite \/ Get \/ CleanupIteratorState \/ Close
  <2>1. /\ UNCHANGED <<flush, vs, tables, inputs, pending, imm>>
        /\ reader' \in {reader, vs.files, NoVersion}
    BY <1>11 DEF ManifestWrite, Get, CleanupIteratorState, Close, disk, work, memory
  <2>2. Held' \subseteq Held \cup {0} /\ Numbers' = Numbers
    BY <2>1 DEF Held, Numbers, FilesOf, NoVersion
  <2> QED
    BY <1>1, <1>2, <1>3, <2>1, <2>2 DEF FlushOutput
<1> QED
  BY <1>5, <1>6, <1>7, <1>8, <1>9, <1>10, <1>11 DEF Acts, Background

LEMMA ContentKept ==
  ASSUME NEW v,
         \A n \in FilesOf(v) : /\ n \in DOMAIN tables' <=> n \in DOMAIN tables
                               /\ n \in DOMAIN tables => tables'[n] = tables[n]
  PROVE  UNION {tables'[n] : n \in FilesOf(v) \cap DOMAIN tables'} = Content(v)
<1>1. FilesOf(v) \cap DOMAIN tables' = FilesOf(v) \cap DOMAIN tables
  OBVIOUS
<1>2. {tables'[n] : n \in FilesOf(v) \cap DOMAIN tables} = {tables[n] : n \in FilesOf(v) \cap DOMAIN tables}
  OBVIOUS
<1> QED
  BY <1>1, <1>2 DEF Content

LEMMA ActsKeepMadeOutput ==
  ASSUME Shapes, SessionWell, Acts
  PROVE  MadeOutput'
<1>1. /\ vs \in VsType /\ vs.next \in Nat /\ flush \in FlushType /\ made \in MadeType
      /\ MadeOutput /\ Stages
      /\ bg \in {"off", "scheduled", "flushing", "moving", "compacting"}
  BY DEF SessionWell, Types, VsType
<1>2. CASE made'.pc \in {"no", "open"}
  BY <1>2 DEF MadeOutput
<1>3. ASSUME Numbers \subseteq Numbers', Held' \subseteq Held \cup {0}, made'.to = made.to,
             made.pc \notin {"no", "open"}, made.to \in pending',
             flush'.pc # "no" => made.to # flush'.to,
             made'.pc \in {"done", "install"} =>
                made.to \in DOMAIN tables' /\ tables'[made.to] \subseteq Content(vs.files)'
      PROVE  MadeOutput'
  BY <1>1, <1>3, FreshNumber DEF MadeOutput
<1>4. ASSUME vs'.next \in {vs.next, vs.next + 1}
      PROVE  Numbers \subseteq Numbers'
  BY <1>1, <1>4 DEF Numbers
<1>5. CASE \E c \in Clients : Writer(c) \/ \E sync \in BOOLEAN : Write(c, sync)
  <2>1. /\ UNCHANGED <<tables, flush, made, inputs, pending, reader>>
        /\ vs'.files = vs.files /\ vs'.next \in {vs.next, vs.next + 1}
    BY <1>5, WritersFrame
  <2>2. Held' = Held /\ Content(vs.files)' = Content(vs.files)
    BY <2>1 DEF Held, Content, FilesOf
  <2> QED
    BY <1>1, <1>2, <1>3, <1>4, <2>1, <2>2 DEF MadeOutput
<1>6. CASE FlushStart
  <2>1. /\ flush' = [pc |-> "build", to |-> vs.next] /\ pending' = pending \cup {vs.next}
        /\ vs' = [vs EXCEPT !.next = @ + 1] /\ UNCHANGED <<inputs, reader, made, tables>>
    BY <1>6 DEF FlushStart, disk
  <2>2. vs'.next = vs.next + 1 /\ vs'.files = vs.files
    BY <1>1, <2>1 DEF VsType
  <2>3. Held' = Held /\ Content(vs.files)' = Content(vs.files)
    BY <2>1, <2>2 DEF Held, Content, FilesOf
  <2>4. made.pc \notin {"no", "open"} => made.to # vs.next
    BY <1>1, FreshNumber DEF MadeOutput
  <2> QED
    BY <1>1, <1>2, <1>3, <1>4, <2>1, <2>2, <2>3, <2>4 DEF MadeOutput
<1>7. CASE BuildTable
  <2>1. /\ flush.pc = "build" /\ UNCHANGED <<vs, inputs, reader, pending, made>>
        /\ \E x : flush' = [flush EXCEPT !.pc = x]
    BY <1>7 DEF BuildTable
  <2>2. Held' = Held /\ Numbers' = Numbers
    BY <2>1 DEF Held, Numbers
  <2>3. flush'.to = flush.to /\ made.pc \notin {"done", "install"}
    BY <1>1, <2>1 DEF FlushType, Stages
  <2> QED
    BY <1>1, <1>2, <1>3, <2>1, <2>2, <2>3 DEF MadeOutput
<1>8. CASE FlushEdit \/ FlushFails
  <2>1. /\ flush.pc # "no" /\ (flush'.pc = "no" \/ flush'.to = flush.to)
        /\ UNCHANGED <<vs, tables, inputs, reader, made>> /\ pending' = pending \ {flush.to}
    <3>1. CASE FlushEdit
      <4>1. flush.pc = "built" /\ flush' = [flush EXCEPT !.pc = "edit"]
        BY <3>1 DEF FlushEdit
      <4> QED
        BY <1>1, <3>1, <4>1 DEF FlushEdit, FlushType, disk
    <3>2. CASE FlushFails
      <4>1. flush.pc # "no" /\ flush' = NoOutput
        BY <3>2 DEF FlushFails, FlushEnds
      <4> QED
        BY <3>2, <4>1 DEF FlushFails, NoOutput, disk
    <3> QED
      BY <1>8, <3>1, <3>2
  <2>2. Held' = Held /\ Numbers' = Numbers
    BY <2>1 DEF Held, Numbers
  <2>3. made.pc \notin {"done", "install"}
    BY <1>1, <2>1 DEF Stages
  <2> QED
    BY <1>1, <1>2, <1>3, <2>1, <2>2, <2>3 DEF MadeOutput
<1>9. CASE FlushInstall
  <2>1. /\ vs'.files = [l0 |-> vs.files.l0 \cup {flush.to}, l1 |-> vs.files.l1]
        /\ vs'.next = vs.next /\ UNCHANGED <<made, inputs, pending, reader>> /\ flush' = NoOutput
    BY <1>9, FlushInstallFrame
  <2>2. flush.pc # "no" /\ made.pc \notin {"done", "install"}
    BY <1>1, <1>9 DEF FlushInstall, Stages
  <2>3. Held' = Held \cup {flush.to} /\ Numbers' = Numbers
    BY <2>1 DEF Held, Numbers, FilesOf
  <2> QED
    BY <1>1, <2>1, <2>2, <2>3 DEF MadeOutput, NoOutput
<1>10. CASE BackgroundCall \/ TrivialMove \/ MoveInstall
  <2>1. made' = made /\ bg \in {"scheduled", "moving"}
    BY <1>10 DEF BackgroundCall, TrivialMove, Working, MoveInstall
  <2> QED
    BY <1>1, <1>2, <2>1 DEF Stages
<1>11. CASE PickCompaction \/ CleanupCompaction
  BY <1>2, <1>11 DEF PickCompaction, CleanupCompaction, NoOutput
<1>12. CASE OpenCompactionOutputFile
  <2>1. /\ made' = [pc |-> "write", to |-> vs.next] /\ pending' = pending \cup {vs.next}
        /\ vs' = [vs EXCEPT !.next = @ + 1] /\ UNCHANGED <<inputs, reader, flush>>
        /\ flush.pc = "no"
    BY <1>12 DEF OpenCompactionOutputFile, Compacting
  <2>2. vs'.next = vs.next + 1 /\ vs'.files = vs.files
    BY <1>1, <2>1 DEF VsType
  <2>3. Held' = Held
    BY <2>1, <2>2 DEF Held
  <2>4. vs.next \in Numbers'
    BY <1>1, <2>2, FreshNumber DEF Numbers
  <2> QED
    BY <2>1, <2>3, <2>4, FreshNumber DEF MadeOutput
<1>13. CASE FinishCompactionOutputFile
  <2>1. /\ made.pc = "write" /\ flush.pc = "no" /\ bg = "compacting"
        /\ UNCHANGED <<vs, flush, inputs, reader, pending>>
        /\ \/ tables' = With(tables, made.to, Content(inputs)) /\ made' = [made EXCEPT !.pc = "done"]
           \/ made' = [made EXCEPT !.pc = "failed"]
    BY <1>13 DEF FinishCompactionOutputFile, Compacting
  <2>2. Held' = Held /\ Numbers' = Numbers
    BY <2>1 DEF Held, Numbers
  <2>3. made'.to = made.to /\ (made'.pc = "failed" \/ tables' = With(tables, made.to, Content(inputs)))
    BY <1>1, <2>1 DEF MadeType
  <2>4. ASSUME tables' = With(tables, made.to, Content(inputs))
        PROVE  made.to \in DOMAIN tables' /\ tables'[made.to] \subseteq Content(vs.files)'
    <3>1. PICK es : es = Content(inputs)
      OBVIOUS
    <3>2. made.to \in DOMAIN tables' /\ tables'[made.to] = es
      BY <2>4, <3>1 DEF With
    <3>3. es \subseteq Content(vs.files)
      BY <2>1, <3>1 DEF SessionWell, InputsStay, Content
    <3>4. UNION {tables'[n] : n \in FilesOf(vs.files) \cap DOMAIN tables'} = Content(vs.files)
      <4>1. \A n \in FilesOf(vs.files) : /\ n \in DOMAIN tables' <=> n \in DOMAIN tables
                                         /\ n \in DOMAIN tables => tables'[n] = tables[n]
        BY <1>13, HeldTablesStay DEF Aside, Held
      <4> QED
        BY <4>1, ContentKept
    <3>5. Content(vs.files)' = UNION {tables'[n] : n \in FilesOf(vs.files) \cap DOMAIN tables'}
      BY <2>1 DEF Content, FilesOf
    <3> QED
      BY <3>2, <3>3, <3>4, <3>5
  <2> QED
    BY <1>1, <1>3, <2>1, <2>2, <2>3, <2>4 DEF MadeOutput
<1>14. CASE InstallCompactionResults
  <2>1. /\ made.pc = "done" /\ made' = [made EXCEPT !.pc = "install"] /\ flush.pc = "no"
        /\ UNCHANGED <<vs, flush, inputs, reader, pending, tables>>
    BY <1>14 DEF InstallCompactionResults, Compacting, disk
  <2>2. Held' = Held /\ Numbers' = Numbers /\ Content(vs.files)' = Content(vs.files)
    BY <2>1 DEF Held, Numbers, Content, FilesOf
  <2>3. made'.to = made.to
    BY <1>1, <2>1 DEF MadeType
  <2> QED
    BY <1>1, <1>3, <2>1, <2>2, <2>3 DEF MadeOutput
<1>15. CASE ManifestWrite \/ Get \/ CleanupIteratorState \/ Close
  <2>1. /\ UNCHANGED <<flush, made, vs, tables, inputs, pending>>
        /\ reader' \in {reader, vs.files, NoVersion}
    BY <1>15 DEF ManifestWrite, Get, CleanupIteratorState, Close, disk, work
  <2>2. Held' \subseteq Held \cup {0} /\ Numbers' = Numbers
    BY <2>1 DEF Held, Numbers, FilesOf, NoVersion
  <2>3. Content(vs.files)' = Content(vs.files)
    BY <2>1 DEF Content, FilesOf
  <2> QED
    BY <1>1, <1>2, <1>3, <2>1, <2>2, <2>3 DEF MadeOutput
<1> QED
  BY <1>5, <1>6, <1>7, <1>8, <1>9, <1>10, <1>11, <1>12, <1>13, <1>14, <1>15 DEF Acts, Background

-----------------------------------------------------------------------------
(***************************************************************************)
(* .. and the sequence numbers.                                            *)
(***************************************************************************)
LEMMA FewerWellNumbered ==
  ASSUME NEW es, NEW fewer \in SUBSET es, NEW last, WellNumbered(es, last)
  PROVE  WellNumbered(fewer, last)
BY DEF WellNumbered

\* The entries of a group take the numbers after LastSequence, one each.
LEMMA EntriesNumbered ==
  ASSUME Types, NEW c \in Clients, NEW old, WellNumbered(old, vs.last)
  PROVE  WellNumbered(old \cup Entries(Record(c)), vs.last + Len(op[c].group))
<1> DEFINE group == op[c].group
           rec   == Record(c)
<1>1. vs.last \in Nat /\ group \in Seq(Clients) /\ op \in [Clients -> OpType] /\ Len(group) \in Nat
  BY DEF Types, VsType, OpType
<1>2. Batches(c) \in Seq(Nat) /\ Len(Batches(c)) = Len(group)
  <2>1. DOMAIN group = 1 .. Len(group) /\ \A i \in 1 .. Len(group) : group[i] \in Clients
    BY <1>1
  <2>2. \A i \in 1 .. Len(group) : op[group[i]].batch \in Nat
    BY <1>1, <2>1 DEF OpType
  <2>3. Batches(c) = [i \in 1 .. Len(group) |-> op[group[i]].batch]
    BY <2>1 DEF Batches
  <2>4. Batches(c) \in [1 .. Len(group) -> Nat]
    BY <2>2, <2>3
  <2> QED
    BY <1>1, <2>4, LenProperties
<1>3. rec = <<vs.last + 1>> \o Batches(c) /\ <<vs.last + 1>> \in Seq(Nat)
  BY <1>1 DEF Record
<1>4. Len(rec) = Len(group) + 1 /\ rec[1] = vs.last + 1
  BY <1>1, <1>2, <1>3, ConcatProperties
<1> HIDE DEF group, rec
<1>5. ASSUME NEW e \in Entries(rec)
      PROVE  \E i \in 2 .. Len(group) + 1 : e = <<vs.last + i - 1, rec[i]>>
  <2>1. PICK i \in 2 .. Len(rec) : e = <<rec[1] + i - 2, rec[i]>>
    BY <1>5 DEF Entries
  <2>2. i \in 2 .. Len(group) + 1 /\ rec[1] + i - 2 = vs.last + i - 1
    BY <1>1, <1>4, SMTT(30)
  <2> QED
    BY <2>1, <2>2
<1>6. \A e \in Entries(rec) : e[1] \in vs.last + 1 .. vs.last + Len(group)
  BY <1>1, <1>5
<1>7. \A e, f \in Entries(rec) : e[1] = f[1] => e = f
  <2>1. TAKE e, f \in Entries(rec)
  <2>2. PICK i \in 2 .. Len(group) + 1 : e = <<vs.last + i - 1, rec[i]>>
    BY <1>5
  <2>3. PICK j \in 2 .. Len(group) + 1 : f = <<vs.last + j - 1, rec[j]>>
    BY <1>5
  <2> QED
    BY <1>1, <2>2, <2>3
<1>8. \A e \in old : e[1] \in 1 .. vs.last
  BY DEF WellNumbered
<1>9. \A e, f \in old : e[1] = f[1] => e = f
  BY DEF WellNumbered
<1>10. \A e \in old \cup Entries(rec) : e[1] \in 1 .. vs.last + Len(group)
  BY <1>1, <1>6, <1>8
<1>11. \A e, f \in old \cup Entries(rec) : e[1] = f[1] => e = f
  BY <1>1, <1>6, <1>7, <1>8, <1>9
<1> QED
  BY <1>10, <1>11 DEF WellNumbered, group, rec

LEMMA ActsKeepNumbered ==
  ASSUME Shapes, SessionWell, Acts
  PROVE  Numbered'
<1>1. /\ vs \in VsType /\ Numbered /\ Types /\ FilesOf(vs.files) \subseteq DOMAIN tables
  BY DEF SessionWell, Types, FilesThere
<1>2. ASSUME NEW es, es = UNION {tables'[n] : n \in FilesOf(vs'.files) \cap DOMAIN tables'},
             NEW fewer, fewer = mem' \cup imm' \cup es,
             fewer \subseteq mem \cup imm \cup Content(vs.files), vs'.last = vs.last
      PROVE  Numbered'
  <2>1. WellNumbered(mem \cup imm \cup Content(vs.files), vs.last)
    BY <1>1 DEF Numbered
  <2>2. WellNumbered(fewer, vs.last)
    BY <1>2, <2>1, FewerWellNumbered
  <2>3. Content(vs.files)' = es
    BY <1>2 DEF Content, FilesOf
  <2> QED
    BY <1>2, <2>2, <2>3 DEF Numbered
<1>3. CASE \E c \in Clients : Writer(c) \/ \E sync \in BOOLEAN : Write(c, sync)
  <2>1. PICK c \in Clients : Writer(c) \/ \E sync \in BOOLEAN : Write(c, sync)
    BY <1>3
  <2>2. UNCHANGED tables /\ vs'.files = vs.files
    BY <2>1, WritersFrame
  <2>3. Content(vs.files)' = Content(vs.files)
    BY <2>2 DEF Content, FilesOf
  <2>4. CASE Finish(c)
    <3>1. PICK old : old = mem \cup imm \cup Content(vs.files)
      OBVIOUS
    <3>2. PICK new : new = Entries(Record(c))
      OBVIOUS
    <3>3. WellNumbered(old, vs.last)
      BY <1>1, <3>1 DEF Numbered
    <3>4. WellNumbered(old \cup new, vs.last + Len(op[c].group))
      BY <1>1, <3>2, <3>3, EntriesNumbered
    <3>5. vs' = [vs EXCEPT !.last = vs.last + Len(op[c].group)] /\ imm' = imm
      BY <2>4 DEF Finish
    <3>6. mem' = mem \/ mem' = mem \cup new
      BY <2>4, <3>2 DEF Finish
    <3>7. vs'.last = vs.last + Len(op[c].group)
      BY <1>1, <3>5 DEF VsType
    <3>8. PICK now : now = mem' \cup imm' \cup Content(vs.files)
      OBVIOUS
    <3>9. now \subseteq old \cup new
      BY <3>1, <3>5, <3>6, <3>8
    <3>10. WellNumbered(now, vs'.last)
      BY <3>4, <3>7, <3>9, FewerWellNumbered
    <3> QED
      BY <2>3, <3>8, <3>10 DEF Numbered
  <2>5. CASE ~Finish(c)
    <3>1. mem' \cup imm' = mem \cup imm
      BY <2>1, <2>5, Zenon DEF Writer, Write, RoomFails, RoomThere, RoomWaits, SwitchMemTable, SwitchFails,
         AppendLog, SyncLog, memory, MustWait
    <3>2. vs' = vs \/ vs' = [vs EXCEPT !.next = @ + 1]
      BY <2>1, <2>5, Zenon DEF Writer, Write, RoomFails, RoomThere, RoomWaits, SwitchMemTable, SwitchFails,
         AppendLog, SyncLog
    <3>3. vs'.last = vs.last
      BY <1>1, <3>2 DEF VsType
    <3> QED
      BY <1>1, <2>3, <3>1, <3>3, ZenonT(60) DEF Numbered
  <2> QED
    BY <2>4, <2>5
<1>4. CASE Aside \/ BackgroundCall \/ FlushFails \/ Close
  <2>1. vs'.files = vs.files /\ vs'.last = vs.last /\ UNCHANGED <<mem, imm>>
    BY <1>4, AsideFrame
  <2>2. UNION {tables'[n] : n \in FilesOf(vs.files) \cap DOMAIN tables'} = Content(vs.files)
    <3>1. \A n \in FilesOf(vs.files) : /\ n \in DOMAIN tables' <=> n \in DOMAIN tables
                                       /\ n \in DOMAIN tables => tables'[n] = tables[n]
      BY <1>4, HeldTablesStay DEF Held
    <3> QED
      BY <3>1, ContentKept
  <2> QED
    BY <1>2, <2>1, <2>2
<1>5. CASE FlushInstall
  <2>1. /\ vs'.files = [l0 |-> vs.files.l0 \cup {flush.to}, l1 |-> vs.files.l1]
        /\ vs'.last = vs.last /\ mem' = mem /\ imm' = {}
        /\ DeleteObsoleteFiles(vs'.files, wal.number, inputs, pending, bgError)
    BY <1>5, FlushInstallFrame
  <2>2. FilesOf(vs'.files) = FilesOf(vs.files) \cup {flush.to}
    BY <2>1 DEF FilesOf
  <2>3. tables[flush.to] = imm
    BY <1>5 DEF SessionWell, FlushOutput, FlushInstall
  <2>4. DOMAIN tables' \subseteq DOMAIN tables /\ \A n \in DOMAIN tables' : tables'[n] = tables[n]
    <3>1. PICK files : files = vs'.files
      OBVIOUS
    <3>2. DeleteObsoleteFiles(files, wal.number, inputs, pending, bgError)
      BY <2>1, <3>1
    <3>3. bgError \in BOOLEAN
      BY <1>1 DEF Types
    <3> QED
      BY <3>2, <3>3, ObsoleteDeleted
  <2>5. PICK es : es = UNION {tables'[n] : n \in FilesOf(vs'.files) \cap DOMAIN tables'}
    OBVIOUS
  <2>6. es \subseteq imm \cup Content(vs.files)
    BY <2>2, <2>3, <2>4, <2>5 DEF Content
  <2>7. PICK fewer : fewer = mem' \cup imm' \cup es
    OBVIOUS
  <2>8. fewer \subseteq mem \cup imm \cup Content(vs.files)
    BY <2>1, <2>6, <2>7
  <2> QED
    BY <1>2, <2>1, <2>5, <2>7, <2>8
<1>6. CASE MoveInstall
  <2>1. FilesOf(vs'.files) = FilesOf(vs.files) /\ vs'.last = vs.last /\ UNCHANGED <<mem, imm, tables>>
    BY <1>6, MoveInstallFrame
  <2>2. UNION {tables'[n] : n \in FilesOf(vs'.files) \cap DOMAIN tables'} = Content(vs.files)
    BY <2>1 DEF Content
  <2> QED
    BY <1>2, <2>1, <2>2
<1>7. CASE CleanupCompaction
  <2>1. /\ \/ vs'.files = vs.files
           \/ /\ made.pc = "install"
              /\ FilesOf(vs'.files) = (FilesOf(vs.files) \ FilesOf(inputs)) \cup {made.to}
        /\ vs'.last = vs.last /\ UNCHANGED <<mem, imm>>
        /\ \E failed \in BOOLEAN :
              DeleteObsoleteFiles(vs'.files, vs.log, NoVersion, pending \ {made.to}, failed)
    BY <1>7, CleanupCompactionFrame
  <2>2. made.pc = "install" => tables[made.to] \subseteq Content(vs.files)
    BY DEF SessionWell, MadeOutput
  <2>3. DOMAIN tables' \subseteq DOMAIN tables /\ \A n \in DOMAIN tables' : tables'[n] = tables[n]
    <3>1. PICK files : files = vs'.files
      OBVIOUS
    <3>2. PICK outputs : outputs = pending \ {made.to}
      OBVIOUS
    <3>3. PICK failed \in BOOLEAN : DeleteObsoleteFiles(files, vs.log, NoVersion, outputs, failed)
      BY <2>1, <3>1, <3>2
    <3> QED
      BY <3>3, ObsoleteDeleted
  <2>4. PICK es : es = UNION {tables'[n] : n \in FilesOf(vs'.files) \cap DOMAIN tables'}
    OBVIOUS
  <2>5. es \subseteq Content(vs.files)
    <3>1. SUFFICES ASSUME NEW n \in FilesOf(vs'.files) \cap DOMAIN tables'
                   PROVE  tables'[n] \subseteq Content(vs.files)
      BY <2>4
    <3>2. tables'[n] = tables[n] /\ n \in DOMAIN tables
      BY <2>3
    <3>3. n \in FilesOf(vs.files) \/ (made.pc = "install" /\ n = made.to)
      BY <2>1
    <3>4. n \in FilesOf(vs.files) => tables[n] \subseteq Content(vs.files)
      BY <3>2 DEF Content
    <3> QED
      BY <2>2, <3>2, <3>3, <3>4
  <2>6. PICK fewer : fewer = mem' \cup imm' \cup es
    OBVIOUS
  <2>7. fewer \subseteq mem \cup imm \cup Content(vs.files)
    BY <2>1, <2>5, <2>6
  <2> QED
    BY <1>2, <2>1, <2>4, <2>6, <2>7
<1> QED
  BY <1>3, <1>4, <1>5, <1>6, <1>7 DEF Acts, Background, Aside

LEMMA ActsKeepSession ==
  ASSUME Session, Shapes, SessionWell, Acts
  PROVE  SessionWell'
BY ActsKeepTypes, ActsKeepLine, ActsKeepWoken, ActsKeepStages, ActsKeepCalled, ActsKeepEdit,
   ActsKeepFlushOutput, ActsKeepMadeOutput, ActsKeepInputs, ActsKeepFiles, ActsKeepNumbered
   DEF SessionWell, Lined

-----------------------------------------------------------------------------
(***************************************************************************)
(* A session begins with what DB::Open has recovered.                      *)
(***************************************************************************)
LEMMA OpenedBegins ==
  ASSUME Quiet, Shapes, OpeningWell, Recovered, Opened
  PROVE  SessionWell'
<1> DEFINE files == Apply(vs.files, edit)
<1>1. /\ phase = "install" /\ phase' = "up" /\ edit' = NoEdit
      /\ vs' = [vs EXCEPT !.files = files, !.log = edit.log]
      /\ DeleteObsoleteFiles(files, edit.log, NoVersion, {}, FALSE)
      /\ bg' = MaybeScheduleCompaction("off", {}, files, FALSE)
      /\ UNCHANGED <<current, mem, imm, wal, queue, op, flush, made, inputs, pending, reader, bgError>>
  BY DEF Opened, memory, writers
<1>2. /\ queue = <<>> /\ op = [c \in Clients |-> Idle] /\ mem = {} /\ imm = {}
      /\ bg = "off" /\ flush = NoOutput /\ made = NoOutput
      /\ inputs = NoVersion /\ reader = NoVersion /\ pending = {} /\ bgError = FALSE
  BY <1>1 DEF Quiet, Session
<1>3. /\ vs.next \in Nat /\ vs.last \in Nat
      /\ wal.number \in 1 .. vs.next - 1 /\ vs.manifest \in 1 .. vs.next - 1
      /\ FilesOf(files) \subseteq 1 .. vs.next - 1
      /\ FilesOf(files) \subseteq DOMAIN tables
      /\ WellNumbered(Content(files), vs.last)
  BY <1>1 DEF Recovered
<1>4. /\ wal.number \in DOMAIN logs /\ edit.log = wal.number
      /\ vs.manifest \in DOMAIN manifests /\ current = vs.manifest
  BY <1>1 DEF OpeningWell
<1>5. files \in Versions
  <2>1. files = [l0 |-> files.l0, l1 |-> files.l1]
    BY DEF Apply
  <2>2. files.l0 \in SUBSET Nat /\ files.l1 \in SUBSET Nat
    BY <1>3 DEF FilesOf
  <2> HIDE DEF files
  <2> QED
    BY <2>1, <2>2 DEF Versions
<1>6. PICK f : f = files
  OBVIOUS
<1> HIDE DEF files
<1>7. DOMAIN vs = {"files", "log", "next", "last", "manifest"}
  BY DEF Shapes, NewVs
<1>8. /\ vs' = [vs EXCEPT !.files = f, !.log = edit.log]
      /\ vs'.files = f /\ vs'.log = wal.number /\ vs'.next = vs.next /\ vs'.last = vs.last
      /\ vs'.manifest = vs.manifest
  BY <1>1, <1>4, <1>6, <1>7
<1>9. vs' \in VsType
  <2>1. DOMAIN vs' = {"files", "log", "next", "last", "manifest"}
        /\ vs' = [x \in DOMAIN vs' |-> vs'[x]]
    BY <1>7, <1>8
  <2>2. vs' = [files |-> f, log |-> wal.number, next |-> vs.next, last |-> vs.last,
               manifest |-> vs.manifest]
    BY <1>8, <2>1
  <2> QED
    BY <1>3, <1>5, <1>6, <2>2 DEF VsType
<1>10. Types'
  <2>1. edit' \in EditType /\ NoVersion \in Versions /\ NoOutput \in FlushType /\ NoOutput \in MadeType
    BY <1>1, FilesTyped
  <2>2. op' \in [Clients -> OpType] /\ queue' \in Seq(Clients)
    BY <1>1, <1>2 DEF Idle, OpType
  <2>3. bg' \in {"off", "scheduled"}
    BY <1>1 DEF MaybeScheduleCompaction
  <2> QED
    <3>1. wal'.number \in Nat /\ flush' = NoOutput /\ made' = NoOutput
          /\ inputs' = NoVersion /\ reader' = NoVersion /\ pending' = {} /\ bgError' = FALSE
      BY <1>1, <1>2, <1>3
    <3> QED
      BY <1>9, <2>1, <2>2, <2>3, <3>1 DEF Types
<1>11. InLine' /\ Woken'
  <2>1. \A c \in Clients : op'[c].pc = "idle"
    BY <1>1, <1>2 DEF Idle
  <2>2. Len(queue') = 0 /\ queue' = <<>>
    BY <1>1, <1>2
  <2> QED
    BY <2>1, <2>2 DEF InLine, Woken, AtWork
<1>12. Stages' /\ EditWell' /\ FlushOutput' /\ MadeOutput' /\ InputsStay'
  <2>1. flush'.pc = "no" /\ made'.pc = "no" /\ bg' \in {"off", "scheduled"}
        /\ inputs' = NoVersion /\ edit' = NoEdit
    BY <1>1, <1>2 DEF NoOutput, MaybeScheduleCompaction
  <2> QED
    BY <2>1 DEF Stages, EditWell, FlushOutput, MadeOutput, InputsStay
<1>13. Called'
  <2>1. NeedsCompaction(f) => bg' # "off"
    BY <1>1, <1>6 DEF MaybeScheduleCompaction
  <2>2. imm' = {}
    BY <1>1, <1>2
  <2> QED
    BY <1>8, <2>1, <2>2 DEF Called, NeedsCompaction
<1>14. /\ DOMAIN tables' \subseteq DOMAIN tables
       /\ \A n \in DOMAIN tables' : tables'[n] = tables[n]
       /\ \A n \in DOMAIN tables :
             (\E v \in {f, NoVersion, reader} : v # NoVersion /\ n \in FilesOf(v))
                => n \in DOMAIN tables'
       /\ \A n \in DOMAIN logs : n >= wal.number => n \in DOMAIN logs'
       /\ \A n \in DOMAIN manifests : n >= vs.manifest => n \in DOMAIN manifests'
  <2>1. DeleteObsoleteFiles(f, wal.number, NoVersion, {}, FALSE)
    BY <1>1, <1>4, <1>6
  <2> QED
    BY <2>1, ObsoleteDeleted
<1>15. f # NoVersion
  BY <1>3, <1>6 DEF NoVersion, FilesOf
<1>16. FilesThere'
  <2>1. Numbers' = 1 .. vs.next - 1
    BY <1>8 DEF Numbers
  <2>2. FilesOf(f) \subseteq DOMAIN tables'
    BY <1>3, <1>6, <1>14, <1>15
  <2>3. wal.number \in DOMAIN logs' /\ vs.manifest \in DOMAIN manifests'
    BY <1>3, <1>4, <1>14
  <2> QED
    BY <1>1, <1>2, <1>3, <1>4, <1>6, <1>8, <2>1, <2>2, <2>3 DEF FilesThere
<1>17. Numbered'
  <2>1. PICK es : es = UNION {tables'[n] : n \in FilesOf(f) \cap DOMAIN tables'}
    OBVIOUS
  <2>2. es \subseteq Content(files)
    BY <1>6, <1>14, <2>1 DEF Content
  <2>3. PICK all : all = Content(files)
    OBVIOUS
  <2>4. WellNumbered(es, vs.last)
    BY <1>3, <2>2, <2>3, FewerWellNumbered
  <2>5. Content(vs.files)' = es
    BY <1>8, <2>1 DEF Content, FilesOf
  <2>6. mem' \cup imm' \cup es = es
    BY <1>1, <1>2
  <2> QED
    BY <1>8, <2>4, <2>5, <2>6 DEF Numbered
<1> QED
  BY <1>10, <1>11, <1>12, <1>13, <1>16, <1>17 DEF SessionWell

-----------------------------------------------------------------------------
(***************************************************************************)
(* The theorems.                                                           *)
(***************************************************************************)
LEMMA IInvBegins == Init => IInv
<1> SUFFICES ASSUME Init PROVE IInv
  OBVIOUS
<1>1. Quiet
  BY DEF Init, Quiet
<1>2. Shapes
  BY DEF Init, Shapes
<1>3. OpeningWell /\ ~Session
  BY DEF Init, OpeningWell, Session
<1> QED
  BY <1>1, <1>2, <1>3 DEF IInv

LEMMA ShapesStay ==
  ASSUME Shapes, SessionWell, Acts, Types'
  PROVE  Shapes'
<1>1. DOMAIN vs' = DOMAIN NewVs /\ DOMAIN edit' = DOMAIN NoEdit
  BY DEF Types, VsType, EditType, NewVs, NoEdit
<1>2. DOMAIN wal' = DOMAIN NoLog
  <2>1. \/ wal' = wal \/ wal' = [number |-> vs.next, off |-> 0, failed |-> FALSE]
        \/ \E x : wal' = [wal EXCEPT !.off = x] \/ wal' = [wal EXCEPT !.off = x, !.failed = TRUE]
    <3>1. CASE \E c \in Clients : Writer(c) \/ \E sync \in BOOLEAN : Write(c, sync)
      BY <3>1, ZenonT(60) DEF Writer, Write, RoomFails, RoomThere, RoomWaits, SwitchMemTable, SwitchFails,
         AppendLog, SyncLog, Finish, memory
    <3>2. CASE Background \/ Get \/ CleanupIteratorState \/ Close
      BY <3>2, Zenon DEF Background, BackgroundCall, FlushStart, BuildTable, FlushEdit, FlushFails,
         TrivialMove, PickCompaction, OpenCompactionOutputFile, FinishCompactionOutputFile,
         InstallCompactionResults, ManifestWrite, Get, CleanupIteratorState, Close, FlushInstall,
         MoveInstall, CleanupCompaction, memory
    <3> QED
      BY <3>1, <3>2, ZenonT(60) DEF Acts
  <2> QED
    BY <2>1, Zenon DEF Shapes, NoLog
<1>3. count' \in Nat
  <2>1. count' = count \/ count' = count + 1
    <3>1. CASE \E c \in Clients : Writer(c) \/ \E sync \in BOOLEAN : Write(c, sync)
      BY <3>1, Zenon DEF Writer, Write, RoomFails, RoomThere, RoomWaits, SwitchMemTable, SwitchFails,
         AppendLog, SyncLog, Finish, history
    <3>2. CASE Background \/ Get \/ CleanupIteratorState \/ Close
      BY <3>2 DEF Background, BackgroundCall, FlushStart, BuildTable, FlushEdit, FlushFails,
         TrivialMove, PickCompaction, OpenCompactionOutputFile, FinishCompactionOutputFile,
         InstallCompactionResults, ManifestWrite, Get, CleanupIteratorState, Close, FlushInstall,
         MoveInstall, CleanupCompaction, history
    <3> QED
      BY <3>1, <3>2, SMTT(30) DEF Acts
  <2> QED
    BY <2>1 DEF Shapes
<1> QED
  BY <1>1, <1>2, <1>3 DEF Shapes

LEMMA ActsSession ==
  ASSUME Session, Acts, SessionWell
  PROVE  Session'
<1>1. phase' = phase \/ phase' = "closing"
  <2>1. CASE \E c \in Clients : Writer(c) \/ \E sync \in BOOLEAN : Write(c, sync)
    BY <2>1, Zenon DEF Writer, Write, RoomFails, RoomThere, RoomWaits, SwitchMemTable, SwitchFails,
       AppendLog, SyncLog, Finish
  <2>2. CASE Signals \/ Aside \/ Close
    BY <2>2, SignalsSignal, AsideLeaves DEF Close
  <2> QED
    BY <2>1, <2>2, SMTT(30) DEF Acts, Background, Signals, Aside
<1> QED
  BY <1>1 DEF Session

LEMMA IInvStays == IInv /\ Recovered /\ [Next]_vars => IInv'
<1> SUFFICES ASSUME IInv, Recovered, [Next]_vars PROVE IInv'
  OBVIOUS
<1>1. CASE UNCHANGED vars
  <2> USE <1>1 DEF vars, disk, opening, memory, writers, work, history
  <2>1. Quiet' /\ Shapes' /\ OpeningWell' /\ (Session' <=> Session)
    BY DEF IInv, Quiet, Shapes, OpeningWell, Session, NewVs, NoEdit, NoLog, NoVersion, NoOutput,
       NoFiles, Idle
  <2>2. SessionWell => SessionWell'
    <3>1. Types => Types'
      BY DEF Types
    <3>2. (InLine => InLine') /\ (Woken => Woken') /\ (Stages => Stages')
      BY DEF InLine, Woken, Stages
    <3>3. (Called => Called') /\ (EditWell => EditWell')
      BY DEF Called, EditWell, NeedsCompaction, FilesOf
    <3>4. (FlushOutput => FlushOutput') /\ (InputsStay => InputsStay') /\ (FilesThere => FilesThere')
      BY DEF FlushOutput, InputsStay, FilesThere, Held, Numbers, FilesOf
    <3>5. (MadeOutput => MadeOutput') /\ (Numbered => Numbered')
      BY DEF MadeOutput, Numbered, Held, Numbers, FilesOf, Content
    <3> QED
      BY <3>1, <3>2, <3>3, <3>4, <3>5 DEF SessionWell
  <2> QED
    BY <2>1, <2>2 DEF IInv
<1>2. CASE Next /\ Stopping
  <2>1. /\ phase' = "down" /\ vs' = NewVs /\ edit' = NoEdit /\ wal' = NoLog
        /\ queue' = <<>> /\ op' = [c \in Clients |-> Idle] /\ mem' = {} /\ imm' = {}
        /\ bg' = "off" /\ flush' = NoOutput /\ made' = NoOutput
        /\ inputs' = NoVersion /\ reader' = NoVersion /\ pending' = {} /\ bgError' = FALSE
        /\ count' = count
    BY <1>2, StoppingQuiets
  <2> QED
    BY <2>1 DEF IInv, Quiet, Shapes, OpeningWell, Session, NewVs, NoEdit, NoLog, NoVersion, NoOutput,
       NoFiles, Idle
<1>3. CASE Session /\ Next /\ Acts
  <2>1. SessionWell' /\ Shapes /\ SessionWell /\ Types'
    BY <1>3, ActsKeepSession, ActsKeepTypes DEF IInv
  <2>2. Shapes'
    BY <1>3, <2>1, ShapesStay
  <2>3. Session'
    BY <1>3, <2>1, ActsSession
  <2> QED
    BY <2>1, <2>2, <2>3 DEF IInv, Quiet, OpeningWell, Session
<1>4. CASE ~Session /\ Opening
  <2>1. Quiet' /\ Shapes' /\ OpeningWell'
    BY <1>4, OpeningKeepsQuiet, OpeningKeepsShapes, OpeningKeepsWell DEF IInv
  <2>2. CASE Opened
    BY <2>1, <2>2, OpenedBegins DEF IInv
  <2>3. CASE ~Opened
    <3>1. ~Session'
      BY <1>4, <2>3, Zenon DEF Session, Opening, NewDB, NewDBCurrent, Open, Recover, RecoverLogFile, SkipLogFile, LogRead,
         NewLogFile, WriteSnapshot, SetCurrentFile, Fails, Reset
    <3> QED
      BY <2>1, <3>1 DEF IInv
  <2> QED
    BY <2>2, <2>3
<1> QED
  BY <1>1, <1>2, <1>3, <1>4, SessionSteps, QuietSteps DEF IInv

LEMMA IInvImplies ==
  ASSUME IInv
  PROVE  WaitersWoken /\ FilesExist /\ SequencesUnique
<1>1. WaitersWoken
  <2>1. CASE Session
    <3>1. /\ queue \in Seq(Clients) /\ InLine /\ Woken /\ op \in [Clients -> OpType]
      BY <2>1 DEF IInv, SessionWell, Types
    <3>2. queue # <<>> => Head(queue) \in Clients /\ Head(queue) = queue[1]
      BY <3>1
    <3> QED
      BY <3>1, <3>2 DEF WaitersWoken, InLine, Woken
  <2>2. CASE ~Session
    BY <2>2 DEF IInv, Quiet, WaitersWoken, Idle
  <2> QED
    BY <2>1, <2>2
<1>2. FilesExist
  BY DEF IInv, SessionWell, FilesThere, FilesExist, Session
<1>3. SequencesUnique
  BY DEF IInv, SessionWell, Numbered, SequencesUnique, Session
<1> QED
  BY <1>1, <1>2, <1>3

-----------------------------------------------------------------------------
(***************************************************************************)
(* Least and greatest numbers of a set.                                    *)
(***************************************************************************)
\* Of finitely many elements, any family of sets has a smallest one.
LEMMA SmallestSet ==
  ASSUME NEW S, IsFiniteSet(S), NEW J, J \subseteq SUBSET S, J # {}
  PROVE  \E I \in J : \A K \in J : ~ (<<K, I>> \in StrictSubsetOrdering(S))
<1> DEFINE R == StrictSubsetOrdering(S)
<1>1. IsWellFoundedOn(R, SUBSET S)
  BY FS_StrictSubsetOrderingWellFounded, FS_FiniteSubsetsOfFinite
<1> HIDE DEF R
<1>2. \E I \in J : \A K \in J : ~ (<<K, I>> \in R)
  BY <1>1, WFMin
<1> QED
  BY <1>2 DEF R

\* A set of numbers that is not empty has a smallest one.
LEMMA LeastNat ==
  ASSUME NEW T \in SUBSET Nat, T # {}
  PROVE  \E n \in T : \A m \in T : n <= m
<1>1. PICK t \in T : TRUE
  OBVIOUS
<1> DEFINE S == 0 .. t
           J == {0 .. m - 1 : m \in {k \in T : k <= t}}
<1>2. J \subseteq SUBSET S /\ J # {}
  <2>1. \A m \in T : m <= t => 0 .. m - 1 \subseteq S
    OBVIOUS
  <2> QED
    BY <2>1
<1>3. IsFiniteSet(S)
  BY FS_Interval
<1>4. PICK I \in J : \A K \in J : ~ (<<K, I>> \in StrictSubsetOrdering(S))
  <2> HIDE DEF S, J
  <2> QED
    BY <1>2, <1>3, SmallestSet
<1>5. PICK n \in T : n <= t /\ I = 0 .. n - 1
  OBVIOUS
<1>6. ASSUME NEW m \in T, m < n
      PROVE  FALSE
  <2>1. 0 .. m - 1 \in J
    BY <1>5, <1>6
  <2>2. <<0 .. m - 1, I>> \in StrictSubsetOrdering(S)
    BY <1>2, <1>5, <1>6, <2>1 DEF StrictSubsetOrdering
  <2> QED
    BY <2>1, <2>2, <1>4
<1> QED
  BY <1>6

\* Induction: a set that has 0, and with each number the next.
LEMMA NatSet ==
  ASSUME NEW S, 0 \in S, \A n \in Nat : n \in S => n + 1 \in S
  PROVE  Nat \subseteq S
<1> SUFFICES ASSUME Nat \ S # {}
             PROVE  FALSE
  OBVIOUS
<1>1. PICK n \in Nat \ S : \A m \in Nat \ S : n <= m
  <2> DEFINE T == Nat \ S
  <2> HIDE DEF T
  <2> QED
    BY LeastNat DEF T
<1>2. n - 1 \in Nat /\ n - 1 \in S
  BY <1>1
<1> QED
  BY <1>1, <1>2

\* What Max finds, in a finite one.
LEMMA MaxIs ==
  ASSUME NEW T \in SUBSET Nat, T # {}, IsFiniteSet(T)
  PROVE  Max(T) \in T /\ \A t \in T : t <= Max(T)
<1> DEFINE J == {{u \in T : u > t} : t \in T}
<1>1. J \subseteq SUBSET T /\ J # {}
  OBVIOUS
<1>2. PICK I \in J : \A K \in J : ~ (<<K, I>> \in StrictSubsetOrdering(T))
  <2> HIDE DEF J
  <2> QED
    BY <1>1, SmallestSet
<1>3. PICK n \in T : I = {u \in T : u > n}
  OBVIOUS
<1>4. ASSUME NEW m \in T, m > n
      PROVE  FALSE
  <2> DEFINE K == {u \in T : u > m}
  <2>1. K \in J
    OBVIOUS
  <2>2. <<K, I>> \in StrictSubsetOrdering(T)
    <3> HIDE DEF J
    <3>1. \A u \in T : u > m => u > n
      BY <1>4
    <3>2. K \subseteq I
      BY <1>3, <3>1
    <3>3. m \in I /\ m \notin K /\ K \subseteq T /\ I \subseteq T
      BY <1>3, <1>4
    <3> QED
      BY <3>2, <3>3 DEF StrictSubsetOrdering
  <2> QED
    BY <2>1, <2>2, <1>2
<1>5. \E x \in T : \A y \in T : x >= y
  BY <1>4
<1> QED
  BY <1>5, Zenon DEF Max

\* ... or in one that a number bounds.
LEMMA MaxBounded ==
  ASSUME NEW T \in SUBSET Nat, T # {}, NEW b \in Nat, \A t \in T : t <= b
  PROVE  Max(T) \in T /\ \A t \in T : t <= Max(T)
  BY FS_BoundedSetOfNaturals, MaxIs

-----------------------------------------------------------------------------
(***************************************************************************)
(* Loops.                                                                  *)
(***************************************************************************)

\* What a turn of Builder::Apply's, RecoverLogFile's or AddRecord's loop makes of
\* its state.
Turn(loop, at, w, x) ==
    IF loop = "apply" THEN Apply(w, x)
    ELSE IF loop = "insert" THEN InsertRecord(w, x)
    ELSE IF w.begin \/ w.from < at.len THEN EmitPhysicalRecord(w, at.rec, at.len) ELSE w

\* The loop, on each of the subsequences that a fold is defined by.
Loop(loop, at, base, seq, n, R) ==
    R = [s \in SUBSET (1 .. n) |->
            IF s = {} THEN base ELSE Turn(loop, at, R[s \ {Max(s)}], seq[Max(s)])]

\* A fold is a recursive function too.
LEMMA LoopRuns ==
  ASSUME NEW loop, NEW at, NEW base, NEW seq, NEW n \in Nat
  PROVE  \E R : Loop(loop, at, base, seq, n, R)
<1> DEFINE S == {m \in Nat : \E R : Loop(loop, at, base, seq, m, R)}
<1>1. 0 \in S
  <2> DEFINE R == [s \in SUBSET (1 .. 0) |-> base]
  <2>1. \A s \in SUBSET (1 .. 0) : s = {}
    OBVIOUS
  <2>2. R = [s \in SUBSET (1 .. 0) |->
            IF s = {} THEN base ELSE Turn(loop, at, R[s \ {Max(s)}], seq[Max(s)])]
    BY <2>1
  <2> HIDE DEF R
  <2> QED
    BY <2>2 DEF Loop
<1>2. ASSUME NEW m \in Nat, m \in S
      PROVE  m + 1 \in S
  <2>1. PICK R : Loop(loop, at, base, seq, m, R)
    BY <1>2
  <2>2. R = [s \in SUBSET (1 .. m) |->
               IF s = {} THEN base ELSE Turn(loop, at, R[s \ {Max(s)}], seq[Max(s)])]
    BY <2>1 DEF Loop
  <2> DEFINE Q == [s \in SUBSET (1 .. m + 1) |->
                     IF m + 1 \in s THEN Turn(loop, at, R[s \ {m + 1}], seq[m + 1]) ELSE R[s]]
  <2>3. ASSUME NEW s \in SUBSET (1 .. m + 1)
        PROVE  Q[s] = IF s = {} THEN base ELSE Turn(loop, at, Q[s \ {Max(s)}], seq[Max(s)])
    <3>1. CASE s = {}
      <4>1. Q[s] = R[{}] /\ {} \in SUBSET (1 .. m)
        BY <3>1
      <4> HIDE DEF Q
      <4> QED
        BY <4>1, <2>2, <3>1
    <3>2. CASE s # {}
      <4>1. Max(s) \in s /\ \A t \in s : t <= Max(s)
        <5>1. m + 1 \in Nat /\ s \in SUBSET Nat /\ \A t \in s : t <= m + 1
          OBVIOUS
        <5> QED
          BY <5>1, <3>2, MaxBounded
      <4> DEFINE x == Max(s)
      <4> HIDE DEF x
      <4>2. x \in s /\ x \in 1 .. m + 1 /\ \A t \in s : t <= x
        BY <4>1 DEF x
      <4>3. s \ {x} \in SUBSET (1 .. m)
        <5>1. \A t \in s \ {x} : t \in 1 .. m + 1 /\ t <= x /\ t # x
          BY <4>2
        <5> QED
          BY <5>1, <4>2
      <4>4. Q[s \ {x}] = R[s \ {x}]
        <5>1. m + 1 \notin s \ {x} /\ s \ {x} \in SUBSET (1 .. m + 1)
          BY <4>3
        <5> QED
          BY <5>1
      <4>5. CASE m + 1 \in s
        <5>1. x = m + 1
          BY <4>5, <4>2
        <5>2. Q[s] = Turn(loop, at, R[s \ {x}], seq[x])
          BY <4>5, <5>1
        <5> HIDE DEF Q
        <5> QED
          BY <5>2, <4>4, <3>2 DEF x
      <4>6. CASE m + 1 \notin s
        <5>1. s \in SUBSET (1 .. m)
          BY <4>6
        <5>2. R[s] = Turn(loop, at, R[s \ {x}], seq[x])
          BY <5>1, <2>2, <3>2 DEF x
        <5>3. Q[s] = R[s]
          BY <4>6
        <5> HIDE DEF Q
        <5> QED
          BY <5>2, <5>3, <4>4, <3>2 DEF x
      <4> QED
        BY <4>5, <4>6
    <3> QED
      BY <3>1, <3>2
  <2>4. Q = [s \in SUBSET (1 .. m + 1) |-> Q[s]]
    OBVIOUS
  <2> HIDE DEF Q
  <2>5. Q = [s \in SUBSET (1 .. m + 1) |->
              IF s = {} THEN base ELSE Turn(loop, at, Q[s \ {Max(s)}], seq[Max(s)])]
    BY <2>3, <2>4
  <2>6. Loop(loop, at, base, seq, m + 1, Q)
    BY <2>5, Zenon DEF Loop
  <2> QED
    BY <2>6
<1>3. Nat \subseteq S
  <2> HIDE DEF S
  <2> QED
    BY <1>1, <1>2, NatSet
<1> QED
  BY <1>3

\* One turn after the other.
Ran(loop, at, base, seq, n, run) ==
    /\ run[0] = base
    /\ \A i \in 1 .. n : run[i] = Turn(loop, at, run[i - 1], seq[i])

LEMMA LoopTurns ==
  ASSUME NEW loop, NEW at, NEW base, NEW seq, NEW n \in Nat, NEW R,
         Loop(loop, at, base, seq, n, R)
  PROVE  \E run : Ran(loop, at, base, seq, n, run) /\ run[n] = R[1 .. n]
<1> DEFINE run == [i \in 0 .. n |-> R[1 .. i]]
<1>4. R = [s \in SUBSET (1 .. n) |->
             IF s = {} THEN base ELSE Turn(loop, at, R[s \ {Max(s)}], seq[Max(s)])]
  BY DEF Loop
<1>5. run[0] = base
  <2>1. 1 .. 0 = {} /\ 0 \in 0 .. n
    OBVIOUS
  <2>2. R[{}] = base
    BY <1>4
  <2> QED
    BY <2>1, <2>2
<1>6. ASSUME NEW i \in 1 .. n
      PROVE  run[i] = Turn(loop, at, run[i - 1], seq[i])
  <2>1. 1 .. i \in SUBSET (1 .. n) /\ 1 .. i # {} /\ i \in 0 .. n /\ i - 1 \in 0 .. n
    <3>1. i \in 1 .. i /\ \A t \in 1 .. i : t \in 1 .. n
      OBVIOUS
    <3>2. i \in Nat /\ i - 1 \in Nat /\ i <= n
      OBVIOUS
    <3>3. i \in 0 .. n /\ i - 1 \in 0 .. n
      BY <3>2
    <3> QED
      BY <3>1, <3>3
  <2>2. Max(1 .. i) = i
    <3>1. 1 .. i \in SUBSET Nat /\ i \in Nat /\ i \in 1 .. i /\ \A t \in 1 .. i : t <= i
      OBVIOUS
    <3>2. Max(1 .. i) \in 1 .. i /\ i <= Max(1 .. i)
      BY <3>1, MaxBounded
    <3> QED
      BY <3>2
  <2>3. (1 .. i) \ {i} = 1 .. i - 1
    OBVIOUS
  <2>4. R[1 .. i] = Turn(loop, at, R[(1 .. i) \ {Max(1 .. i)}], seq[Max(1 .. i)])
    BY <2>1, <1>4
  <2>5. run[i] = R[1 .. i] /\ run[i - 1] = R[1 .. i - 1]
    BY <2>1
  <2> QED
    BY <2>2, <2>3, <2>4, <2>5
<1>7. run[n] = R[1 .. n]
  OBVIOUS
<1> HIDE DEF run
<1> QED
  BY <1>5, <1>6, <1>7 DEF Ran
LEMMA ApplyRuns ==
  ASSUME NEW h, NEW n \in Nat, DOMAIN h = 1 .. n
  PROVE  \E run : /\ Ran("apply", 0, NoFiles, h, n, run)
                  /\ FoldLeft(Apply, NoFiles, h) = run[n]
<1> DEFINE base == NoFiles
<1>2. \E R : /\ R = CHOOSE Q : Q = [s \in SUBSET (DOMAIN h) |->
                        IF s = {} THEN base ELSE Apply(Q[s \ {Max(s)}], h[Max(s)])]
             /\ FoldLeft(Apply, NoFiles, h) = R[DOMAIN h]
  BY Zenon DEF FoldLeft, MapThenFoldSet
<1> HIDE DEF base
<1>3. \A w, x : Turn("apply", 0, w, x) = Apply(w, x)
  BY Zenon DEF Turn
<1> DEFINE G(Q) == [s \in SUBSET (1 .. n) |->
                        IF s = {} THEN base ELSE Apply(Q[s \ {Max(s)}], h[Max(s)])]
           T(Q) == [s \in SUBSET (1 .. n) |->
                        IF s = {} THEN base ELSE Turn("apply", 0, Q[s \ {Max(s)}], h[Max(s)])]
<1>4. ASSUME NEW Q
      PROVE  G(Q) = T(Q)
  BY <1>3
<1>5. PICK R : R = (CHOOSE Q : Q = G(Q)) /\ FoldLeft(Apply, NoFiles, h) = R[1 .. n]
  BY <1>2
<1>6. PICK Q : Q = T(Q)
  <2>1. \E Q : Loop("apply", 0, base, h, n, Q)
    BY LoopRuns
  <2> QED
    BY <2>1, Zenon DEF Loop
<1>7. R = T(R)
  <2> HIDE DEF G, T
  <2>1. Q = G(Q)
    BY <1>4, <1>6
  <2>2. R = G(R)
    BY <2>1, <1>5, Zenon
  <2> QED
    BY <2>2, <1>4
<1>8. Loop("apply", 0, base, h, n, R)
  BY <1>7, Zenon DEF Loop
<1> HIDE DEF T, G
<1>9. \E run : Ran("apply", 0, base, h, n, run) /\ run[n] = R[1 .. n]
  BY <1>8, LoopTurns
<1> QED
  BY <1>5, <1>9 DEF base

LEMMA InsertRuns ==
  ASSUME NEW b, NEW h, NEW n \in Nat, DOMAIN h = 1 .. n
  PROVE  \E run : /\ Ran("insert", 0, b, h, n, run)
                  /\ FoldLeft(InsertRecord, b, h) = run[n]
<1> DEFINE base == b
<1>2. \E R : /\ R = CHOOSE Q : Q = [s \in SUBSET (DOMAIN h) |->
                        IF s = {} THEN base ELSE InsertRecord(Q[s \ {Max(s)}], h[Max(s)])]
             /\ FoldLeft(InsertRecord, b, h) = R[DOMAIN h]
  BY Zenon DEF FoldLeft, MapThenFoldSet
<1> HIDE DEF base
<1>3. \A w, x : Turn("insert", 0, w, x) = InsertRecord(w, x)
  BY Zenon DEF Turn
<1> DEFINE G(Q) == [s \in SUBSET (1 .. n) |->
                        IF s = {} THEN base ELSE InsertRecord(Q[s \ {Max(s)}], h[Max(s)])]
           T(Q) == [s \in SUBSET (1 .. n) |->
                        IF s = {} THEN base ELSE Turn("insert", 0, Q[s \ {Max(s)}], h[Max(s)])]
<1>4. ASSUME NEW Q
      PROVE  G(Q) = T(Q)
  BY <1>3
<1>5. PICK R : R = (CHOOSE Q : Q = G(Q)) /\ FoldLeft(InsertRecord, b, h) = R[1 .. n]
  BY <1>2
<1>6. PICK Q : Q = T(Q)
  <2>1. \E Q : Loop("insert", 0, base, h, n, Q)
    BY LoopRuns
  <2> QED
    BY <2>1, Zenon DEF Loop
<1>7. R = T(R)
  <2> HIDE DEF G, T
  <2>1. Q = G(Q)
    BY <1>4, <1>6
  <2>2. R = G(R)
    BY <2>1, <1>5, Zenon
  <2> QED
    BY <2>2, <1>4
<1>8. Loop("insert", 0, base, h, n, R)
  BY <1>7, Zenon DEF Loop
<1> HIDE DEF T, G
<1>9. \E run : Ran("insert", 0, base, h, n, run) /\ run[n] = R[1 .. n]
  BY <1>8, LoopTurns
<1> QED
  BY <1>5, <1>9 DEF base

LEMMA WriteRuns ==
  ASSUME NEW cells, NEW off, NEW rec, NEW len, NEW n \in Nat
  PROVE  \E run : /\ Ran("write", [rec |-> rec, len |-> len],
                         [cells |-> cells, off |-> off, from |-> 0, begin |-> TRUE],
                         [i \in 1 .. n |-> i], n, run)
                  /\ Turns(cells, off, rec, len, n) = run[n]
<1> DEFINE base == [cells |-> cells, off |-> off, from |-> 0, begin |-> TRUE]
           h    == [i \in 1 .. n |-> i]
           at   == [rec |-> rec, len |-> len]
<1>2. \E R : /\ R = CHOOSE Q : Q = [s \in SUBSET (DOMAIN h) |->
                        IF s = {} THEN base
                        ELSE IF Q[s \ {Max(s)}].begin \/ Q[s \ {Max(s)}].from < len
                             THEN EmitPhysicalRecord(Q[s \ {Max(s)}], rec, len)
                             ELSE Q[s \ {Max(s)}]]
             /\ Turns(cells, off, rec, len, n) = R[DOMAIN h]
  BY Zenon DEF Turns, FoldLeft, MapThenFoldSet
<1>1. DOMAIN h = 1 .. n /\ at.rec = rec /\ at.len = len
  OBVIOUS
<1> HIDE DEF base, h, at
<1>3. \A w, x : Turn("write", at, w, x)
                  = IF w.begin \/ w.from < len THEN EmitPhysicalRecord(w, rec, len) ELSE w
  BY <1>1, Zenon DEF Turn
<1> DEFINE G(Q) == [s \in SUBSET (1 .. n) |->
                        IF s = {} THEN base
                        ELSE IF Q[s \ {Max(s)}].begin \/ Q[s \ {Max(s)}].from < len
                             THEN EmitPhysicalRecord(Q[s \ {Max(s)}], rec, len)
                             ELSE Q[s \ {Max(s)}]]
           T(Q) == [s \in SUBSET (1 .. n) |->
                        IF s = {} THEN base ELSE Turn("write", at, Q[s \ {Max(s)}], h[Max(s)])]
<1>4. ASSUME NEW Q
      PROVE  G(Q) = T(Q)
  BY <1>3
<1>5. PICK R : R = (CHOOSE Q : Q = G(Q)) /\ Turns(cells, off, rec, len, n) = R[1 .. n]
  BY <1>1, <1>2
<1>6. PICK Q : Q = T(Q)
  <2>1. \E Q : Loop("write", at, base, h, n, Q)
    BY LoopRuns
  <2> QED
    BY <2>1, Zenon DEF Loop
<1>7. R = T(R)
  <2> HIDE DEF G, T
  <2>1. Q = G(Q)
    BY <1>4, <1>6
  <2>2. R = G(R)
    BY <2>1, <1>5, Zenon
  <2> QED
    BY <2>2, <1>4
<1>8. Loop("write", at, base, h, n, R)
  BY <1>7, Zenon DEF Loop
<1> HIDE DEF T, G
<1>9. \E run : Ran("write", at, base, h, n, run) /\ run[n] = R[1 .. n]
  BY <1>8, LoopTurns
<1> QED
  BY <1>5, <1>9 DEF base, at, h

\* log::Reader goes through a file fragment by fragment.
ReadBegins == [pos |-> 0, in |-> FALSE, scratch |-> <<>>, found |-> <<>>]

Reads(file, n, run) ==
    run = [i \in 0 .. n |-> IF i = 0 THEN ReadBegins ELSE ReadFragment(file, run[i - 1])]

LEMMA ReadRuns ==
  ASSUME NEW file, NEW n \in Nat
  PROVE  \E run : Reads(file, n, run)
<1> DEFINE S == {m \in Nat : \E run : Reads(file, m, run)}
<1>1. 0 \in S
  <2> DEFINE R == [i \in 0 .. 0 |-> ReadBegins]
  <2>1. R = [i \in 0 .. 0 |-> IF i = 0 THEN ReadBegins ELSE ReadFragment(file, R[i - 1])]
    OBVIOUS
  <2> HIDE DEF R
  <2> QED
    BY <2>1 DEF Reads
<1>2. ASSUME NEW m \in Nat, m \in S
      PROVE  m + 1 \in S
  <2>1. PICK R : Reads(file, m, R)
    BY <1>2
  <2> DEFINE Q == [i \in 0 .. m + 1 |-> IF i = m + 1 THEN ReadFragment(file, R[m]) ELSE R[i]]
  <2>2. ASSUME NEW i \in 0 .. m + 1
        PROVE  Q[i] = IF i = 0 THEN ReadBegins ELSE ReadFragment(file, Q[i - 1])
    <3>1. R = [k \in 0 .. m |-> IF k = 0 THEN ReadBegins ELSE ReadFragment(file, R[k - 1])]
      BY <2>1 DEF Reads
    <3>2. CASE i = m + 1
      <4>1. Q[i] = ReadFragment(file, R[m]) /\ i - 1 = m /\ m \in 0 .. m + 1 /\ m # m + 1 /\ i # 0
        BY <3>2
      <4>2. Q[m] = R[m]
        BY <4>1
      <4> HIDE DEF Q
      <4> QED
        BY <4>1, <4>2
    <3>3. CASE i # m + 1 /\ i # 0
      <4>1. Q[i] = R[i] /\ i \in 0 .. m /\ i - 1 \in 0 .. m + 1 /\ i - 1 # m + 1
        BY <3>3
      <4>2. Q[i - 1] = R[i - 1]
        BY <4>1
      <4> HIDE DEF Q
      <4>3. R[i] = ReadFragment(file, R[i - 1])
        BY <3>1, <3>3, <4>1
      <4> QED
        BY <4>1, <4>2, <4>3, <3>3
    <3>4. CASE i = 0
      <4>1. Q[i] = R[i] /\ i \in 0 .. m
        BY <3>4
      <4> HIDE DEF Q
      <4> QED
        BY <4>1, <3>1, <3>4
    <3> QED
      BY <3>2, <3>3, <3>4
  <2>3. Q = [i \in 0 .. m + 1 |-> Q[i]]
    OBVIOUS
  <2> HIDE DEF Q
  <2>4. Q = [i \in 0 .. m + 1 |-> IF i = 0 THEN ReadBegins ELSE ReadFragment(file, Q[i - 1])]
    BY <2>2, <2>3
  <2>5. Reads(file, m + 1, Q)
    BY <2>4, Zenon DEF Reads
  <2> QED
    BY <2>5
<1>3. Nat \subseteq S
  <2> HIDE DEF S
  <2> QED
    BY <1>1, <1>2, NatSet
<1> QED
  BY <1>3

LEMMA RecordsRead ==
  ASSUME NEW file, Len(file) \in Nat
  PROVE  \E run : Reads(file, Len(file), run) /\ Records(file) = run[Len(file)].found
<1>1. PICK R : Reads(file, Len(file), R)
  BY ReadRuns
<1> DEFINE G(Q) == [i \in 0 .. Len(file) |->
                      IF i = 0 THEN ReadBegins ELSE ReadFragment(file, Q[i - 1])]
           C == CHOOSE Q : Q = G(Q)
<1>2. Records(file) = C[Len(file)].found
  BY Zenon DEF Records, ReadBegins
<1>3. R = G(R)
  BY <1>1, Zenon DEF Reads
<1>4. C = G(C)
  <2> HIDE DEF G
  <2> QED
    BY <1>3, Zenon
<1>5. Reads(file, Len(file), C)
  BY <1>4, Zenon DEF Reads
<1> HIDE DEF C
<1> QED
  BY <1>2, <1>5

-----------------------------------------------------------------------------
(***************************************************************************)
(* The log: what is written to it, and what can be read.                   *)
(***************************************************************************)

\* The entries of a sequence of cells.
LEMMA WrittenIs ==
  ASSUME NEW s \in Seq(Cell)
  PROVE  /\ Len(s) \in Nat /\ DOMAIN s = 1 .. Len(s)
         /\ \A e : e \in Written(s) <=> \E i \in 1 .. Len(s) :
               s[i].part = "data" /\ e = <<s[i].rec[1] + s[i].at - 1, s[i].rec[s[i].at + 1]>>
<1>1. Len(s) \in Nat /\ DOMAIN s = 1 .. Len(s)
  OBVIOUS
<1>2. Range(s) = {s[i] : i \in 1 .. Len(s)}
  BY <1>1 DEF Range
<1> QED
  BY <1>1, <1>2, Zenon DEF Written

LEMMA CellsJoined ==
  ASSUME NEW s \in Seq(Cell), NEW t \in Seq(Cell)
  PROVE  s \o t \in Seq(Cell) /\ Written(s \o t) \subseteq Written(s) \cup Written(t)
<1>1. s \o t \in Seq(Cell) /\ Len(s \o t) = Len(s) + Len(t)
  OBVIOUS
<1>2. SUFFICES ASSUME NEW e \in Written(s \o t)
               PROVE  e \in Written(s) \cup Written(t)
  BY <1>1
<1> DEFINE u == s \o t
<1>3. PICK i \in 1 .. Len(u) :
         u[i].part = "data" /\ e = <<u[i].rec[1] + u[i].at - 1, u[i].rec[u[i].at + 1]>>
  BY <1>1, WrittenIs
<1>4. \/ i \in 1 .. Len(s) /\ u[i] = s[i]
      \/ i - Len(s) \in 1 .. Len(t) /\ u[i] = t[i - Len(s)]
  BY <1>1
<1> HIDE DEF u
<1> QED
  BY <1>3, <1>4, WrittenIs

LEMMA CellsCut ==
  ASSUME NEW s \in Seq(Cell), NEW n \in 0 .. Len(s)
  PROVE  SubSeq(s, 1, n) \in Seq(Cell) /\ Written(SubSeq(s, 1, n)) \subseteq Written(s)
<1> DEFINE u == SubSeq(s, 1, n)
<1>1. u \in Seq(Cell) /\ Len(u) = n /\ \A i \in 1 .. n : u[i] = s[i]
  OBVIOUS
<1>2. \A i \in 1 .. n : i \in 1 .. Len(s)
  OBVIOUS
<1> HIDE DEF u
<1>3. Written(u) \subseteq Written(s)
  <2> SUFFICES ASSUME NEW e \in Written(u)
               PROVE  e \in Written(s)
    OBVIOUS
  <2>1. PICK i \in 1 .. Len(u) :
           u[i].part = "data" /\ e = <<u[i].rec[1] + u[i].at - 1, u[i].rec[u[i].at + 1]>>
    BY <1>1, WrittenIs
  <2> QED
    BY <2>1, <1>1, <1>2, WrittenIs
<1> QED
  BY <1>1, <1>3 DEF u

\* Where AddRecord's loop has got to with a record, whose data has length len.
Writing(st, rec, len, old) ==
    /\ st.cells \in Seq(Cell) /\ st.off \in 0 .. BlockSize /\ st.from \in 0 .. len
    /\ Written(st.cells) \subseteq old \cup Entries(rec)

IsRecord(rec, len) == rec \in Seq(Nat) /\ len \in Nat /\ Len(rec) = len + 1 /\ rec[1] # 0

LEMMA FragmentWritten ==
  ASSUME NEW st, NEW rec, NEW len, NEW old, IsRecord(rec, len), Writing(st, rec, len, old)
  PROVE  Writing(EmitPhysicalRecord(st, rec, len), rec, len, old)
<1> DEFINE leftover == BlockSize - st.off
           trailer  == IF leftover < HeaderSize THEN leftover ELSE 0
           off      == IF leftover < HeaderSize THEN 0 ELSE st.off
           n        == LesserOf(len - st.from, BlockSize - off - HeaderSize)
           type     == FragmentType(st.begin, st.from + n = len)
           zeros    == [i \in 1 .. trailer |-> Zero]
           header   == Header(type, rec, st.from, n)
           data     == Data(rec, st.from, n)
           w        == EmitPhysicalRecord(st, rec, len)
<1>1. /\ st.cells \in Seq(Cell) /\ st.off \in 0 .. BlockSize /\ st.from \in 0 .. len
      /\ Written(st.cells) \subseteq old \cup Entries(rec)
      /\ rec \in Seq(Nat) /\ len \in Nat /\ Len(rec) = len + 1 /\ rec[1] # 0
      /\ HeaderSize \in Nat \ {0} /\ BlockSize \in Nat /\ BlockSize > HeaderSize
  BY BlockAssumption DEF Writing, IsRecord
<1>2. /\ w.cells = st.cells \o zeros \o header \o data
      /\ w.off = off + HeaderSize + n /\ w.from = st.from + n
  BY DEF EmitPhysicalRecord
<1>3. trailer \in Nat /\ off \in 0 .. BlockSize - HeaderSize
  BY <1>1
<1>4. n \in 0 .. len - st.from /\ n <= BlockSize - off - HeaderSize
  <2> HIDE DEF off
  <2> QED
    BY <1>1, <1>3 DEF LesserOf
<1>5. type \in {"full", "first", "middle", "last"}
  BY DEF FragmentType
<1> HIDE DEF leftover, trailer, off, n, type
<1>6. Zero \in Cell
  BY DEF Cell, Zeros
<1>7. zeros \in Seq(Cell) /\ Written(zeros) = {}
  <2>1. zeros \in Seq(Cell) /\ Len(zeros) = trailer
    BY <1>3, <1>6
  <2>2. \A i \in 1 .. trailer : zeros[i] = Zero
    OBVIOUS
  <2>3. Zero.part # "data"
    BY DEF Zero
  <2> HIDE DEF zeros
  <2> QED
    BY <2>1, <2>2, <2>3, WrittenIs
<1>8. header \in Seq(Cell) /\ Written(header) = {}
  <2> DEFINE h(i) == [part |-> "header", at |-> i, type |-> type, rec |-> rec,
                      from |-> st.from, len |-> n]
  <2>1. \A i \in 1 .. HeaderSize : h(i) \in Cell /\ h(i).part = "header"
    <3>1. \A i \in 1 .. HeaderSize : h(i) \in HeaderCell
      BY <1>1, <1>4, <1>5 DEF HeaderCell
    <3> QED
      BY <3>1 DEF Cell
  <2>2. header = [i \in 1 .. HeaderSize |-> h(i)]
    BY DEF Header
  <2> HIDE DEF h, header
  <2>3. header \in Seq(Cell) /\ Len(header) = HeaderSize /\ \A i \in 1 .. HeaderSize : header[i] = h(i)
    BY <1>1, <2>1, <2>2
  <2> QED
    BY <2>1, <2>3, WrittenIs
<1>9. data \in Seq(Cell) /\ Written(data) \subseteq Entries(rec)
  <2> DEFINE d(i) == [part |-> "data", rec |-> rec, at |-> st.from + i]
  <2>1. ASSUME NEW i \in 1 .. n
        PROVE  /\ d(i) \in Cell /\ d(i).part = "data"
               /\ <<d(i).rec[1] + d(i).at - 1, d(i).rec[d(i).at + 1]>> \in Entries(rec)
    <3>1. st.from + i \in 1 .. len
      <4>1. n \in Nat /\ n <= len - st.from /\ st.from \in Nat /\ len \in Nat
        BY <1>1, <1>4
      <4>2. i \in Nat /\ 1 <= i /\ i <= n
        BY <4>1
      <4> QED
        BY <4>1, <4>2
    <3>2. d(i) \in DataCell
      <4>1. st.from + i \in Nat /\ st.from + i \in 1 .. Len(rec) - 1
        BY <1>1, <3>1
      <4> QED
        BY <1>1, <4>1 DEF DataCell
    <3>3. st.from + i + 1 \in 2 .. Len(rec) /\ rec[1] \in Nat
      <4>1. Len(rec) = len + 1 /\ len \in Nat /\ st.from \in Nat /\ rec[1] \in Nat
        BY <1>1
      <4>2. i \in Nat
        BY <1>4, <1>1
      <4> QED
        BY <3>1, <4>1, <4>2
    <3>4. <<rec[1] + (st.from + i + 1) - 2, rec[st.from + i + 1]>> \in Entries(rec)
      BY <3>3, Zenon DEF Entries
    <3>5. rec[1] + (st.from + i + 1) - 2 = rec[1] + (st.from + i) - 1
      BY <3>1, <3>3, <1>1
    <3>6. d(i).rec = rec /\ d(i).at = st.from + i /\ d(i).part = "data"
      OBVIOUS
    <3> HIDE DEF d
    <3>7. st.from + i \in Nat
      BY <3>1, <1>1
    <3>8. d(i).at + 1 = st.from + i + 1
      BY <3>6
    <3> QED
      BY <3>2, <3>4, <3>5, <3>6, <3>8 DEF Cell
  <2>2. data = [i \in 1 .. n |-> d(i)]
    BY DEF Data
  <2>3. n \in Nat
    BY <1>4, <1>1
  <2> HIDE DEF d, data
  <2>4. \A i \in 1 .. n : d(i) \in Cell /\ d(i).part = "data"
    BY <2>1, Zenon
  <2>5. data \in Seq(Cell) /\ Len(data) = n /\ \A i \in 1 .. n : data[i] = d(i)
    BY ONLY <2>2, <2>3, <2>4
  <2>6. \A e : e \in Written(data) => \E i \in 1 .. n :
            e = <<d(i).rec[1] + d(i).at - 1, d(i).rec[d(i).at + 1]>>
    <3>1. \A e : e \in Written(data) <=> \E i \in 1 .. Len(data) : data[i].part = "data"
                     /\ e = <<data[i].rec[1] + data[i].at - 1, data[i].rec[data[i].at + 1]>>
      BY <2>5, WrittenIs
    <3> QED
      BY <2>5, <3>1
  <2> QED
    BY <2>1, <2>5, <2>6, Zenon
<1> HIDE DEF zeros, header, data, w
<1>10. w.cells \in Seq(Cell) /\ Written(w.cells) \subseteq old \cup Entries(rec)
  <2>1. st.cells \o zeros \in Seq(Cell) /\ Written(st.cells \o zeros) \subseteq old \cup Entries(rec)
    BY <1>1, <1>7, CellsJoined
  <2>2. /\ st.cells \o zeros \o header \in Seq(Cell)
        /\ Written(st.cells \o zeros \o header) \subseteq old \cup Entries(rec)
    BY <2>1, <1>8, CellsJoined
  <2>3. /\ st.cells \o zeros \o header \o data \in Seq(Cell)
        /\ Written(st.cells \o zeros \o header \o data) \subseteq old \cup Entries(rec)
    BY <2>2, <1>9, CellsJoined
  <2> QED
    BY <1>2, <2>3
<1>11. w.off \in 0 .. BlockSize /\ w.from \in 0 .. len
  BY <1>1, <1>2, <1>3, <1>4, SMTT(30)
<1> QED
  BY <1>10, <1>11 DEF Writing, w

LEMMA TurnsWrite ==
  ASSUME NEW cells \in Seq(Cell), NEW off \in 0 .. BlockSize, NEW rec, NEW len, IsRecord(rec, len),
         NEW k \in Nat
  PROVE  Writing(Turns(cells, off, rec, len, k), rec, len, Written(cells))
<1> DEFINE at   == [rec |-> rec, len |-> len]
           base == [cells |-> cells, off |-> off, from |-> 0, begin |-> TRUE]
           h    == [i \in 1 .. k |-> i]
<1>1. PICK run : Ran("write", at, base, h, k, run) /\ Turns(cells, off, rec, len, k) = run[k]
  BY WriteRuns
<1>2. /\ run[0] = base
      /\ \A i \in 1 .. k : run[i] = run[i - 1]
                           \/ run[i] = EmitPhysicalRecord(run[i - 1], rec, len)
  BY <1>1 DEF Ran, Turn
<1>3. Writing(base, rec, len, Written(cells))
  BY DEF Writing, IsRecord
<1> HIDE DEF base
<1> DEFINE S == {i \in Nat : i <= k => Writing(run[i], rec, len, Written(cells))}
<1>4. 0 \in S
  BY <1>2, <1>3
<1>5. ASSUME NEW i \in Nat, i \in S
      PROVE  i + 1 \in S
  <2>1. CASE i + 1 <= k
    <3>1. i + 1 \in 1 .. k /\ (i + 1) - 1 = i /\ i <= k
      BY <2>1
    <3>2. Writing(run[i], rec, len, Written(cells))
      BY <1>5, <3>1
    <3>3. run[i + 1] = run[i] \/ run[i + 1] = EmitPhysicalRecord(run[i], rec, len)
      BY <1>2, <3>1
    <3>4. Writing(run[i + 1], rec, len, Written(cells))
      BY <3>2, <3>3, FragmentWritten
    <3> QED
      BY <3>4
  <2> QED
    BY <2>1
<1>6. k \in S
  <2> HIDE DEF S
  <2> QED
    BY <1>4, <1>5, NatSet
<1> QED
  BY <1>1, <1>6

\* AddRecord appends nothing but cells of the record, even when it fails.
LEMMA RecordAdded ==
  ASSUME NEW cells \in Seq(Cell), NEW off \in 0 .. BlockSize, NEW rec, NEW len, IsRecord(rec, len),
         NEW w, w = AddRecord(cells, off, rec, len) \/ w \in AddRecordFails(cells, off, rec, len)
  PROVE  /\ w.cells \in Seq(Cell) /\ w.off \in 0 .. BlockSize
         /\ Written(w.cells) \subseteq Written(cells) \cup Entries(rec)
<1>1. len \in Nat
  BY DEF IsRecord
<1>2. CASE w = AddRecord(cells, off, rec, len)
  <2>1. w = Turns(cells, off, rec, len, len + 2)
    BY <1>2 DEF AddRecord
  <2>2. Writing(w, rec, len, Written(cells))
    BY <1>1, <2>1, TurnsWrite
  <2> QED
    BY <2>2 DEF Writing
<1>3. CASE w \in AddRecordFails(cells, off, rec, len)
  <2>1. PICK k \in 0 .. len :
          \E n \in Len(Turns(cells, off, rec, len, k).cells)
                   .. Len(Turns(cells, off, rec, len, k + 1).cells) :
             w = [cells |-> SubSeq(Turns(cells, off, rec, len, k + 1).cells, 1, n),
                  off |-> Turns(cells, off, rec, len, k + 1).off]
    BY <1>3 DEF AddRecordFails
  <2>2. PICK before : before = Turns(cells, off, rec, len, k)
    OBVIOUS
  <2>3. PICK after : after = Turns(cells, off, rec, len, k + 1)
    OBVIOUS
  <2>4. PICK n \in Len(before.cells) .. Len(after.cells) :
           w = [cells |-> SubSeq(after.cells, 1, n), off |-> after.off]
    BY <2>1, <2>2, <2>3
  <2>5. Writing(before, rec, len, Written(cells)) /\ Writing(after, rec, len, Written(cells))
    <3>1. k \in Nat /\ k + 1 \in Nat
      BY <1>1
    <3> QED
      BY <3>1, <2>2, <2>3, TurnsWrite
  <2>6. n \in 0 .. Len(after.cells)
    BY <2>5 DEF Writing
  <2>7. w.cells = SubSeq(after.cells, 1, n) /\ w.off = after.off
    BY <2>4
  <2> QED
    BY <2>5, <2>6, <2>7, CellsCut DEF Writing
<1> QED
  BY <1>2, <1>3

\* The data that a file holds, which is what a reader may find in it.
Taken(file) == {c \in Range(file) : c.part = "data"}

LEMMA TakenWritten ==
  ASSUME NEW file \in Seq(Cell)
  PROVE  /\ \E b \in Nat : \A e \in Written(file) : e[1] \in 1 .. b
         /\ \A data \in Seq(Taken(file)) : EntriesIn(data) \subseteq Written(file)
<1> DEFINE F(c) == <<c.rec[1] + c.at - 1, c.rec[c.at + 1]>>
<1>1. Len(file) \in Nat /\ Range(file) = {file[i] : i \in 1 .. Len(file)} /\ Range(file) \subseteq Cell
  BY DEF Range
<1>2. Taken(file) \subseteq DataCell
  <2>1. \A c \in Cell : c.part = "data" => c \in DataCell
    BY DEF Cell, Zeros, Zero, HeaderCell
  <2> QED
    BY <1>1, <2>1 DEF Taken
<1>3. \A c \in DataCell : F(c)[1] \in Nat /\ F(c)[1] >= 1
  <2> SUFFICES ASSUME NEW c \in DataCell
               PROVE  F(c)[1] \in Nat /\ F(c)[1] >= 1
    OBVIOUS
  <2>1. c.at \in Nat /\ c.rec \in Seq(Nat) /\ c.at \in 1 .. Len(c.rec) - 1 /\ c.rec[1] # 0
    BY DEF DataCell
  <2>2. c.rec[1] \in Nat /\ c.rec[1] >= 1
    BY <2>1
  <2>3. F(c)[1] = c.rec[1] + c.at - 1
    OBVIOUS
  <2>4. c.at \in Nat /\ c.at >= 1
    BY <2>1
  <2> HIDE DEF F
  <2> QED
    BY <2>2, <2>3, <2>4
<1>4. Written(file) = {F(c) : c \in Taken(file)}
  BY DEF Written, Taken
<1> HIDE DEF F
<1> DEFINE B(b, m) == \A i \in 1 .. m : file[i] \in Taken(file) => F(file[i])[1] <= b
           S == {m \in Nat : m <= Len(file) => \E b \in Nat : B(b, m)}
<1>5. 0 \in S
  <2>1. B(0, 0)
    OBVIOUS
  <2> QED
    BY <2>1
<1>6. ASSUME NEW m \in Nat, m \in S
      PROVE  m + 1 \in S
  <2>1. CASE m + 1 <= Len(file)
    <3>1. PICK b \in Nat : B(b, m)
      BY <1>1, <1>6, <2>1
    <3>2. PICK d \in Nat : file[m + 1] \in Taken(file) => F(file[m + 1])[1] <= d
      BY <1>2, <1>3
    <3>3. b + d \in Nat /\ B(b + d, m + 1)
      <4> SUFFICES ASSUME NEW i \in 1 .. m + 1, file[i] \in Taken(file)
                   PROVE  F(file[i])[1] <= b + d
        OBVIOUS
      <4>1. F(file[i])[1] \in Nat
        BY <1>2, <1>3
      <4>2. i \in 1 .. m => F(file[i])[1] <= b
        BY <3>1
      <4> QED
        BY <3>2, <4>1, <4>2
    <3> HIDE DEF B
    <3> QED
      BY <3>3
  <2> QED
    BY <2>1
<1>7. PICK b \in Nat : B(b, Len(file))
  <2>1. Len(file) \in S
    <3> HIDE DEF S
    <3> QED
      BY <1>1, <1>5, <1>6, NatSet
  <2> HIDE DEF B
  <2> QED
    BY <2>1, <1>1
<1>8. ASSUME NEW e \in Written(file)
      PROVE  e[1] \in 1 .. b
  <2>1. PICK c \in Taken(file) : e = F(c)
    BY <1>4
  <2>2. PICK i \in 1 .. Len(file) : c = file[i]
    BY <1>1 DEF Taken
  <2> QED
    BY <2>1, <2>2, <1>2, <1>3, <1>7
<1>9. ASSUME NEW data \in Seq(Taken(file))
      PROVE  EntriesIn(data) \subseteq Written(file)
  <2>1. Range(data) \subseteq Taken(file)
    BY DEF Range
  <2>2. EntriesIn(data) = {F(c) : c \in Range(data)}
    BY DEF EntriesIn, F
  <2> QED
    BY <2>1, <2>2, <1>4
<1> QED
  BY <1>8, <1>9

LEMMA BlockEndIn ==
  ASSUME NEW file, Len(file) \in Nat, NEW pos \in Nat
  PROVE  BlockEnd(file, pos) \in 0 .. Len(file)
<1> DEFINE q == pos \div BlockSize
<1>1. BlockSize \in Nat /\ BlockSize > 0
  BY BlockAssumption
<1>2. q \in Nat
  BY <1>1
<1> HIDE DEF q
<1>3. (q + 1) * BlockSize \in Nat
  BY <1>1, <1>2
<1> QED
  BY <1>3 DEF BlockEnd, LesserOf, q

Reading(file, st) ==
    /\ st.pos \in 0 .. Len(file)
    /\ st.scratch \in Seq(Taken(file)) /\ st.found \in Seq(Seq(Taken(file)))

\* Whatever a fragment's header says, its data is data of the file.
LEMMA FragmentRead ==
  ASSUME NEW file \in Seq(Cell), NEW pos \in 0 .. Len(file), NEW r, r = ReadPhysicalRecord(file, pos)
  PROVE  /\ r.to \in 0 .. Len(file)
         /\ r.type \in {"full", "first", "middle", "last"} => DataAt(file, r.at) \in Seq(Taken(file))
<1> DEFINE left     == BlockEnd(file, pos) - pos
           overlong == HeaderSize + file[pos + 1].len > left
           short    == left < HeaderSize \/ (IsHeader(file, pos) /\ overlong)
           len      == file[pos + 1].len
<1>1. /\ BlockEnd(file, pos) \in 0 .. Len(file) /\ Len(file) \in Nat
      /\ HeaderSize \in Nat \ {0} /\ BlockSize \in Nat
  <2>1. Len(file) \in Nat /\ pos \in Nat
    OBVIOUS
  <2> QED
    BY <2>1, BlockEndIn, BlockAssumption
<1>2. \/ r = [type |-> "eof", at |-> pos, to |-> pos]
      \/ r = [type |-> "skip", at |-> pos, to |-> BlockEnd(file, pos)]
      \/ r = [type |-> "bad", at |-> pos, to |-> BlockEnd(file, pos)]
      \/ /\ r = [type |-> file[pos + 1].type, at |-> pos, to |-> pos + HeaderSize + len]
         /\ ~(left < HeaderSize) /\ ~overlong /\ IsHeader(file, pos) /\ ChecksumOK(file, pos)
  BY Zenon DEF ReadPhysicalRecord
<1>3. CASE r.type \notin {"full", "first", "middle", "last"}
           \/ ~(IsHeader(file, pos) /\ ChecksumOK(file, pos) /\ ~overlong /\ ~(left < HeaderSize))
  <2>1. ~(IsHeader(file, pos) /\ ChecksumOK(file, pos) /\ ~overlong /\ ~(left < HeaderSize))
        => r.to \in 0 .. Len(file) /\ r.type \notin {"full", "first", "middle", "last"}
    <3> HIDE DEF left, overlong
    <3> QED
      BY <1>1, <1>2
  <2>2. ASSUME IsHeader(file, pos), ChecksumOK(file, pos), ~overlong, ~(left < HeaderSize),
               r.type \notin {"full", "first", "middle", "last"}
        PROVE  r.to \in 0 .. Len(file)
    <3>1. file[pos + 1].part = "header" /\ pos + 1 \in 1 .. Len(file)
      <4>1. 1 \in 1 .. HeaderSize
        BY <1>1
      <4>2. file[pos + 1].part = "header"
        BY <2>2, <4>1 DEF IsHeader
      <4> QED
        BY <4>2, <2>2, <1>1
    <3>2. file[pos + 1] \in HeaderCell
      BY <3>1 DEF Cell, Zeros, Zero, DataCell
    <3>3. len \in Nat
      BY <3>2 DEF HeaderCell
    <3> QED
      BY <1>1, <1>2, <2>2, <3>3
  <2> QED
    BY <1>3, <2>1, <2>2
<1>4. CASE /\ r.type \in {"full", "first", "middle", "last"}
           /\ IsHeader(file, pos) /\ ChecksumOK(file, pos) /\ ~overlong /\ ~(left < HeaderSize)
  <2>1. file[pos + 1].part = "header" /\ pos + 1 \in 1 .. Len(file)
    <3>1. 1 \in 1 .. HeaderSize
      BY <1>1
    <3>2. file[pos + 1].part = "header"
      BY <1>4, <3>1 DEF IsHeader
    <3> QED
      BY <3>2, <1>4, <1>1
  <2>2. file[pos + 1] \in HeaderCell
    BY <2>1 DEF Cell, Zeros, Zero, DataCell
  <2>3. len \in Nat
    BY <2>2 DEF HeaderCell
  <2>4. pos + HeaderSize + len <= Len(file) /\ pos \in Nat
    BY <1>1, <1>4, <2>3
  <2>5. r.at = pos /\ r.to \in 0 .. Len(file)
    <3> HIDE DEF left, overlong, len
    <3>1. r.at = pos /\ (r.to = pos \/ r.to = BlockEnd(file, pos) \/ r.to = pos + HeaderSize + len)
      BY <1>2
    <3> QED
      BY <3>1, <1>1, <2>3, <2>4
  <2> DEFINE a == pos + HeaderSize + 1
             b == pos + HeaderSize + len
             d == DataAt(file, pos)
  <2>6. d = SubSeq(file, a, b)
    BY DEF DataAt
  <2>7. a \in Nat /\ a >= 1 /\ b \in Nat /\ b <= Len(file) /\ b - a + 1 = len
    BY <1>1, <2>3, <2>4, SMTT(30)
  <2>8. d = Data(file[pos + 1].rec, file[pos + 1].from, len)
    BY <1>4 DEF ChecksumOK
  <2>9. Len(d) = len /\ \A i \in 1 .. len : d[i].part = "data"
    BY <2>3, <2>8 DEF Data
  <2> HIDE DEF a, b, d, len
  <2>10. \A i \in 1 .. len : d[i] = file[a + i - 1] /\ a + i - 1 \in 1 .. Len(file)
    BY <2>3, <2>6, <2>7
  <2>11. \A i \in 1 .. len : d[i] \in Taken(file)
    <3>1. DOMAIN file = 1 .. Len(file)
      OBVIOUS
    <3> QED
      BY <2>9, <2>10, <3>1 DEF Taken, Range
  <2>12. d = [i \in 1 .. len |-> d[i]]
    BY <2>3, <2>6, <2>7, SMTT(30)
  <2>13. d \in Seq(Taken(file))
    BY ONLY <2>3, <2>11, <2>12
  <2> QED
    BY <2>5, <2>13 DEF d
<1> QED
  BY <1>3, <1>4

LEMMA FragmentTaken ==
  ASSUME NEW file \in Seq(Cell), NEW st, Reading(file, st)
  PROVE  Reading(file, ReadFragment(file, st))
<1> DEFINE r == ReadPhysicalRecord(file, st.pos)
           data == DataAt(file, r.at)
           good == r.type \in {"full", "first", "middle", "last"}
<1>1. r.to \in 0 .. Len(file) /\ (good => data \in Seq(Taken(file)))
  BY FragmentRead DEF Reading
<1>2. \/ ReadFragment(file, st) = st
      \/ /\ ReadFragment(file, st).pos = r.to
         /\ \/ ReadFragment(file, st).scratch \in {st.scratch, <<>>}
            \/ good /\ ReadFragment(file, st).scratch \in {data, st.scratch \o data}
         /\ \/ ReadFragment(file, st).found = st.found
            \/ good /\ ReadFragment(file, st).found = Append(st.found, data)
            \/ good /\ ReadFragment(file, st).found = Append(st.found, st.scratch \o data)
  <2> HIDE DEF r
  <2>1. PICK q : q = ReadPhysicalRecord(file, st.pos)
    OBVIOUS
  <2> HIDE DEF data
  <2>2. PICK d : d = DataAt(file, q.at)
    OBVIOUS
  <2>3. CASE q.type = "eof"
    BY <2>1, <2>3 DEF ReadFragment
  <2>4. CASE q.type = "skip"
    BY <2>1, <2>4 DEF ReadFragment, r
  <2>5. CASE q.type = "full"
    BY <2>1, <2>2, <2>5 DEF ReadFragment, r, data
  <2>6. CASE q.type = "first"
    BY <2>1, <2>2, <2>6 DEF ReadFragment, r, data
  <2>7. CASE q.type = "middle"
    BY <2>1, <2>2, <2>7 DEF ReadFragment, r, data
  <2>8. CASE q.type = "last"
    BY <2>1, <2>2, <2>8 DEF ReadFragment, r, data
  <2>9. CASE q.type \notin {"eof", "skip", "full", "first", "middle", "last"}
    BY <2>1, <2>2, <2>9 DEF ReadFragment, r, data
  <2> QED
    BY <2>3, <2>4, <2>5, <2>6, <2>7, <2>8, <2>9
<1> HIDE DEF r, data
<1>3. PICK T : T = Taken(file)
  OBVIOUS
<1>4. st.scratch \in Seq(T) /\ st.found \in Seq(Seq(T)) /\ (good => data \in Seq(T)) /\ <<>> \in Seq(T)
  BY <1>1, <1>3 DEF Reading
<1>5. good => /\ st.scratch \o data \in Seq(T)
              /\ Append(st.found, data) \in Seq(Seq(T))
              /\ Append(st.found, st.scratch \o data) \in Seq(Seq(T))
  BY <1>4
<1> QED
  BY <1>1, <1>2, <1>3, <1>4, <1>5 DEF Reading

\* So is the data of every record that is read.
LEMMA RecordsTaken ==
  ASSUME NEW file \in Seq(Cell)
  PROVE  Records(file) \in Seq(Seq(Taken(file)))
<1>1. Len(file) \in Nat
  OBVIOUS
<1>2. PICK run : Reads(file, Len(file), run) /\ Records(file) = run[Len(file)].found
  BY <1>1, RecordsRead
<1>3. /\ run[0] = ReadBegins
      /\ \A i \in 1 .. Len(file) : run[i] = ReadFragment(file, run[i - 1])
  <2>1. run = [i \in 0 .. Len(file) |->
                 IF i = 0 THEN ReadBegins ELSE ReadFragment(file, run[i - 1])]
    BY <1>2 DEF Reads
  <2> QED
    BY <1>1, <2>1
<1> DEFINE S == {i \in Nat : i <= Len(file) => Reading(file, run[i])}
<1>4. 0 \in S
  <2>1. Reading(file, ReadBegins)
    BY <1>1 DEF Reading, ReadBegins
  <2> QED
    BY <1>3, <2>1
<1>5. ASSUME NEW i \in Nat, i \in S
      PROVE  i + 1 \in S
  <2>1. CASE i + 1 <= Len(file)
    <3>1. i + 1 \in 1 .. Len(file) /\ (i + 1) - 1 = i /\ i <= Len(file)
      BY <2>1, <1>1
    <3>2. Reading(file, run[i]) /\ run[i + 1] = ReadFragment(file, run[i])
      BY <1>3, <1>5, <3>1
    <3>3. Reading(file, run[i + 1])
      BY <3>2, FragmentTaken
    <3> QED
      BY <3>3
  <2> QED
    BY <2>1
<1>6. Len(file) \in S
  <2> HIDE DEF S
  <2> QED
    BY <1>1, <1>4, <1>5, NatSet
<1> QED
  BY <1>1, <1>2, <1>6 DEF Reading

-----------------------------------------------------------------------------
(***************************************************************************)
(* RecoverLogFile.                                                         *)
(***************************************************************************)

Tabled(st, from, all) ==
    /\ st = [found |-> st.found, next |-> st.next, new |-> st.new]
    /\ st.next \in Nat /\ st.next >= from /\ DOMAIN st.new = from .. st.next - 1
    /\ st.found \subseteq all
    /\ \A k \in DOMAIN st.new : st.new[k] \subseteq all

LEMMA TableMade ==
  ASSUME NEW st, NEW from \in Nat, NEW all, Tabled(st, from, all)
  PROVE  Tabled(ToTable(st), from, all)
<1> DEFINE t == ToTable(st)
<1>1. t.found = {} /\ t.next = st.next + 1 /\ t.new = With(st.new, st.next, st.found)
  BY DEF ToTable
<1>2. /\ DOMAIN t.new = DOMAIN st.new \cup {st.next}
      /\ \A k \in DOMAIN t.new : t.new[k] = IF k = st.next THEN st.found ELSE st.new[k]
  BY <1>1 DEF With
<1>5. t = [found |-> t.found, next |-> t.next, new |-> t.new]
  BY DEF ToTable
<1> HIDE DEF t
<1>3. st.next \in Nat /\ st.next >= from /\ DOMAIN st.new = from .. st.next - 1
  BY DEF Tabled
<1>4. DOMAIN t.new = from .. t.next - 1
  BY <1>1, <1>2, <1>3
<1> QED
  <2>1. st.found \subseteq all /\ \A k \in DOMAIN st.new : st.new[k] \subseteq all
    BY DEF Tabled
  <2>2. \A k \in DOMAIN t.new : t.new[k] \subseteq all
    BY <2>1, <1>2
  <2> QED
    BY <1>1, <1>3, <1>4, <1>5, <2>2 DEF Tabled, t

\* The tables that come of a log have the numbers from next on, and entries that
\* are in the log.
LEMMA TablesFound ==
  ASSUME NEW n, NEW next \in Nat, logs[n].cells \in Seq(Cell)
  PROVE  \E c \in Nat :
            /\ DOMAIN TablesOf(n, next) = next .. next + c - 1
            /\ \A k \in DOMAIN TablesOf(n, next) :
                  TablesOf(n, next)[k] \subseteq Written(logs[n].cells)
<1> DEFINE file == logs[n].cells
           recs == Records(file)
           len  == Len(recs)
           base == [found |-> {}, next |-> next, new |-> <<>>]
           all  == Written(file)
<1>1. recs \in Seq(Seq(Taken(file))) /\ len \in Nat /\ DOMAIN recs = 1 .. len
  BY RecordsTaken
<1>2. \A i \in 1 .. len : EntriesIn(recs[i]) \subseteq all
  BY <1>1, TakenWritten
<1> HIDE DEF recs, base, all
<1>3. PICK run : Ran("insert", 0, base, recs, len, run)
                 /\ FoldLeft(InsertRecord, base, recs) = run[len]
  <2> HIDE DEF len
  <2> QED
    BY <1>1, InsertRuns
<1>4. run[0] = base /\ \A i \in 1 .. len : run[i] = InsertRecord(run[i - 1], recs[i])
  BY <1>3 DEF Ran, Turn
<1> HIDE DEF len, file
<1>5. ASSUME NEW st, NEW data, Tabled(st, next, all), EntriesIn(data) \subseteq all
      PROVE  Tabled(InsertRecord(st, data), next, all)
  <2>1. PICK more : more = [st EXCEPT !.found = @ \cup EntriesIn(data)]
    OBVIOUS
  <2>2. InsertRecord(st, data) \in {more, ToTable(more)}
    BY <2>1, Zenon DEF InsertRecord
  <2>3. /\ more = [found |-> st.found \cup EntriesIn(data), next |-> st.next, new |-> st.new]
    BY <1>5, <2>1 DEF Tabled
  <2>4. Tabled(more, next, all)
    BY <1>5, <2>3 DEF Tabled
  <2> QED
    BY <2>2, <2>4, TableMade
<1>6. Tabled(base, next, all)
  BY DEF Tabled, base
<1> DEFINE S == {i \in Nat : i <= len => Tabled(run[i], next, all)}
<1>7. 0 \in S
  BY <1>4, <1>6
<1>8. ASSUME NEW i \in Nat, i \in S
      PROVE  i + 1 \in S
  <2>1. CASE i + 1 <= len
    <3>1. i + 1 \in 1 .. len /\ (i + 1) - 1 = i /\ i <= len
      BY <2>1, <1>1
    <3>2. Tabled(run[i], next, all) /\ run[i + 1] = InsertRecord(run[i], recs[i + 1])
      BY <1>4, <1>8, <3>1
    <3>3. Tabled(run[i + 1], next, all)
      BY <3>2, <1>2, <3>1, <1>5
    <3> QED
      BY <3>3
  <2> QED
    BY <2>1
<1>9. Tabled(run[len], next, all)
  <2>1. len \in S
    <3> HIDE DEF S
    <3> QED
      BY <1>1, <1>7, <1>8, NatSet
  <2> QED
    BY <2>1, <1>1
<1>10. PICK st : st = run[len]
  OBVIOUS
<1>11. TablesOf(n, next) = IF st.found = {} THEN st.new ELSE ToTable(st).new
  BY <1>3, <1>10, Zenon DEF TablesOf, base, recs, file
<1>12. PICK t : Tabled(t, next, all) /\ TablesOf(n, next) = t.new
  <2>1. Tabled(st, next, all) /\ Tabled(ToTable(st), next, all)
    BY <1>9, <1>10, TableMade
  <2> QED
    BY <2>1, <1>11
<1>13. t.next - next \in Nat /\ next + (t.next - next) - 1 = t.next - 1
  BY <1>12 DEF Tabled
<1> QED
  BY <1>12, <1>13 DEF Tabled, all, file

-----------------------------------------------------------------------------
(***************************************************************************)
(* The versions of a descriptor.                                           *)
(***************************************************************************)

Edits(es) == es \in Seq(DiskEdit)

LEMMA ApplyTyped ==
  ASSUME NEW v \in Versions, NEW e, e.add \in Versions
  PROVE  Apply(v, e) \in Versions /\ FilesOf(Apply(v, e)) \subseteq FilesOf(v) \cup FilesOf(e.add)
  BY DEF Apply, Versions, FilesOf

\* The versions, edit by edit.
LEMMA VersionTurns ==
  ASSUME NEW es \in Seq(DiskEdit)
  PROVE  \E run : /\ run[0] = NoFiles
                  /\ \A i \in 1 .. Len(es) : run[i] = Apply(run[i - 1], es[i])
                  /\ \A j \in 0 .. Len(es) : FoldLeft(Apply, NoFiles, SubSeq(es, 1, j)) = run[j]
<1>1. Len(es) \in Nat /\ DOMAIN es = 1 .. Len(es)
  OBVIOUS
<1>2. PICK run : Ran("apply", 0, NoFiles, es, Len(es), run)
  BY <1>1, ApplyRuns
<1>3. run[0] = NoFiles /\ \A i \in 1 .. Len(es) : run[i] = Apply(run[i - 1], es[i])
  BY <1>2 DEF Ran, Turn
<1>4. ASSUME NEW j \in 0 .. Len(es)
      PROVE  FoldLeft(Apply, NoFiles, SubSeq(es, 1, j)) = run[j]
  <2>1. PICK s : s = SubSeq(es, 1, j)
    OBVIOUS
  <2>2. j \in Nat /\ DOMAIN s = 1 .. j /\ \A i \in 1 .. j : s[i] = es[i] /\ i \in 1 .. Len(es)
    BY <1>1, <2>1
  <2>3. PICK part : Ran("apply", 0, NoFiles, s, j, part) /\ FoldLeft(Apply, NoFiles, s) = part[j]
    BY <2>2, ApplyRuns
  <2>4. part[0] = NoFiles /\ \A i \in 1 .. j : part[i] = Apply(part[i - 1], s[i])
    BY <2>3 DEF Ran, Turn
  <2> DEFINE S == {i \in Nat : i <= j => part[i] = run[i]}
  <2>5. 0 \in S
    BY <1>3, <2>4
  <2>6. ASSUME NEW i \in Nat, i \in S
        PROVE  i + 1 \in S
    <3>1. CASE i + 1 <= j
      <4>1. i + 1 \in 1 .. j /\ (i + 1) - 1 = i /\ i <= j
        BY <3>1, <2>2
      <4>2. part[i] = run[i]
        BY <2>6, <4>1
      <4>3. part[i + 1] = Apply(part[i], es[i + 1]) /\ run[i + 1] = Apply(run[i], es[i + 1])
        BY <1>3, <2>2, <2>4, <4>1
      <4> QED
        BY <4>2, <4>3
    <3> QED
      BY <3>1
  <2>7. j \in S
    <3> HIDE DEF S
    <3> QED
      BY <2>2, <2>5, <2>6, NatSet
  <2> QED
    BY <2>1, <2>2, <2>3, <2>7
<1> QED
  BY <1>3, <1>4

LEMMA VersionIs ==
  ASSUME NEW m, m.edits \in Seq(DiskEdit)
  PROVE  /\ Len(m.edits) \in Nat
         /\ Version(m, 0) = NoFiles
         /\ \A i \in 1 .. Len(m.edits) : Version(m, i) = Apply(Version(m, i - 1), m.edits[i])
         /\ \A j \in 0 .. Len(m.edits) : Version(m, j) \in Versions
<1>1. PICK es : es = m.edits
  OBVIOUS
<1>2. es \in Seq(DiskEdit) /\ Len(es) \in Nat
  BY <1>1
<1>3. PICK run : /\ run[0] = NoFiles
                 /\ \A i \in 1 .. Len(es) : run[i] = Apply(run[i - 1], es[i])
                 /\ \A j \in 0 .. Len(es) : FoldLeft(Apply, NoFiles, SubSeq(es, 1, j)) = run[j]
  BY <1>2, VersionTurns
<1>4. \A j \in 0 .. Len(es) : Version(m, j) = run[j]
  BY <1>1, <1>3 DEF Version
<1>5. \A i \in 1 .. Len(es) : i \in 0 .. Len(es) /\ i - 1 \in 0 .. Len(es)
  BY <1>2
<1>6. /\ Version(m, 0) = NoFiles
      /\ \A i \in 1 .. Len(es) : Version(m, i) = Apply(Version(m, i - 1), es[i])
  BY <1>2, <1>3, <1>4, <1>5
<1> DEFINE S == {i \in Nat : i <= Len(es) => Version(m, i) \in Versions}
<1>7. 0 \in S
  BY <1>6 DEF NoFiles, Versions
<1>8. ASSUME NEW i \in Nat, i \in S
      PROVE  i + 1 \in S
  <2>1. CASE i + 1 <= Len(es)
    <3>1. i + 1 \in 1 .. Len(es) /\ (i + 1) - 1 = i /\ i <= Len(es)
      BY <2>1, <1>2
    <3>2. Version(m, i) \in Versions /\ Version(m, i + 1) = Apply(Version(m, i), es[i + 1])
      BY <1>6, <1>8, <3>1
    <3>3. es[i + 1] \in DiskEdit
      BY <1>2, <3>1
    <3>4. Version(m, i + 1) \in Versions
      BY <3>2, <3>3, ApplyTyped DEF DiskEdit
    <3> QED
      BY <3>4
  <2> QED
    BY <2>1
<1>9. Nat \subseteq S
  <2> HIDE DEF S
  <2> QED
    BY <1>7, <1>8, NatSet
<1> QED
  BY <1>1, <1>2, <1>6, <1>9

\* A version is that of the edits up to it.
LEMMA SameVersion ==
  ASSUME NEW m, NEW k, m.edits \in Seq(DiskEdit), k.edits \in Seq(DiskEdit),
         NEW j \in 0 .. Len(m.edits), j <= Len(k.edits),
         \A i \in 1 .. j : m.edits[i] = k.edits[i]
  PROVE  Version(m, j) = Version(k, j)
<1>1. PICK a : a = m.edits
  OBVIOUS
<1>2. PICK b : b = k.edits
  OBVIOUS
<1>3. a \in Seq(DiskEdit) /\ b \in Seq(DiskEdit) /\ j \in 0 .. Len(a) /\ j <= Len(b)
      /\ \A i \in 1 .. j : a[i] = b[i]
  BY <1>1, <1>2
<1>4. SubSeq(a, 1, j) = SubSeq(b, 1, j)
  <2>1. SubSeq(a, 1, j) = [i \in 1 .. j |-> a[i]] /\ SubSeq(b, 1, j) = [i \in 1 .. j |-> b[i]]
    BY <1>3
  <2> QED
    BY <1>3, <2>1
<1> QED
  BY <1>1, <1>2, <1>4 DEF Version

LEMMA EndsIn ==
  ASSUME NEW m, m \in ManifestType
  PROVE  /\ \A j \in Ends(m) : j \in 1 .. Len(m.edits) /\ m.edits[j] \in DiskEdit
         /\ Len(m.edits) \in Nat /\ m.edits \in Seq(DiskEdit) /\ m.safe \in Nat
  BY DEF Ends, ManifestType

-----------------------------------------------------------------------------
(***************************************************************************)
(* Descriptors that stay well.                                             *)
(***************************************************************************)

\* Fewer entries in the logs, and a disk on which the tables of the descriptor
\* are as before.
LEMMA DescriptorKept ==
  ASSUME NEW m, m \in ManifestType, NEW tb, NEW tc, NEW lg, NEW lh, NEW cur,
         DescriptorWell(m, tb, lg, cur),
         \A j \in Ends(m) : \A n \in FilesOf(Version(m, j)) : n \in DOMAIN tc /\ tc[n] = tb[n],
         \A j \in Ends(m) : Logged(lh, m.edits[j].log) \subseteq Logged(lg, m.edits[j].log)
  PROVE  DescriptorWell(m, tc, lh, cur)
<1>1. ASSUME NEW j \in Ends(m)
      PROVE  EndWell(m, j, tc, lh, cur)
  <2>1. EndWell(m, j, tb, lg, cur)
    BY DEF DescriptorWell
  <2>2. PICK v : v = Version(m, j)
    OBVIOUS
  <2>3. \A n \in FilesOf(v) : n \in DOMAIN tc /\ tc[n] = tb[n]
    BY <2>2
  <2>4. FilesOf(v) \subseteq DOMAIN tb \cap 1 .. m.edits[j].next - 1
    BY <2>1, <2>2 DEF EndWell
  <2>5. Tables(tc, v) = Tables(tb, v)
    <3>1. FilesOf(v) \cap DOMAIN tc = FilesOf(v) \cap DOMAIN tb
      BY <2>3, <2>4
    <3>2. {tc[n] : n \in FilesOf(v) \cap DOMAIN tb} = {tb[n] : n \in FilesOf(v) \cap DOMAIN tb}
      BY <2>3
    <3> QED
      BY <3>1, <3>2, Zenon DEF Tables
  <2>6. Logged(lh, m.edits[j].log) \subseteq Logged(lg, m.edits[j].log)
    OBVIOUS
  <2>7. Unique(Tables(tb, v) \cup Logged(lg, m.edits[j].log))
    BY <2>1, <2>2, Zenon DEF EndWell
  <2>8. Unique(Tables(tc, v) \cup Logged(lh, m.edits[j].log))
    BY <2>5, <2>6, <2>7 DEF Unique
  <2> QED
    BY <2>1, <2>2, <2>3, <2>4, <2>5, <2>8, Zenon DEF EndWell
<1> QED
  BY <1>1 DEF DescriptorWell

\* The cuts of a loss of power.
LEMMA DescriptorCut ==
  ASSUME NEW m, m \in ManifestType, NEW k \in m.safe .. Len(m.edits), NEW c,
         c = [edits |-> SubSeq(m.edits, 1, k), safe |-> k]
  PROVE  /\ c \in ManifestType /\ c.safe <= Len(c.edits) /\ Len(c.edits) = k
         /\ \A i \in 1 .. k : c.edits[i] = m.edits[i]
         /\ Ends(c) \subseteq Ends(m)
         /\ \A j \in Ends(c) : Version(c, j) = Version(m, j) /\ c.edits[j] = m.edits[j]
<1>1. m.edits \in Seq(DiskEdit) /\ Len(m.edits) \in Nat /\ m.safe \in Nat
  BY DEF ManifestType
<1>2. PICK es : es = m.edits
  OBVIOUS
<1>3. k \in Nat /\ k <= Len(es) /\ es \in Seq(DiskEdit)
  BY <1>1, <1>2
<1>4. PICK cs : cs = SubSeq(es, 1, k)
  OBVIOUS
<1>5. cs \in Seq(DiskEdit) /\ Len(cs) = k /\ \A i \in 1 .. k : cs[i] = es[i]
  BY <1>3, <1>4
<1>6. c.edits = cs /\ c.safe = k /\ c = [edits |-> cs, safe |-> k]
  BY <1>2, <1>4
<1>7. c \in ManifestType
  BY <1>3, <1>5, <1>6 DEF ManifestType
<1>8. ASSUME NEW j \in Ends(c)
      PROVE  j \in Ends(m) /\ j \in 1 .. k
  <2>1. j \in 1 .. k /\ Intact(c, j) /\ (j >= k \/ (j + 1 = k /\ cs[k].wrote = "torn"))
    BY <1>5, <1>6 DEF Ends
  <2>2. Intact(m, j)
    <3>1. \A i \in 1 .. j : i \in 1 .. k
      BY <2>1, <1>3
    <3> QED
      BY <2>1, <3>1, <1>2, <1>5, <1>6 DEF Intact
  <2>3. j \in 1 .. Len(m.edits)
    BY <2>1, <1>1, <1>2, <1>3
  <2>4. j >= m.safe \/ (j + 1 = m.safe /\ m.edits[m.safe].wrote = "torn")
    <3>1. CASE k = m.safe /\ j + 1 = k
      <4>1. k \in 1 .. k
        BY <3>1, <2>1, <1>3
      <4> QED
        BY <3>1, <2>1, <1>2, <1>5, <1>3, <4>1
    <3>2. CASE k > m.safe \/ j >= k
      BY <3>2, <2>1, <1>1, <1>3
    <3> QED
      BY <3>1, <3>2, <2>1, <1>1, <1>3
  <2> QED
    BY <2>1, <2>2, <2>3, <2>4 DEF Ends
<1>9. ASSUME NEW j \in Ends(c)
      PROVE  Version(c, j) = Version(m, j) /\ c.edits[j] = m.edits[j]
  <2>1. j \in 1 .. k
    BY <1>8
  <2>2. c.edits \in Seq(DiskEdit) /\ m.edits \in Seq(DiskEdit) /\ j \in 0 .. Len(c.edits)
        /\ j <= Len(m.edits) /\ \A i \in 1 .. j : c.edits[i] = m.edits[i]
    BY <2>1, <1>2, <1>3, <1>5, <1>6
  <2>3. Version(c, j) = Version(m, j)
    BY <2>2, SameVersion
  <2> QED
    BY <2>1, <2>3, <1>2, <1>5, <1>6
<1>10. c.safe <= Len(c.edits) /\ Len(c.edits) = k /\ \A i \in 1 .. k : c.edits[i] = m.edits[i]
  BY <1>2, <1>3, <1>5, <1>6
<1> QED
  BY <1>7, <1>8, <1>9, <1>10

LEMMA EndWellSame ==
  ASSUME NEW m, NEW c, NEW j, Version(c, j) = Version(m, j), c.edits[j] = m.edits[j],
         NEW tb, NEW lg, NEW cur, EndWell(m, j, tb, lg, cur)
  PROVE  EndWell(c, j, tb, lg, cur)
  BY Zenon DEF EndWell

\* An edit more.
LEMMA DescriptorGrows ==
  ASSUME NEW m, m \in ManifestType, m.safe <= Len(m.edits), NEW e \in DiskEdit,
         NEW safe \in {m.safe, Len(m.edits) + 1}, safe = m.safe \/ e.wrote # "torn", NEW g,
         g = [edits |-> Append(m.edits, e), safe |-> safe]
  PROVE  /\ g \in ManifestType /\ g.safe <= Len(g.edits) /\ Len(g.edits) = Len(m.edits) + 1
         /\ \A i \in 1 .. Len(m.edits) : g.edits[i] = m.edits[i]
         /\ g.edits[Len(m.edits) + 1] = e
         /\ \A j \in Ends(g) : \/ j \in Ends(m) /\ j \in 1 .. Len(m.edits) /\ j < Len(m.edits) + 1
                               \/ /\ j = Len(m.edits) + 1 /\ e.wrote # "torn"
                                  /\ Intact(m, Len(m.edits))
         /\ \A j \in 0 .. Len(m.edits) : Version(g, j) = Version(m, j)
         /\ Version(g, Len(m.edits) + 1) = Apply(Version(m, Len(m.edits)), e)
<1>1. m.edits \in Seq(DiskEdit) /\ Len(m.edits) \in Nat /\ m.safe \in Nat
  BY DEF ManifestType
<1>2. PICK es : es = m.edits
  OBVIOUS
<1>3. PICK n : n = Len(es)
  OBVIOUS
<1>4. n \in Nat /\ es \in Seq(DiskEdit) /\ n = Len(es)
  BY <1>1, <1>2, <1>3
<1>5. PICK gs : gs = Append(es, e)
  OBVIOUS
<1>6. gs \in Seq(DiskEdit) /\ Len(gs) = n + 1 /\ gs[n + 1] = e /\ \A i \in 1 .. n : gs[i] = es[i]
  BY <1>4, <1>5
<1>7. g.edits = gs /\ g.safe = safe /\ g = [edits |-> gs, safe |-> safe]
  BY <1>2, <1>5
<1>8. safe \in Nat /\ (safe = m.safe \/ safe = n + 1) /\ m.safe <= n
  BY <1>1, <1>2, <1>3
<1>9. g \in ManifestType
  BY <1>6, <1>7, <1>8 DEF ManifestType
<1>10. ASSUME NEW j \in Ends(g)
       PROVE  \/ j \in Ends(m) /\ j \in 1 .. n /\ j < n + 1
              \/ j = n + 1 /\ e.wrote # "torn" /\ Intact(m, n)
  <2>1. /\ j \in 1 .. n + 1 /\ Intact(g, j)
        /\ j >= safe \/ (j + 1 = safe /\ gs[safe].wrote = "torn")
    BY <1>6, <1>7 DEF Ends
  <2>2. \A i \in 1 .. n : i <= j => es[i].wrote # "torn"
    <3> SUFFICES ASSUME NEW i \in 1 .. n, i <= j
                 PROVE  es[i].wrote # "torn"
      OBVIOUS
    <3>1. i \in 1 .. j
      BY <2>1, <1>4
    <3> QED
      BY <3>1, <2>1, <1>6, <1>7 DEF Intact
  <2>3. CASE j = n + 1
    <3>1. j \in 1 .. j
      BY <2>3, <1>4
    <3>2. e.wrote # "torn"
      BY <2>1, <2>3, <3>1, <1>6, <1>7 DEF Intact
    <3>3. Intact(m, n)
      BY <2>2, <2>3, <1>2, <1>4 DEF Intact
    <3> QED
      BY <2>3, <3>2, <3>3
  <2>4. CASE j # n + 1
    <3>1. j \in 1 .. n /\ j < n + 1
      BY <2>1, <2>4, <1>4
    <3>2. Intact(m, j)
      <4>1. \A i \in 1 .. j : i \in 1 .. n /\ i <= j
        BY <3>1, <1>4
      <4> QED
        BY <4>1, <2>2, <1>2 DEF Intact
    <3>3. j >= m.safe \/ (j + 1 = m.safe /\ m.edits[m.safe].wrote = "torn")
      <4>1. CASE safe = m.safe
        <5>1. CASE j >= safe
          BY <5>1, <4>1
        <5>2. CASE j + 1 = safe /\ gs[safe].wrote = "torn"
          <6>1. safe \in 1 .. n
            BY <5>2, <4>1, <1>8, <1>4, <3>1
          <6> QED
            BY <6>1, <5>2, <4>1, <1>6, <1>2
        <5> QED
          BY <5>1, <5>2, <2>1
      <4>2. CASE safe = n + 1 /\ safe # m.safe
        <5>1. gs[safe].wrote # "torn"
          BY <4>2, <1>6
        <5> QED
          BY <5>1, <2>1, <3>1, <4>2, <1>4
      <4> QED
        BY <4>1, <4>2, <1>8
    <3> QED
      BY <3>1, <3>2, <3>3, <1>2, <1>3 DEF Ends
  <2> QED
    BY <2>3, <2>4
<1>11. ASSUME NEW j \in 0 .. n
       PROVE  Version(g, j) = Version(m, j)
  <2>1. m.edits \in Seq(DiskEdit) /\ g.edits \in Seq(DiskEdit) /\ j \in 0 .. Len(g.edits)
        /\ j <= Len(m.edits) /\ \A i \in 1 .. j : g.edits[i] = m.edits[i]
    BY <1>2, <1>4, <1>6, <1>7
  <2> QED
    BY <2>1, SameVersion
<1>12. Version(g, n + 1) = Apply(Version(m, n), e)
  <2>1. n + 1 \in 1 .. Len(g.edits) /\ n + 1 - 1 = n /\ n \in 0 .. n
    BY <1>4, <1>6, <1>7
  <2>2. Version(g, n + 1) = Apply(Version(g, n + 1 - 1), g.edits[n + 1])
    <3>1. g.edits \in Seq(DiskEdit) /\ g.edits[n + 1] = e
      BY <1>6, <1>7
    <3>2. \A i \in 1 .. Len(g.edits) : Version(g, i) = Apply(Version(g, i - 1), g.edits[i])
      BY <3>1, VersionIs
    <3>3. PICK i \in 1 .. Len(g.edits) : i = n + 1
      BY <2>1
    <3>4. Version(g, i) = Apply(Version(g, i - 1), g.edits[i])
      BY <3>2
    <3> QED
      BY <1>4, <3>1, <3>3, <3>4
  <2> QED
    BY <2>1, <2>2, <1>6, <1>7, <1>11
<1>13. Len(m.edits) = n /\ Len(g.edits) = n + 1 /\ g.edits[n + 1] = e
       /\ \A i \in 1 .. n : g.edits[i] = m.edits[i]
  BY <1>2, <1>3, <1>6, <1>7
<1>14. g.safe <= Len(g.edits)
  BY <1>4, <1>7, <1>8, <1>13
<1> QED
  BY <1>9, <1>10, <1>11, <1>12, <1>13, <1>14

-----------------------------------------------------------------------------
(***************************************************************************)
(* DB::Open and the disk.                                                  *)
(***************************************************************************)
LEMMA TypesStay ==
  ASSUME DiskTypes, UNCHANGED <<logs, manifests>>, current' \in Nat
  PROVE  DiskTypes'
<1>1. \A n \in DOMAIN logs' : (logs[n] \in LogType)'
  BY DEF DiskTypes, LogType, Cell, Zeros, Zero, HeaderCell, DataCell
<1>2. \A n \in DOMAIN manifests' : (manifests[n] \in ManifestType)'
  BY DEF DiskTypes, ManifestType, DiskEdit, Versions
<1> QED
  BY <1>1, <1>2 DEF DiskTypes

LEMMA DiskStays ==
  ASSUME DiskInv, UNCHANGED <<logs, tables, manifests, current>>
  PROVE  DiskInv'
<1>1. DiskTypes'
  BY DEF DiskInv, DiskTypes, LogType, Cell, Zeros, Zero, HeaderCell, DataCell, ManifestType, DiskEdit, Versions
<1>2. DiskWell'
  BY DEF DiskInv, DiskWell
<1>3. Readable'
  BY DEF DiskInv, Readable
<1> QED
  BY <1>1, <1>2, <1>3 DEF DiskInv

LEMMA DownWell ==
  ASSUME phase' = "down"
  PROVE  OpeningDisk' /\ SessionDisk'
  BY DEF OpeningDisk, SessionDisk, DescriptorReady, Session, FirstOne, OldOne, FoundFiles, FoundLogs, FoundAll, NewOne

LEMMA TheDescriptor ==
  ASSUME DiskInv, current # 0
  PROVE  /\ current \in DOMAIN manifests /\ manifests[current] \in ManifestType
         /\ manifests[current].safe <= Len(manifests[current].edits)
         /\ DescriptorWell(manifests[current], tables, logs, current)
  BY DEF DiskInv, DiskTypes, DiskWell

\* The descriptor that CURRENT names is left alone, and so are its tables.
LEMMA DiskKept ==
  ASSUME DiskInv, current' = current, current # 0,
         DOMAIN logs' \subseteq Nat, \A n \in DOMAIN logs' : logs'[n] \in LogType,
         \A n \in DOMAIN manifests' : /\ manifests'[n] \in ManifestType
                                      /\ manifests'[n].safe <= Len(manifests'[n].edits),
         current \in DOMAIN manifests' /\ manifests'[current] = manifests[current],
         \A j \in Ends(manifests[current]) : \A n \in FilesOf(Version(manifests[current], j)) :
            n \in DOMAIN tables' /\ tables'[n] = tables[n],
         \A j \in Ends(manifests[current]) :
            Logged(logs', manifests[current].edits[j].log)
               \subseteq Logged(logs, manifests[current].edits[j].log)
  PROVE  DiskInv'
<1>1. PICK m : m = manifests[current]
  OBVIOUS
<1>2. m \in ManifestType /\ DescriptorWell(m, tables, logs, current)
  BY <1>1, TheDescriptor
<1>3. DescriptorWell(m, tables', logs', current)
  BY <1>1, <1>2, DescriptorKept
<1>4. DiskTypes'
  <2>1. current' \in Nat
    BY DEF DiskInv, DiskTypes
  <2>2. /\ \A n \in DOMAIN logs' : (logs[n] \in LogType)'
        /\ \A n \in DOMAIN manifests' : (manifests[n] \in ManifestType)'
    BY DEF LogType, Cell, Zeros, HeaderCell, DataCell, ManifestType, DiskEdit, Versions, Zero
  <2> QED
    BY <2>1, <2>2 DEF DiskTypes
<1>5. DiskWell'
  <2>1. (manifests[current])' = m
    BY <1>1
  <2>2. DescriptorWell(m, tables', logs', current')
    BY <1>3
  <2> QED
    BY <2>1, <2>2 DEF DiskWell
<1>6. Readable'
  BY <1>1 DEF DiskInv, Readable, Intact
<1> QED
  BY <1>4, <1>5, <1>6 DEF DiskInv

-----------------------------------------------------------------------------
LEMMA NewDBDisk ==
  ASSUME DiskInv, NewDB
  PROVE  DiskInv' /\ OpeningDisk'
<1>1. /\ current = 0 /\ current' = 0 /\ logs' = logs /\ phase' = "newdb"
      /\ manifests' = [n \in {1} |-> [edits |-> <<[NoEdit EXCEPT !.next = 2]>>, safe |-> 0]]
  BY DEF NewDB
<1> DEFINE e == [NoEdit EXCEPT !.next = 2]
           m == [edits |-> <<e>>, safe |-> 0]
<1>2. e \in DiskEdit
  BY DEF NoEdit, NoFiles, DiskEdit, Versions
<1> HIDE DEF e
<1>3. m \in ManifestType /\ m.safe <= Len(m.edits)
  BY <1>2 DEF ManifestType
<1> HIDE DEF m
<1>4. manifests' = [n \in {1} |-> m]
  BY <1>1 DEF m, e
<1>5. DiskTypes'
  <2>1. \A n \in DOMAIN manifests' : manifests'[n] \in ManifestType
                                    /\ manifests'[n].safe <= Len(manifests'[n].edits)
    BY <1>3, <1>4
  <2>2. \A n \in DOMAIN logs' : logs'[n] \in LogType
    BY <1>1 DEF DiskInv, DiskTypes
  <2>3. DOMAIN logs' \subseteq Nat
    BY <1>1 DEF DiskInv, DiskTypes
  <2> QED
    BY <1>1, <2>1, <2>2, <2>3 DEF DiskTypes, LogType, Cell, Zeros, HeaderCell, DataCell,
       ManifestType, DiskEdit, Versions, Zero
<1>6. DiskWell' /\ Readable'
  BY <1>1 DEF DiskInv, DiskWell, Readable
<1>7. OpeningDisk'
  BY <1>1 DEF OpeningDisk, FirstOne, OldOne, FoundFiles, FoundLogs, FoundAll, NewOne, NoEdit, NoFiles
<1> QED
  BY <1>5, <1>6, <1>7 DEF DiskInv

LEMMA NewDBCurrentDisk ==
  ASSUME DiskInv, OpeningDisk, NewDBCurrent
  PROVE  DiskInv' /\ OpeningDisk'
<1>1. /\ current = 0 /\ phase = "newdb" /\ UNCHANGED <<logs, tables, manifests>>
      /\ manifests = [n \in {1} |-> [edits |-> <<[NoEdit EXCEPT !.next = 2]>>, safe |-> 0]]
  BY DEF NewDBCurrent, OpeningDisk, FirstOne
<1>2. CASE current' = current /\ Reset
  BY <1>1, <1>2, DiskStays, DownWell DEF Reset
<1>3. CASE current' = 1 /\ phase' = "recover"
  <2> DEFINE e == [NoEdit EXCEPT !.next = 2]
             m == [edits |-> <<e>>, safe |-> 0]
  <2>1. /\ e.log = 0 /\ e.next = 2 /\ e.last = 0 /\ e.add = NoFiles /\ e.del = {}
    BY DEF NoEdit
  <2>2. e \in DiskEdit
    BY DEF NoEdit, NoFiles, DiskEdit, Versions
  <2> HIDE DEF e
  <2>3. manifests'[1] = m /\ 1 \in DOMAIN manifests'
    BY <1>1 DEF e
  <2>4. m.edits = <<e>> /\ m.edits \in Seq(DiskEdit) /\ Len(m.edits) = 1 /\ m.edits[1] = e
    BY <2>2
  <2> HIDE DEF m
  <2>5. Ends(m) \subseteq {1}
    BY <2>4 DEF Ends
  <2>6. FilesOf(Version(m, 1)) = {}
    <3>1. PICK i \in 1 .. Len(m.edits) : i = 1
      BY <2>4
    <3>2. Version(m, i) = Apply(Version(m, i - 1), m.edits[i]) /\ Version(m, 0) = NoFiles
      BY <2>4, VersionIs
    <3>3. Version(m, 1) = Apply(NoFiles, e)
      BY <3>1, <3>2, <2>4
    <3> QED
      BY <3>3, <2>1 DEF Apply, NoFiles, FilesOf
  <2>7. DOMAIN logs' = {}
    BY <1>1 DEF DiskInv, DiskWell
  <2>8. Tables(tables', Version(m, 1)) = {} /\ Logged(logs', 0) = {}
    BY <2>6, <2>7 DEF Tables, Logged
  <2>9. EndWell(m, 1, tables', logs', 1)
    <3>1. PICK v : v = Version(m, 1)
      OBVIOUS
    <3>2. FilesOf(v) = {} /\ Tables(tables', v) = {}
      BY <3>1, <2>6, <2>8
    <3>3. Unique({} \cup {}) /\ Upto({}, 0)
      BY DEF Unique, Upto
    <3>4. 1 < e.next /\ e.log < e.next
      BY <2>1
    <3> QED
      BY <3>1, <3>2, <3>3, <3>4, <2>1, <2>4, <2>8 DEF EndWell
  <2>10. DescriptorWell(m, tables', logs', 1)
    BY <2>5, <2>9, <2>4, <2>1 DEF DescriptorWell
  <2>11. DiskWell'
    <3>1. current' = 1 /\ (manifests[current])' = m
      BY <1>3, <2>3
    <3> QED
      BY <3>1, <2>3, <2>10 DEF DiskWell
  <2>12. DiskTypes' /\ Readable'
    <3>1. DiskTypes'
      BY <1>1, <1>3, TypesStay DEF DiskInv
    <3> QED
      BY <1>3, <3>1 DEF Readable
  <2>13. OpeningDisk'
    BY <1>3 DEF OpeningDisk, FirstOne, OldOne, FoundFiles, FoundLogs, FoundAll, NewOne
  <2> QED
    BY <2>11, <2>12, <2>13 DEF DiskInv
<1> QED
  BY <1>2, <1>3 DEF NewDBCurrent, Fails

LEMMA OpenDisk ==
  ASSUME DiskInv, Open
  PROVE  DiskInv' /\ OpeningDisk'
<1>1. phase' = "recover" /\ current' = current /\ current # 0 /\ UNCHANGED <<logs, tables, manifests>>
  BY DEF Open, disk
<1>2. OpeningDisk'
  BY <1>1 DEF OpeningDisk, FirstOne, OldOne, FoundFiles, FoundLogs, FoundAll, NewOne
<1> QED
  BY <1>1, <1>2, DiskStays

\* What VersionSet::Recover reads is the longest of the possible ends.
LEMMA ReadToEnd ==
  ASSUME DiskInv, current # 0, ManifestRead(manifests)
  PROVE  \E k \in Ends(manifests[current]) :
            /\ EditsRead(manifests) = SubSeq(manifests[current].edits, 1, k)
            /\ Last(EditsRead(manifests)) = manifests[current].edits[k]
            /\ VersionRead(manifests).files = Version(manifests[current], k)
            /\ \A j \in Ends(manifests[current]) : j <= k
<1>1. PICK m : m = manifests[current]
  OBVIOUS
<1>2. m \in ManifestType /\ m.safe <= Len(m.edits)
  BY <1>1, TheDescriptor
<1>3. PICK es : es = m.edits
  OBVIOUS
<1>4. es \in Seq(DiskEdit) /\ Len(es) \in Nat /\ m.safe \in Nat /\ m.safe <= Len(es)
  BY <1>2, <1>3 DEF ManifestType
<1>5. PICK rd : rd = EditsRead(manifests)
  OBVIOUS
<1>6. /\ rd = IF es # <<>> /\ Last(es).wrote = "torn" THEN Front(es) ELSE es
      /\ rd # <<>> /\ \A i \in 1 .. Len(es) - 1 : es[i].wrote # "torn"
  BY <1>1, <1>3, <1>5 DEF EditsRead, ManifestRead
<1>7. es # <<>> => Last(es) = es[Len(es)] /\ Len(es) > 0
  BY <1>4 DEF Last
<1> DEFINE k == Len(rd)
<1>8. /\ rd \in Seq(DiskEdit) /\ k \in 1 .. Len(es) /\ rd = SubSeq(es, 1, k) /\ Last(rd) = es[k]
      /\ Intact(m, k)
      /\ k = Len(es) \/ (k = Len(es) - 1 /\ es[Len(es)].wrote = "torn")
  <2>1. CASE es # <<>> /\ Last(es).wrote = "torn"
    <3>1. rd = SubSeq(es, 1, Len(es) - 1)
      BY <1>6, <2>1 DEF Front
    <3>2. rd \in Seq(DiskEdit) /\ Len(rd) = Len(es) - 1 /\ \A i \in 1 .. Len(es) - 1 : rd[i] = es[i]
      <4>1. PICK n : n = Len(es) - 1
        OBVIOUS
      <4>2. n \in 0 .. Len(es) /\ rd = SubSeq(es, 1, n)
        BY <4>1, <3>1, <1>4, <1>7, <2>1
      <4>3. rd \in Seq(DiskEdit) /\ Len(rd) = n /\ \A i \in 1 .. n : rd[i] = es[i]
        BY <4>2, <1>4
      <4> QED
        BY <4>1, <4>3
    <3>3. Len(rd) \in 1 .. Len(es)
      <4>1. Len(rd) # 0
        BY <3>2, <1>6, EmptySeq
      <4> QED
        BY <3>2, <4>1, <1>4
    <3>4. Last(rd) = es[Len(rd)]
      BY <3>2, <3>3 DEF Last
    <3>5. Intact(m, Len(rd))
      BY <3>2, <1>3, <1>6 DEF Intact
    <3> QED
      BY <3>1, <3>2, <3>3, <3>4, <3>5, <1>7, <2>1
  <2>2. CASE ~(es # <<>> /\ Last(es).wrote = "torn")
    <3>1. rd = es
      BY <1>6, <2>2
    <3>2. es # <<>> /\ Len(es) > 0 /\ es[Len(es)].wrote # "torn"
      BY <3>1, <1>6, <1>7, <2>2
    <3>3. es = SubSeq(es, 1, Len(es))
      <4>1. SubSeq(es, 1, Len(es)) \in Seq(DiskEdit) /\ Len(SubSeq(es, 1, Len(es))) = Len(es)
            /\ \A i \in 1 .. Len(es) : SubSeq(es, 1, Len(es))[i] = es[i]
        BY <1>4
      <4> QED
        BY <4>1, <1>4, SeqEqual
    <3>4. Intact(m, Len(es))
      <4>1. \A i \in 1 .. Len(es) : i \in 1 .. Len(es) - 1 \/ i = Len(es)
        BY <1>4
      <4> QED
        BY <4>1, <3>2, <1>3, <1>6 DEF Intact
    <3> QED
      BY <3>1, <3>2, <3>3, <3>4, <1>4, <1>7
  <2> QED
    BY <2>1, <2>2
<1> HIDE DEF k
<1>9. k \in Ends(m)
  <2>1. k >= m.safe \/ (k + 1 = m.safe /\ m.edits[m.safe].wrote = "torn")
    BY <1>3, <1>4, <1>8
  <2> QED
    BY <2>1, <1>3, <1>8 DEF Ends
<1>10. ASSUME NEW j \in Ends(m)
       PROVE  j <= k
  <2>1. j \in 1 .. Len(es) /\ Intact(m, j)
    BY <1>3 DEF Ends
  <2>2. CASE j > k
    <3>1. j = Len(es) /\ es[Len(es)].wrote = "torn" /\ j \in 1 .. j
      BY <2>1, <2>2, <1>4, <1>8
    <3> QED
      BY <3>1, <2>1, <1>3 DEF Intact
  <2> QED
    BY <2>2, <2>1, <1>8
<1>11. VersionRead(manifests).files = Version(m, k)
  BY <1>1, <1>3, <1>5, <1>8 DEF VersionRead, Version
<1> QED
  BY <1>1, <1>3, <1>5, <1>8, <1>9, <1>10, <1>11

LEMMA RecoverDisk ==
  ASSUME DiskInv, OpeningDisk, Recover
  PROVE  DiskInv' /\ OpeningDisk'
<1>1. UNCHANGED <<logs, tables, manifests, current>> /\ phase = "recover" /\ edit' = NoEdit
      /\ current # 0
  BY DEF Recover, disk, OpeningDisk, FirstOne
<1>2. DiskInv'
  BY <1>1, DiskStays
<1>3. CASE ~Recoverable(manifests)
  BY <1>2, <1>3, DownWell DEF Recover
<1>4. CASE Recoverable(manifests)
  <2>1. PICK m : m = manifests[current]
    OBVIOUS
  <2>2. PICK k \in Ends(m) :
            /\ Last(EditsRead(manifests)) = m.edits[k]
            /\ VersionRead(manifests).files = Version(m, k)
            /\ \A j \in Ends(m) : j <= k
    BY <1>1, <1>4, <2>1, ReadToEnd DEF Recoverable
  <2>3. PICK e : e = m.edits[k]
    OBVIOUS
  <2>4. PICK v : v = Version(m, k)
    OBVIOUS
  <2>5. m \in ManifestType /\ DescriptorWell(m, tables, logs, current)
    BY <1>1, <2>1, TheDescriptor
  <2>6. k \in 1 .. Len(m.edits) /\ e \in DiskEdit /\ m.edits \in Seq(DiskEdit) /\ Len(m.edits) \in Nat
    BY <2>3, <2>5, EndsIn
  <2>7. v \in Versions
    <3>1. k \in 0 .. Len(m.edits)
      BY <2>6
    <3> QED
      BY <2>4, <2>6, <3>1, VersionIs
  <2>8. /\ e.log \in Nat /\ e.next \in Nat /\ e.last \in Nat
    BY <2>6 DEF DiskEdit
  <2>9. /\ FilesOf(v) \subseteq DOMAIN tables \cap 1 .. e.next - 1
        /\ current < e.next /\ e.log < e.next
        /\ Upto(Tables(tables, v), e.last)
        /\ Unique(Tables(tables, v) \cup Logged(logs, e.log))
    <3>1. EndWell(m, k, tables, logs, current)
      BY <2>5 DEF DescriptorWell
    <3> QED
      BY <3>1, <2>3, <2>4, Zenon DEF EndWell
  <2>10. /\ vs' = [files |-> v, log |-> e.log, last |-> e.last, next |-> e.next + 1, manifest |-> e.next]
         /\ todo' = {n \in DOMAIN logs : n >= e.log} /\ phase' = "logs"
    <3>1. VersionRead(manifests) = [files |-> v, log |-> e.log, last |-> e.last,
                                    next |-> e.next + 1, manifest |-> e.next]
      <4>1. PICK f : f = VersionRead(manifests).files
        OBVIOUS
      <4>2. f = v
        BY <4>1, <2>2, <2>4
      <4>3. VersionRead(manifests) = [files |-> f, log |-> e.log, last |-> e.last,
                                      next |-> e.next + 1, manifest |-> e.next]
        <5>1. PICK l : l = Last(EditsRead(manifests))
          OBVIOUS
        <5>2. l = e
          BY <5>1, <2>2, <2>3
        <5> QED
          BY <4>1, <5>1, <5>2, Zenon DEF VersionRead
      <4> QED
        BY <4>2, <4>3
    <3> QED
      BY <3>1, <1>4 DEF Recover
  <2>11. /\ edit'.log = 0 /\ edit'.add = NoFiles /\ edit'.del = {} /\ edit'.wrote = "no" /\ edit'.last = 0
         /\ edit' \in EditType
    BY <1>1 DEF NoEdit, NoFiles, EditType, Versions
  <2>12. vs' \in VsType /\ vs'.manifest = e.next /\ vs'.next = e.next + 1 /\ vs'.files = v
         /\ vs'.log = e.log /\ vs'.last = e.last
    BY <2>7, <2>8, <2>10 DEF VsType
  <2>13. FoundFiles'
    <3>1. FilesOf(vs'.files) \cup edit'.add.l0 \subseteq DOMAIN tables' \cap 1 .. vs'.next - 1
      BY <2>9, <2>11, <2>12, <2>8, <1>1 DEF NoFiles
    <3>2. 1 < vs'.manifest /\ vs'.manifest < vs'.next /\ edit'.add.l1 = {}
      <4>1. current \in Nat \ {0}
        BY <1>1 DEF DiskInv, DiskTypes
      <4> QED
        BY <4>1, <2>8, <2>9, <2>11, <2>12 DEF NoFiles
    <3>3. (vs \in VsType)' /\ (edit \in EditType)'
      BY <2>11, <2>12 DEF VsType, EditType, Versions
    <3> QED
      BY <2>11, <3>1, <3>2, <3>3 DEF FoundFiles, FilesOf
  <2>14. OldOne'
    <3>1. \A j \in Ends(m) : m.edits[j].next <= e.next
      BY <2>2, <2>3, <2>5 DEF DescriptorWell
    <3>2. (manifests[current])' = m /\ current' = current
      BY <1>1, <2>1
    <3>3. (\A j \in Ends(manifests[current]) : manifests[current].edits[j].next <= vs.manifest)'
      BY <2>12, <3>1, <3>2
    <3> QED
      BY <2>12, <2>9, <3>2, <3>3 DEF OldOne
  <2>15. FoundLogs'
    <3>1. Found' = Tables(tables, v)
      <4>1. Tables(tables, NoFiles) = {}
        BY DEF Tables, NoFiles, FilesOf
      <4>2. Found' = Tables(tables', vs'.files) \cup Tables(tables', edit'.add)
        BY DEF Found
      <4> QED
        BY <4>1, <4>2, <2>11, <2>12, <1>1
    <3>2. (Unique(Found \cup Logged(logs, vs.log)))'
      <4>1. Unique(Found' \cup Logged(logs', vs'.log))
        BY <3>1, <2>9, <2>12, <1>1
      <4> QED
        BY <4>1
    <3>3. \A e1 \in Found' : e1[1] \in 1 .. vs'.last
      BY <3>1, <2>9, <2>12 DEF Upto
    <3>4. todo' \subseteq {n \in DOMAIN logs' : n >= vs'.log}
      BY <2>10, <2>12, <1>1
    <3>5. \A n \in DOMAIN logs' : n < vs'.next \/ n \in todo'
      <4>1. \A n \in DOMAIN logs : n \in Nat
        BY DEF DiskInv, DiskTypes
      <4> QED
        BY <4>1, <2>8, <2>9, <2>10, <2>12, <1>1
    <3> QED
      BY <3>2, <3>3, <3>4, <3>5 DEF FoundLogs
  <2>16. FirstOne' /\ FoundAll' /\ NewOne'
    BY <1>1, <2>10 DEF FirstOne, FoundAll, NewOne
  <2> QED
    BY <1>2, <2>13, <2>14, <2>15, <2>16 DEF OpeningDisk
<1> QED
  BY <1>3, <1>4

LEMMA MinIs ==
  ASSUME NEW T \in SUBSET Nat, T # {}
  PROVE  Min(T) \in T /\ \A t \in T : Min(T) <= t
<1>1. \E x \in T : \A y \in T : x <= y
  BY LeastNat
<1> QED
  BY <1>1, Zenon DEF Min

\* The tables begun of a log are those of an interval of numbers, up to the last
\* or to the one that failed.
LEMMA KeepUpto ==
  ASSUME NEW new, NEW a \in Nat, NEW c \in Nat, DOMAIN new = a .. a + c - 1,
         NEW bad \in DOMAIN new
  PROVE  \E d \in Nat : /\ DOMAIN Keep(new, a .. bad) = a .. a + d - 1
                        /\ \A k \in DOMAIN Keep(new, a .. bad) : k \in DOMAIN new
                        /\ \A k \in DOMAIN Keep(new, a .. bad) : Keep(new, a .. bad)[k] = new[k]
<1>1. bad \in Int /\ a <= bad /\ bad <= a + c - 1
  OBVIOUS
<1>2. PICK d \in Nat : d = bad - a + 1
  BY <1>1
<1>3. DOMAIN Keep(new, a .. bad) = DOMAIN new \cap a .. bad
  BY DEF Keep
<1>4. DOMAIN new \cap a .. bad = a .. a + d - 1
  BY <1>1, <1>2
<1>5. \A k \in DOMAIN new \cap a .. bad : Keep(new, a .. bad)[k] = new[k]
  BY DEF Keep
<1> QED
  BY <1>2, <1>3, <1>4, <1>5

\* The tables that a turn of the loop leaves in the directory.
TablesAdded(new, S) ==
    tables' = [k \in DOMAIN tables \cup S |-> IF k \in S THEN new[k] ELSE tables[k]]

\* Tables of numbers that were free, with entries of the log.
FromLog(n, new) ==
    \E c \in Nat : /\ DOMAIN new = vs.next .. vs.next + c - 1
                   /\ \A k \in DOMAIN new : new[k] \subseteq Written(logs[n].cells)

LEMMA RecoverLogFileCases ==
  ASSUME RecoverLogFile \/ SkipLogFile
  PROVE  /\ phase = "logs" /\ todo # {} /\ UNCHANGED <<logs, manifests, current>>
         /\ \E begun : \E S \in SUBSET DOMAIN begun :
               /\ \/ begun = TablesOf(Min(todo), vs.next) \/ begun = <<>>
                  \/ \E bad \in DOMAIN TablesOf(Min(todo), vs.next) :
                        begun = Keep(TablesOf(Min(todo), vs.next), vs.next .. bad)
               /\ \/ Reset /\ TablesAdded(begun, S)
                  \/ phase' = "logs" /\ UNCHANGED wal /\ LogRead(Min(todo), begun, S)
<1> DEFINE new == TablesOf(Min(todo), vs.next)
<1>1. /\ phase = "logs" /\ todo # {} /\ UNCHANGED <<logs, manifests, current>>
  BY Zenon DEF RecoverLogFile, SkipLogFile
<1>2. \A b, S : LogRead(Min(todo), b, S) => phase' = "logs" /\ UNCHANGED wal
  BY <1>1 DEF LogRead
<1> HIDE DEF new
<1>3. CASE LogRead(Min(todo), new, DOMAIN new)
  <2>1. DOMAIN new \in SUBSET DOMAIN new
    OBVIOUS
  <2> QED
    BY <1>1, <1>2, <1>3, <2>1, Zenon DEF new
<1>4. CASE LogRead(Min(todo), <<>>, {})
  <2>1. {} \in SUBSET DOMAIN <<>>
    OBVIOUS
  <2> QED
    BY <1>1, <1>2, <1>4, <2>1, Zenon
<1>5. ASSUME NEW bad \in DOMAIN new, NEW b, b = Keep(new, vs.next .. bad),
             \/ LogRead(Min(todo), b, DOMAIN b \ {bad})
             \/ Reset /\ tables' = [k \in DOMAIN tables \cup (DOMAIN b \ {bad}) |->
                                      IF k \in DOMAIN b \ {bad} THEN new[k] ELSE tables[k]]
      PROVE  \E S \in SUBSET DOMAIN b :
                \/ Reset /\ TablesAdded(b, S)
                \/ phase' = "logs" /\ UNCHANGED wal /\ LogRead(Min(todo), b, S)
  <2>1. PICK S : S = DOMAIN b \ {bad}
    OBVIOUS
  <2>2. \A k \in S : b[k] = new[k]
    BY <1>5, <2>1 DEF Keep
  <2>3. ASSUME tables' = [k \in DOMAIN tables \cup S |-> IF k \in S THEN new[k] ELSE tables[k]]
        PROVE  TablesAdded(b, S)
    BY <2>2, <2>3 DEF TablesAdded
  <2>4. S \in SUBSET DOMAIN b
    BY <2>1
  <2> QED
    BY <1>2, <1>5, <2>1, <2>3, <2>4
<1>6. \/ LogRead(Min(todo), new, DOMAIN new)
      \/ LogRead(Min(todo), <<>>, {})
      \/ \E bad \in DOMAIN new :
            LET b == Keep(new, vs.next .. bad)
            IN \/ LogRead(Min(todo), b, DOMAIN b \ {bad})
               \/ Reset /\ tables' = [k \in DOMAIN tables \cup (DOMAIN b \ {bad}) |->
                                        IF k \in DOMAIN b \ {bad} THEN new[k] ELSE tables[k]]
  BY Zenon DEF RecoverLogFile, SkipLogFile, Fails, new
<1>7. ASSUME NEW bad \in DOMAIN new,
             LET b == Keep(new, vs.next .. bad)
             IN \/ LogRead(Min(todo), b, DOMAIN b \ {bad})
                \/ Reset /\ tables' = [k \in DOMAIN tables \cup (DOMAIN b \ {bad}) |->
                                         IF k \in DOMAIN b \ {bad} THEN new[k] ELSE tables[k]]
      PROVE  \E begun : \E S \in SUBSET DOMAIN begun :
                /\ \E x \in DOMAIN new : begun = Keep(new, vs.next .. x)
                /\ \/ Reset /\ TablesAdded(begun, S)
                   \/ phase' = "logs" /\ UNCHANGED wal /\ LogRead(Min(todo), begun, S)
  <2>1. PICK b : b = Keep(new, vs.next .. bad)
    OBVIOUS
  <2>2. \E S \in SUBSET DOMAIN b :
            \/ Reset /\ TablesAdded(b, S)
            \/ phase' = "logs" /\ UNCHANGED wal /\ LogRead(Min(todo), b, S)
    BY <1>5, <1>7, <2>1, Zenon
  <2> QED
    BY <2>1, <2>2
<1> QED
  BY <1>1, <1>3, <1>4, <1>6, <1>7, Zenon DEF new

LEMMA BegunFromLog ==
  ASSUME NEW n, vs.next \in Nat, logs[n].cells \in Seq(Cell), NEW begun,
         \/ begun = TablesOf(n, vs.next) \/ begun = <<>>
         \/ \E bad \in DOMAIN TablesOf(n, vs.next) :
               begun = Keep(TablesOf(n, vs.next), vs.next .. bad)
  PROVE  FromLog(n, begun)
<1>1. PICK c \in Nat : /\ DOMAIN TablesOf(n, vs.next) = vs.next .. vs.next + c - 1
                       /\ \A k \in DOMAIN TablesOf(n, vs.next) :
                             TablesOf(n, vs.next)[k] \subseteq Written(logs[n].cells)
  BY TablesFound
<1>2. CASE begun = TablesOf(n, vs.next)
  BY <1>1, <1>2 DEF FromLog
<1>3. CASE begun = <<>>
  <2>1. DOMAIN begun = vs.next .. vs.next + 0 - 1
    BY <1>3
  <2> QED
    BY <2>1 DEF FromLog
<1>4. ASSUME NEW new, new = TablesOf(n, vs.next), NEW bad \in DOMAIN new,
             begun = Keep(new, vs.next .. bad)
      PROVE  FromLog(n, begun)
  <2>1. PICK a \in Nat : a = vs.next
    OBVIOUS
  <2>2. DOMAIN new = a .. a + c - 1
    BY <1>1, <1>4, <2>1
  <2>3. begun = Keep(new, a .. bad)
    BY <1>4, <2>1
  <2>4. \E d \in Nat : /\ DOMAIN begun = a .. a + d - 1
                       /\ \A k \in DOMAIN begun : k \in DOMAIN new
                       /\ \A k \in DOMAIN begun : begun[k] = new[k]
    <3>1. bad \in DOMAIN new
      BY <1>4
    <3>2. \E d \in Nat : /\ DOMAIN Keep(new, a .. bad) = a .. a + d - 1
                         /\ \A k \in DOMAIN Keep(new, a .. bad) : k \in DOMAIN new
                         /\ \A k \in DOMAIN Keep(new, a .. bad) : Keep(new, a .. bad)[k] = new[k]
      BY <2>2, <3>1, KeepUpto
    <3> QED
      BY <2>3, <3>2
  <2>5. PICK d \in Nat : /\ DOMAIN begun = a .. a + d - 1
                         /\ \A k \in DOMAIN begun : k \in DOMAIN new /\ begun[k] = new[k]
    BY <2>4
  <2> QED
    BY <1>1, <1>4, <2>1, <2>5 DEF FromLog
<1> QED
  BY <1>2, <1>3, <1>4

LEMMA RecoverLogFileDisk ==
  ASSUME DiskInv, OpeningDisk, RecoverLogFile \/ SkipLogFile
  PROVE  DiskInv' /\ OpeningDisk'
<1>1. phase = "logs" /\ todo # {} /\ UNCHANGED <<logs, manifests, current>> /\ current # 0
  BY RecoverLogFileCases DEF OpeningDisk, FirstOne
<1>3. ASSUME NEW new, NEW S \in SUBSET DOMAIN new,
             \/ new = TablesOf(Min(todo), vs.next) \/ new = <<>>
             \/ \E bad \in DOMAIN TablesOf(Min(todo), vs.next) :
                   new = Keep(TablesOf(Min(todo), vs.next), vs.next .. bad),
             \/ Reset /\ TablesAdded(new, S)
             \/ phase' = "logs" /\ UNCHANGED wal /\ LogRead(Min(todo), new, S)
      PROVE  DiskInv' /\ OpeningDisk'
  <2>1. PICK n : n = Min(todo)
    OBVIOUS
  <2>3. /\ vs \in VsType /\ 1 < vs.manifest /\ vs.manifest < vs.next
        /\ edit \in EditType /\ edit.add.l1 = {} /\ edit.del = {} /\ edit.wrote = "no"
        /\ FilesOf(vs.files) \cup edit.add.l0 \subseteq DOMAIN tables \cap 1 .. vs.next - 1
    BY <1>1 DEF OpeningDisk, FoundFiles
  <2>4. /\ vs.next \in Nat \ {0} /\ vs.log \in Nat /\ vs.manifest \in Nat /\ vs.last \in Nat
        /\ vs.files \in Versions /\ edit.last \in Nat /\ edit.add \in Versions
    BY <2>3 DEF VsType, EditType
  <2>5. n \in todo /\ n \in DOMAIN logs /\ n >= vs.log /\ n \in Nat /\ logs[n].cells \in Seq(Cell)
    <3>1. todo \subseteq {k \in DOMAIN logs : k >= vs.log} /\ DOMAIN logs \subseteq Nat
      BY <1>1 DEF OpeningDisk, FoundLogs, DiskInv, DiskTypes
    <3>2. n \in todo
      BY <1>1, <2>1, <3>1, MinIs
    <3>3. logs[n] \in LogType
      BY <3>1, <3>2 DEF DiskInv, DiskTypes
    <3> QED
      BY <3>1, <3>2, <3>3 DEF LogType
  <2>6. PICK c \in Nat : /\ DOMAIN new = vs.next .. vs.next + c - 1
                         /\ \A k \in DOMAIN new : new[k] \subseteq Written(logs[n].cells)
    BY <1>3, <2>1, <2>4, <2>5, BegunFromLog DEF FromLog
  <2>7. Written(logs[n].cells) \subseteq Logged(logs, vs.log)
    BY <2>5 DEF Logged
  <2>8. PICK b \in Nat : \A e \in Written(logs[n].cells) : e[1] \in 1 .. b
    BY <2>5, TakenWritten
  <2>2. TablesAdded(new, S)
    BY <1>3, Zenon DEF LogRead, TablesAdded
  <2>14. /\ DOMAIN tables' = DOMAIN tables \cup S
         /\ \A k \in DOMAIN tables' : tables'[k] = IF k \in S THEN new[k] ELSE tables[k]
    BY <2>2 DEF TablesAdded
  <2>17. \A k \in DOMAIN tables : k < vs.next /\ k \in Nat => k \in DOMAIN tables' /\ tables'[k] = tables[k]
    <3>1. \A k \in S : k \in Nat /\ vs.next <= k
      BY <2>4, <2>6
    <3> QED
      BY <2>14, <3>1, <2>4
  <2>26. DiskInv'
    <3>1. PICK m : m = manifests[current]
      OBVIOUS
    <3>2. m \in ManifestType /\ DescriptorWell(m, tables, logs, current) /\ current \in DOMAIN manifests
      BY <1>1, <3>1, TheDescriptor
    <3>3. ASSUME NEW j \in Ends(m), NEW k \in FilesOf(Version(m, j))
          PROVE  k \in DOMAIN tables' /\ tables'[k] = tables[k]
      <4>1. EndWell(m, j, tables, logs, current)
        BY <3>2 DEF DescriptorWell
      <4>2. k \in DOMAIN tables /\ k \in 1 .. m.edits[j].next - 1
        BY <4>1 DEF EndWell
      <4>3. m.edits[j] \in DiskEdit
        BY <3>2, EndsIn
      <4>4. m.edits[j].next <= vs.manifest /\ m.edits[j].next \in Nat
        BY <1>1, <3>1, <4>3 DEF OpeningDisk, OldOne, DiskEdit
      <4>5. k < vs.next /\ k \in Nat
        BY <4>2, <4>4, <2>3, <2>4
      <4> QED
        BY <4>2, <4>5, <2>17
    <3>4. /\ DOMAIN logs \subseteq Nat /\ \A k \in DOMAIN logs : logs[k] \in LogType
          /\ \A k \in DOMAIN manifests : /\ manifests[k] \in ManifestType
                                         /\ manifests[k].safe <= Len(manifests[k].edits)
      BY DEF DiskInv, DiskTypes
    <3> QED
      BY <1>1, <3>1, <3>2, <3>3, <3>4, DiskKept
  <2>27. CASE Reset
    BY <2>26, <2>27, DownWell DEF Reset
  <2> SUFFICES ASSUME phase' = "logs", UNCHANGED wal, LogRead(n, new, S)
               PROVE  OpeningDisk'
    BY <1>3, <2>1, <2>26, <2>27
  <2>9. S \in SUBSET DOMAIN new /\ LogRead(n, new, S) /\ phase' = "logs" /\ UNCHANGED wal
    OBVIOUS
  <2> DEFINE es == UNION {new[k] : k \in DOMAIN new}
             top == Max({edit.last} \cup {e[1] : e \in es})
             nxt == Max({vs.next + Cardinality(DOMAIN new), n + 1})
  <2>10. top \in Nat /\ edit.last <= top /\ \A e \in es : e[1] \in 1 .. top
    <3> DEFINE T == {edit.last} \cup {e[1] : e \in es}
    <3>1. \A e \in es : e[1] \in 1 .. b
      BY <2>6, <2>8
    <3>2. T \in SUBSET Nat /\ T # {} /\ b + edit.last \in Nat /\ \A t \in T : t <= b + edit.last
      BY <3>1, <2>4
    <3>3. edit.last \in T /\ \A e \in es : e[1] \in T
      OBVIOUS
    <3> HIDE DEF T, es
    <3>4. Max(T) \in T /\ \A t \in T : t <= Max(T)
      BY <3>2, MaxBounded
    <3> QED
      BY <3>1, <3>2, <3>3, <3>4 DEF T
  <2>11. nxt \in Nat /\ vs.next + c <= nxt /\ n < nxt
    <3>1. Cardinality(DOMAIN new) = c
      <4>1. PICK lo \in Nat : lo = vs.next
        BY <2>4
      <4>2. PICK hi \in Int : hi = lo + c - 1
        OBVIOUS
      <4>3. Cardinality(lo .. hi) = IF lo > hi THEN 0 ELSE hi - lo + 1
        <5>1. lo \in Int
          OBVIOUS
        <5> QED
          BY <5>1, FS_Interval
      <4>4. DOMAIN new = lo .. hi
        BY <2>6, <4>1, <4>2
      <4>5. (IF lo > hi THEN 0 ELSE hi - lo + 1) = c
        BY <4>2
      <4> QED
        BY <4>3, <4>4, <4>5
    <3> DEFINE T == {vs.next + c, n + 1}
    <3>2. T \in SUBSET Nat /\ T # {} /\ vs.next + c + n + 1 \in Nat
          /\ \A t \in T : t <= vs.next + c + n + 1
      BY <2>4, <2>5, SMTT(30)
    <3>3. Max(T) \in T /\ \A t \in T : t <= Max(T)
      <4> HIDE DEF T
      <4> QED
        BY <3>2, MaxBounded
    <3>4. nxt = Max(T)
      BY <3>1
    <3> HIDE DEF nxt
    <3> QED
      BY <3>2, <3>3, <3>4, <2>4, <2>5, SMTT(30)
  <2>12. vs' \in VsType /\ vs'.next = nxt /\ vs'.files = vs.files /\ vs'.log = vs.log
         /\ vs'.last = vs.last /\ vs'.manifest = vs.manifest
    <3>1. vs' = [vs EXCEPT !.next = nxt]
      BY <2>9 DEF LogRead
    <3> HIDE DEF nxt
    <3> QED
      BY <3>1, <2>3, <2>11 DEF VsType
  <2>13. /\ edit' \in EditType /\ edit'.add = [l0 |-> edit.add.l0 \cup S, l1 |-> {}]
         /\ edit'.del = {} /\ edit'.wrote = "no" /\ edit'.last = top
    <3>1. edit' = [edit EXCEPT !.add.l0 = @ \cup S, !.last = top]
      BY <2>9 DEF LogRead
    <3> HIDE DEF top
    <3>2. S \subseteq Nat
      BY <2>4, <2>6, <2>9
    <3>3. edit.add = [l0 |-> edit.add.l0, l1 |-> {}] /\ edit.add.l0 \subseteq Nat
      BY <2>3, <2>4 DEF Versions
    <3>4. edit'.add = [edit.add EXCEPT !.l0 = @ \cup S] /\ edit'.last = top /\ edit'.del = edit.del
          /\ edit'.wrote = edit.wrote /\ edit'.log = edit.log /\ edit'.next = edit.next
          /\ edit' = [log |-> edit'.log, next |-> edit'.next, last |-> edit'.last,
                      add |-> edit'.add, del |-> edit'.del, wrote |-> edit'.wrote]
      BY <3>1, <2>3 DEF EditType
    <3>5. edit'.add = [l0 |-> edit.add.l0 \cup S, l1 |-> {}]
      BY <3>3, <3>4
    <3>6. edit'.add \in Versions
      <4>1. edit.add.l0 \cup S \in SUBSET Nat /\ {} \in SUBSET Nat
        BY <3>2, <3>3
      <4> QED
        BY <3>5, <4>1 DEF Versions
    <3> QED
      BY <2>3, <2>10, <3>4, <3>5, <3>6 DEF EditType
  <2>15. todo' = todo \ {n}
    BY <2>9 DEF LogRead
  <2> HIDE DEF top, nxt, es
  <2>16. \A k \in S : k \in vs.next .. nxt - 1 /\ k \in 1 .. nxt - 1
    BY <2>4, <2>6, <2>9, <2>11
  <2>18. FoundFiles'
    <3>1. FilesOf(vs'.files) \cup edit'.add.l0 \subseteq DOMAIN tables' \cap 1 .. vs'.next - 1
      <4>1. edit'.add.l0 = edit.add.l0 \cup S
        BY <2>13
      <4>2. 1 .. vs.next - 1 \subseteq 1 .. nxt - 1
        BY <2>4, <2>11
      <4> QED
        BY <4>1, <4>2, <2>3, <2>12, <2>14, <2>16
    <3>2. 1 < vs'.manifest /\ vs'.manifest < vs'.next /\ edit'.add.l1 = {}
      BY <2>3, <2>4, <2>11, <2>12, <2>13
    <3>3. (vs \in VsType)' /\ (edit \in EditType)'
      BY <2>12, <2>13 DEF VsType, EditType, Versions
    <3> QED
      BY <2>13, <3>1, <3>2, <3>3 DEF FoundFiles, FilesOf
  <2>19. OldOne'
    BY <1>1, <2>9, <2>12 DEF OpeningDisk, OldOne, Ends, Intact
  <2>20. Tables(tables', vs'.files) \subseteq Found
    <3> SUFFICES ASSUME NEW k \in FilesOf(vs.files)
                 PROVE  k \in DOMAIN tables' /\ tables'[k] = tables[k] /\ k \in DOMAIN tables
      BY <2>12 DEF Tables, Found
    <3> QED
      BY <2>3, <2>17, <2>4
  <2>21. Tables(tables', edit'.add) \subseteq Found \cup es
    <3> SUFFICES ASSUME NEW k \in FilesOf(edit'.add), NEW e \in tables'[k]
                 PROVE  e \in Found \cup es
      BY DEF Tables
    <3>1. k \in edit.add.l0 \/ k \in S
      BY <2>13 DEF FilesOf
    <3>2. CASE k \in S
      <4>1. e \in new[k] /\ k \in DOMAIN new
        BY <3>2, <2>9, <2>14
      <4> QED
        BY <4>1 DEF es
    <3>3. CASE k \in edit.add.l0
      <4>1. k \in DOMAIN tables /\ k \in 1 .. vs.next - 1 /\ k \in FilesOf(edit.add)
        BY <3>3, <2>3 DEF FilesOf
      <4>2. tables'[k] = tables[k]
        BY <4>1, <2>4, <2>17
      <4> QED
        BY <4>1, <4>2 DEF Found, Tables
    <3> QED
      BY <3>1, <3>2, <3>3
  <2>22. Found' \subseteq Found \cup es
    BY <2>20, <2>21 DEF Found
  <2>23. es \subseteq Logged(logs, vs.log)
    BY <2>6, <2>7 DEF es
  <2>24. FoundLogs'
    <3>1. /\ todo \subseteq {k \in DOMAIN logs : k >= vs.log}
          /\ \A k \in DOMAIN logs : k < vs.next \/ k \in todo
          /\ Unique(Found \cup Logged(logs, vs.log))
          /\ \A e \in Found : e[1] \in 1 .. vs.last \/ e[1] \in 1 .. edit.last
      BY <1>1 DEF OpeningDisk, FoundLogs
    <3>2. (Unique(Found \cup Logged(logs, vs.log)))'
      <4>1. Found' \cup Logged(logs', vs'.log) \subseteq Found \cup Logged(logs, vs.log)
        BY <1>1, <2>12, <2>22, <2>23
      <4>2. Unique(Found' \cup Logged(logs', vs'.log))
        BY <4>1, <3>1 DEF Unique
      <4> QED
        BY <4>2
    <3>3. \A e \in Found' : e[1] \in 1 .. vs'.last \/ e[1] \in 1 .. edit'.last
      <4> SUFFICES ASSUME NEW e \in Found'
                   PROVE  e[1] \in 1 .. vs'.last \/ e[1] \in 1 .. edit'.last
        OBVIOUS
      <4>1. e \in es => e[1] \in 1 .. edit'.last
        BY <2>10, <2>13
      <4>2. e \in Found => e[1] \in 1 .. vs.last \/ e[1] \in 1 .. edit'.last
        BY <3>1, <2>4, <2>10, <2>13
      <4> QED
        BY <4>1, <4>2, <2>12, <2>22
    <3>4. todo' \subseteq {k \in DOMAIN logs' : k >= vs'.log}
      BY <3>1, <1>1, <2>12, <2>15
    <3>5. \A k \in DOMAIN logs' : k < vs'.next \/ k \in todo'
      <4> SUFFICES ASSUME NEW k \in DOMAIN logs
                   PROVE  k < nxt \/ k \in todo \ {n}
        BY <1>1, <2>12, <2>15
      <4>1. k \in Nat
        BY DEF DiskInv, DiskTypes
      <4> QED
        BY <4>1, <3>1, <2>4, <2>5, <2>11
    <3> QED
      BY <3>2, <3>3, <3>4, <3>5 DEF FoundLogs
  <2>25. FirstOne' /\ FoundAll' /\ NewOne'
    BY <1>1, <2>9 DEF FirstOne, FoundAll, NewOne
  <2> QED
    BY <2>18, <2>19, <2>24, <2>25 DEF OpeningDisk
<1> QED
  BY <1>3, RecoverLogFileCases, Zenon

\* A new log is empty.
LEMMA EmptyLog ==
  ASSUME NEW lg, NEW n, NEW lo
  PROVE  Logged(With(lg, n, [cells |-> <<>>, safe |-> 0]), lo) \subseteq Logged(lg, lo)
<1> DEFINE new == [cells |-> <<>>, safe |-> 0]
           lh  == With(lg, n, new)
<1>1. Written(new.cells) = {}
  BY DEF Written, Range
<1> HIDE DEF new
<1>2. DOMAIN lh = DOMAIN lg \cup {n} /\ \A k \in DOMAIN lh : lh[k] = IF k = n THEN new ELSE lg[k]
  BY DEF With
<1> HIDE DEF lh
<1>3. ASSUME NEW e \in Logged(lh, lo)
      PROVE  e \in Logged(lg, lo)
  <2>1. PICK k \in DOMAIN lh : k >= lo /\ e \in Written(lh[k].cells)
    BY DEF Logged
  <2>2. k # n
    BY <1>1, <1>2, <2>1
  <2> QED
    BY <1>2, <2>1, <2>2 DEF Logged
<1> QED
  BY <1>3 DEF lh, new

LEMMA MaxOfTwo ==
  ASSUME NEW a \in Nat, NEW b \in Nat
  PROVE  Max({a, b}) \in Nat /\ a <= Max({a, b}) /\ b <= Max({a, b})
<1> DEFINE T == {a, b}
<1>1. T \in SUBSET Nat /\ T # {} /\ a + b \in Nat /\ \A t \in T : t <= a + b
  OBVIOUS
<1>2. Max(T) \in T /\ \A t \in T : t <= Max(T)
  <2> HIDE DEF T
  <2> QED
    BY <1>1, MaxBounded
<1> QED
  BY <1>1, <1>2

LEMMA NewLogFileDisk ==
  ASSUME DiskInv, OpeningDisk, NewLogFile
  PROVE  DiskInv' /\ OpeningDisk'
<1>1. phase = "logs" /\ todo = {} /\ UNCHANGED <<tables, manifests, current>> /\ current # 0
  BY DEF NewLogFile, OpeningDisk, FirstOne
<1>2. CASE Reset /\ UNCHANGED logs
  BY <1>1, <1>2, DiskStays, DownWell DEF Reset
<1>3. CASE ~(Reset /\ UNCHANGED logs)
  <2> DEFINE new == [cells |-> <<>>, safe |-> 0]
             top == Max({vs.last, edit.last})
  <2>1. /\ logs' = With(logs, vs.next, new) /\ wal' = [NoLog EXCEPT !.number = vs.next]
        /\ vs' = [vs EXCEPT !.next = @ + 1, !.last = top]
        /\ edit' = [edit EXCEPT !.log = vs.next, !.next = vs.next + 1, !.last = top]
        /\ phase' = "manifest"
    BY <1>3 DEF NewLogFile, Fails
  <2>2. /\ vs \in VsType /\ 1 < vs.manifest /\ vs.manifest < vs.next
        /\ edit \in EditType /\ edit.add.l1 = {} /\ edit.del = {} /\ edit.wrote = "no"
        /\ FilesOf(vs.files) \cup edit.add.l0 \subseteq DOMAIN tables \cap 1 .. vs.next - 1
    BY <1>1 DEF OpeningDisk, FoundFiles
  <2>3. /\ vs.next \in Nat \ {0} /\ vs.manifest \in Nat /\ vs.last \in Nat /\ edit.last \in Nat
    BY <2>2 DEF VsType, EditType
  <2>4. top \in Nat /\ vs.last <= top /\ edit.last <= top
    BY <2>3, MaxOfTwo
  <2> HIDE DEF top
  <2>5. vs' \in VsType /\ vs'.next = vs.next + 1 /\ vs'.files = vs.files /\ vs'.manifest = vs.manifest
        /\ vs'.log = vs.log /\ vs'.last = top
    <3>1. /\ vs'.next = vs.next + 1 /\ vs'.files = vs.files /\ vs'.manifest = vs.manifest
          /\ vs'.log = vs.log /\ vs'.last = top
          /\ vs' = [files |-> vs'.files, log |-> vs'.log, next |-> vs'.next, last |-> vs'.last,
                    manifest |-> vs'.manifest]
      BY <2>1, <2>2 DEF VsType
    <3> QED
      BY <3>1, <2>2, <2>3, <2>4 DEF VsType
  <2>6. edit' \in EditType /\ edit'.add = edit.add /\ edit'.del = {} /\ edit'.wrote = "no"
        /\ edit'.log = vs.next /\ edit'.next = vs.next + 1 /\ edit'.last = top
    <3>1. /\ edit'.add = edit.add /\ edit'.del = edit.del /\ edit'.wrote = edit.wrote
          /\ edit'.log = vs.next /\ edit'.next = vs.next + 1 /\ edit'.last = top
          /\ edit' = [log |-> edit'.log, next |-> edit'.next, last |-> edit'.last,
                      add |-> edit'.add, del |-> edit'.del, wrote |-> edit'.wrote]
      BY <2>1, <2>2 DEF EditType
    <3> QED
      BY <3>1, <2>2, <2>3, <2>4 DEF EditType
  <2>7. wal'.number = vs.next /\ wal'.off = 0
    BY <2>1 DEF NoLog
  <2>8. /\ \A n \in DOMAIN logs : n < vs.next /\ n \in Nat
        /\ Unique(Found \cup Logged(logs, vs.log))
        /\ \A e \in Found : e[1] \in 1 .. vs.last \/ e[1] \in 1 .. edit.last
    BY <1>1 DEF OpeningDisk, FoundLogs, DiskInv, DiskTypes
  <2>9. DOMAIN logs' = DOMAIN logs \cup {vs.next} /\ logs'[vs.next] = new
        /\ \A n \in DOMAIN logs : logs'[n] = logs[n]
    BY <2>1, <2>3, <2>8 DEF With
  <2>10. new \in LogType /\ new.cells = <<>>
    BY DEF LogType
  <2>11. \A lo : Logged(logs', lo) \subseteq Logged(logs, lo)
    BY <2>1, EmptyLog
  <2> HIDE DEF new
  <2>12. DiskInv'
    <3>1. PICK m : m = manifests[current]
      OBVIOUS
    <3>2. m \in ManifestType /\ DescriptorWell(m, tables, logs, current) /\ current \in DOMAIN manifests
      BY <1>1, <3>1, TheDescriptor
    <3>3. ASSUME NEW j \in Ends(m), NEW k \in FilesOf(Version(m, j))
          PROVE  k \in DOMAIN tables' /\ tables'[k] = tables[k]
      BY <1>1, <3>2 DEF DescriptorWell, EndWell
    <3>4. /\ DOMAIN logs' \subseteq Nat /\ \A k \in DOMAIN logs' : logs'[k] \in LogType
          /\ \A k \in DOMAIN manifests : /\ manifests[k] \in ManifestType
                                         /\ manifests[k].safe <= Len(manifests[k].edits)
      BY <2>3, <2>9, <2>10 DEF DiskInv, DiskTypes
    <3> QED
      BY <1>1, <2>11, <3>1, <3>2, <3>3, <3>4, DiskKept
  <2>13. FoundFiles'
    <3>1. FilesOf(vs'.files) \cup edit'.add.l0 \subseteq DOMAIN tables' \cap 1 .. vs'.next - 1
      BY <1>1, <2>2, <2>3, <2>5, <2>6
    <3>2. 1 < vs'.manifest /\ vs'.manifest < vs'.next /\ edit'.add.l1 = {}
      BY <2>2, <2>3, <2>5, <2>6
    <3>3. (vs \in VsType)' /\ (edit \in EditType)'
      BY <2>5, <2>6 DEF VsType, EditType, Versions
    <3> QED
      BY <2>6, <3>1, <3>2, <3>3 DEF FoundFiles, FilesOf
  <2>14. OldOne'
    BY <1>1, <2>5 DEF OpeningDisk, OldOne
  <2>15. FoundAll'
    <3>1. Found' = Found
      BY <1>1, <2>5, <2>6 DEF Found
    <3>2. WellNumbered(Found', vs'.last)
      <4>1. \A e \in Found : e[1] \in 1 .. top
        BY <2>3, <2>4, <2>8
      <4> QED
        BY <3>1, <4>1, <2>5, <2>8 DEF WellNumbered, Unique
    <3>3. (WellNumbered(Found, vs.last))'
      BY <3>2
    <3>4. \A n \in DOMAIN logs' : n <= wal'.number
      BY <2>3, <2>7, <2>8, <2>9
    <3>5. wal'.number \in DOMAIN logs' /\ logs'[wal'.number].cells = <<>>
      BY <2>7, <2>9, <2>10
    <3>6. edit'.log = wal'.number /\ edit'.next = vs'.next /\ edit'.last = vs'.last
          /\ wal'.number \in 1 .. vs'.next - 1 /\ wal'.off = 0
      BY <2>3, <2>5, <2>6, <2>7
    <3> QED
      BY <3>3, <3>4, <3>5, <3>6 DEF FoundAll
  <2>16. FirstOne' /\ FoundLogs' /\ NewOne'
    BY <1>1, <2>1 DEF FirstOne, FoundLogs, NewOne
  <2> QED
    BY <2>12, <2>13, <2>14, <2>15, <2>16 DEF OpeningDisk
<1> QED
  BY <1>2, <1>3

\* The descriptor that DB::Open writes.
Snapshot == [edits |-> <<[NoEdit EXCEPT !.add = vs.files], edit>>, safe |-> 2]

LEMMA SnapshotTyped ==
  ASSUME vs \in VsType, edit \in EditType, edit.wrote = "no", edit.del = {}
  PROVE  /\ Snapshot \in ManifestType /\ Snapshot.safe = 2 /\ Len(Snapshot.edits) = 2
         /\ Snapshot.edits[2] = edit /\ Intact(Snapshot, 2)
         /\ Ends(Snapshot) \subseteq {2}
         /\ Version(Snapshot, 2) = Apply(vs.files, edit)
<1> DEFINE e == [NoEdit EXCEPT !.add = vs.files]
<1>1. e \in DiskEdit /\ e.wrote = "no" /\ e.add = vs.files /\ e.del = {}
  BY DEF NoEdit, NoFiles, DiskEdit, Versions, VsType
<1>2. edit \in DiskEdit
  BY DEF EditType, DiskEdit
<1> HIDE DEF e
<1>3. PICK s : s = Snapshot
  OBVIOUS
<1>4. s = [edits |-> <<e, edit>>, safe |-> 2]
  BY <1>3 DEF Snapshot, e
<1>5. /\ s.edits \in Seq(DiskEdit) /\ Len(s.edits) = 2 /\ s.edits[1] = e /\ s.edits[2] = edit
      /\ s.safe = 2
  BY <1>1, <1>2, <1>4
<1>6. s \in ManifestType
  BY <1>4, <1>5 DEF ManifestType
<1>7. Intact(s, 2)
  BY <1>1, <1>5 DEF Intact
<1>8. Ends(s) \subseteq {2}
  BY <1>5 DEF Ends
<1>9. Version(s, 2) = Apply(vs.files, edit)
  <2>1. \A i \in 1 .. 2 : Version(s, i) = Apply(Version(s, i - 1), s.edits[i])
    BY <1>5, VersionIs
  <2>2. Version(s, 0) = NoFiles
    BY <1>5, VersionIs
  <2>3. Version(s, 1) = Apply(NoFiles, e)
    <3>1. PICK i \in 1 .. 2 : i = 1
      OBVIOUS
    <3>2. Version(s, i) = Apply(Version(s, i - 1), s.edits[i])
      BY <2>1
    <3> QED
      BY <3>1, <3>2, <2>2, <1>5
  <2>4. Apply(NoFiles, e) = vs.files
    <3>1. vs.files = [l0 |-> vs.files.l0, l1 |-> vs.files.l1]
      BY DEF VsType, Versions
    <3> QED
      BY <1>1, <3>1 DEF Apply, NoFiles
  <2>5. PICK i \in 1 .. 2 : i = 2
    OBVIOUS
  <2>6. Version(s, i) = Apply(Version(s, i - 1), s.edits[i])
    BY <2>1
  <2> QED
    BY <2>3, <2>4, <2>5, <2>6, <1>5
<1> QED
  BY <1>3, <1>5, <1>6, <1>7, <1>8, <1>9

LEMMA WriteSnapshotDisk ==
  ASSUME DiskInv, OpeningDisk, WriteSnapshot
  PROVE  DiskInv' /\ OpeningDisk'
<1>1. /\ phase = "manifest" /\ UNCHANGED <<logs, tables, current>> /\ current # 0
      /\ current < vs.manifest /\ vs.manifest \in Nat /\ current \in Nat
      /\ vs \in VsType /\ edit \in EditType /\ edit.wrote = "no" /\ edit.del = {}
  BY DEF WriteSnapshot, OpeningDisk, FirstOne, OldOne, FoundFiles, VsType, DiskInv, DiskTypes
<1>2. /\ \/ manifests' = With(manifests, vs.manifest, Snapshot) /\ phase' = "setcurrent"
            /\ UNCHANGED <<vs, opening, wal>>
         \/ Reset /\ manifests' = Keep(manifests, DOMAIN manifests \ {vs.manifest})
  BY DEF WriteSnapshot, Fails, Snapshot
<1>3. PICK s : s = Snapshot
  OBVIOUS
<1>4. s \in ManifestType /\ s.safe = 2 /\ Len(s.edits) = 2
  BY <1>1, <1>3, SnapshotTyped
<1>5. /\ \A n \in DOMAIN manifests' : manifests'[n] = s \/ (n \in DOMAIN manifests /\ manifests'[n] = manifests[n])
      /\ current \in DOMAIN manifests => current \in DOMAIN manifests'
                                         /\ manifests'[current] = manifests[current]
  <2>1. CASE manifests' = With(manifests, vs.manifest, s)
    <3>1. /\ DOMAIN manifests' = DOMAIN manifests \cup {vs.manifest}
          /\ \A n \in DOMAIN manifests' : manifests'[n] = IF n = vs.manifest THEN s ELSE manifests[n]
      BY <2>1 DEF With
    <3>2. current # vs.manifest
      BY <1>1
    <3> QED
      BY <3>1, <3>2
  <2>2. CASE manifests' = Keep(manifests, DOMAIN manifests \ {vs.manifest})
    BY <1>1, <2>2 DEF Keep
  <2> QED
    BY <2>1, <2>2, <1>2, <1>3
<1>6. DiskInv'
  <2>1. PICK m : m = manifests[current]
    OBVIOUS
  <2>2. m \in ManifestType /\ DescriptorWell(m, tables, logs, current) /\ current \in DOMAIN manifests
    BY <1>1, <2>1, TheDescriptor
  <2>3. ASSUME NEW j \in Ends(m), NEW k \in FilesOf(Version(m, j))
        PROVE  k \in DOMAIN tables' /\ tables'[k] = tables[k]
    BY <1>1, <2>2 DEF DescriptorWell, EndWell
  <2>4. /\ DOMAIN logs \subseteq Nat /\ \A k \in DOMAIN logs : logs[k] \in LogType
        /\ \A k \in DOMAIN manifests' : /\ manifests'[k] \in ManifestType
                                        /\ manifests'[k].safe <= Len(manifests'[k].edits)
    <3>1. \A k \in DOMAIN manifests : /\ manifests[k] \in ManifestType
                                       /\ manifests[k].safe <= Len(manifests[k].edits)
      BY DEF DiskInv, DiskTypes
    <3>2. s.safe <= Len(s.edits)
      BY <1>4
    <3>3. \A k \in DOMAIN manifests' : /\ manifests'[k] \in ManifestType
                                        /\ manifests'[k].safe <= Len(manifests'[k].edits)
      BY <1>4, <1>5, <3>1, <3>2
    <3> QED
      BY <3>3 DEF DiskInv, DiskTypes
  <2> QED
    BY <1>1, <1>5, <2>1, <2>2, <2>3, <2>4, DiskKept
<1>7. CASE Reset
  BY <1>6, <1>7, DownWell DEF Reset
<1>8. CASE ~Reset
  <2>1. /\ manifests' = With(manifests, vs.manifest, s) /\ phase' = "setcurrent"
        /\ UNCHANGED <<vs, todo, edit, wal>>
    BY <1>2, <1>3, <1>8 DEF opening
  <2>2. FirstOne' /\ FoundLogs'
    BY <1>1, <2>1 DEF FirstOne, FoundLogs
  <2>3. OldOne'
    BY <1>1, <1>5, <2>1, TheDescriptor DEF OpeningDisk, OldOne
  <2>4. FoundFiles'
    <3>1. (vs \in VsType)' /\ (edit \in EditType)'
      BY <1>1, <2>1 DEF VsType, EditType, Versions
    <3> QED
      BY <1>1, <2>1, <3>1 DEF OpeningDisk, FoundFiles, FilesOf
  <2>5. FoundAll'
    <3>1. Found' = Found
      BY <1>1, <2>1 DEF Found
    <3> QED
      BY <1>1, <2>1, <3>1 DEF OpeningDisk, FoundAll, WellNumbered
  <2>6. NewOne'
    <3>1. vs.manifest \in DOMAIN manifests' /\ manifests'[vs.manifest] = s
      BY <2>1 DEF With
    <3> QED
      BY <1>3, <2>1, <3>1 DEF NewOne, Snapshot, NoEdit, NoFiles
  <2> QED
    BY <1>6, <2>2, <2>3, <2>4, <2>5, <2>6 DEF OpeningDisk
<1> QED
  BY <1>7, <1>8

\* What is found is the version that DB::Open installs.
LEMMA FoundIs ==
  ASSUME vs \in VsType, edit \in EditType, edit.add.l1 = {}, edit.del = {}
  PROVE  /\ FilesOf(Apply(vs.files, edit)) = FilesOf(vs.files) \cup edit.add.l0
         /\ Tables(tables, Apply(vs.files, edit)) = Found
         /\ Apply(vs.files, edit) \in Versions
<1>1. PICK v : v = Apply(vs.files, edit)
  OBVIOUS
<1>2. v = [l0 |-> vs.files.l0 \cup edit.add.l0, l1 |-> vs.files.l1]
  <2>1. (vs.files.l0 \ {}) \cup edit.add.l0 = vs.files.l0 \cup edit.add.l0
        /\ (vs.files.l1 \ {}) \cup {} = vs.files.l1
    OBVIOUS
  <2> QED
    BY <1>1, <2>1 DEF Apply
<1>3. FilesOf(v) = FilesOf(vs.files) \cup edit.add.l0
  BY <1>2 DEF FilesOf
<1>4. FilesOf(edit.add) = edit.add.l0
  BY DEF FilesOf
<1>5. Tables(tables, v) = Found
  BY <1>3, <1>4 DEF Tables, Found
<1>6. v \in Versions
  BY <1>1, ApplyTyped DEF VsType, EditType
<1> QED
  BY <1>1, <1>3, <1>5, <1>6

LEMMA SetCurrentFileDisk ==
  ASSUME DiskInv, OpeningDisk, SetCurrentFile
  PROVE  DiskInv' /\ OpeningDisk'
<1>1. /\ phase = "setcurrent" /\ UNCHANGED <<logs, tables>> /\ current # 0
      /\ current < vs.manifest /\ vs.manifest \in Nat /\ current \in Nat
  BY DEF SetCurrentFile, OpeningDisk, FirstOne, OldOne, FoundFiles, VsType, DiskInv, DiskTypes
<1>2. /\ vs \in VsType /\ edit \in EditType /\ edit.wrote = "no" /\ edit.del = {} /\ edit.add.l1 = {}
      /\ 1 < vs.manifest /\ vs.manifest < vs.next
      /\ FilesOf(vs.files) \cup edit.add.l0 \subseteq DOMAIN tables \cap 1 .. vs.next - 1
  BY <1>1 DEF OpeningDisk, FoundFiles
<1>3. CASE /\ Reset /\ current' = current
           /\ manifests' = Keep(manifests, DOMAIN manifests \ {vs.manifest})
  <2>1. /\ \A n \in DOMAIN manifests' : n \in DOMAIN manifests /\ manifests'[n] = manifests[n]
        /\ current \in DOMAIN manifests => current \in DOMAIN manifests'
                                           /\ manifests'[current] = manifests[current]
    BY <1>1, <1>3 DEF Keep
  <2>2. PICK m : m = manifests[current]
    OBVIOUS
  <2>3. m \in ManifestType /\ DescriptorWell(m, tables, logs, current) /\ current \in DOMAIN manifests
    BY <1>1, <2>2, TheDescriptor
  <2>4. ASSUME NEW j \in Ends(m), NEW k \in FilesOf(Version(m, j))
        PROVE  k \in DOMAIN tables' /\ tables'[k] = tables[k]
    BY <1>1, <2>3 DEF DescriptorWell, EndWell
  <2>5. /\ DOMAIN logs \subseteq Nat /\ \A k \in DOMAIN logs : logs[k] \in LogType
        /\ \A k \in DOMAIN manifests' : /\ manifests'[k] \in ManifestType
                                        /\ manifests'[k].safe <= Len(manifests'[k].edits)
    BY <2>1 DEF DiskInv, DiskTypes
  <2>6. DiskInv'
    BY <1>1, <1>3, <2>1, <2>2, <2>3, <2>4, <2>5, DiskKept
  <2> QED
    BY <1>3, <2>6, DownWell DEF Reset
<1>4. CASE current' = vs.manifest /\ phase' = "install" /\ UNCHANGED <<manifests, vs, opening, wal>>
  <2>1. UNCHANGED <<manifests, vs, todo, edit, wal, logs, tables>>
    BY <1>1, <1>4 DEF opening
  <2>2. PICK s : s = Snapshot
    OBVIOUS
  <2>3. PICK v : v = Apply(vs.files, edit)
    OBVIOUS
  <2>4. /\ s \in ManifestType /\ s.safe = 2 /\ Len(s.edits) = 2 /\ s.edits[2] = edit /\ Intact(s, 2)
        /\ Ends(s) \subseteq {2} /\ Version(s, 2) = v
    BY <1>2, <2>2, <2>3, SnapshotTyped
  <2>5. vs.manifest \in DOMAIN manifests /\ manifests[vs.manifest] = s
    BY <1>1, <2>2 DEF OpeningDisk, NewOne, Snapshot
  <2>6. /\ edit.log = wal.number /\ edit.next = vs.next /\ edit.last = vs.last
        /\ wal.number \in 1 .. vs.next - 1 /\ wal.off = 0
        /\ \A n \in DOMAIN logs : n <= wal.number
        /\ wal.number \in DOMAIN logs /\ logs[wal.number].cells = <<>>
        /\ WellNumbered(Found, vs.last)
    BY <1>1 DEF OpeningDisk, FoundAll
  <2>7. /\ FilesOf(v) = FilesOf(vs.files) \cup edit.add.l0 /\ Tables(tables, v) = Found
    BY <1>2, <2>3, FoundIs
  <2>8. Logged(logs, wal.number) = {}
    <3> SUFFICES ASSUME NEW e \in Logged(logs, wal.number) PROVE FALSE
      OBVIOUS
    <3>1. PICK n \in DOMAIN logs : n >= wal.number /\ e \in Written(logs[n].cells)
      BY DEF Logged
    <3>2. n \in Nat /\ n <= wal.number /\ wal.number \in Nat
      BY <2>6, <1>2 DEF DiskInv, DiskTypes, VsType
    <3>3. n = wal.number
      BY <3>1, <3>2
    <3> QED
      BY <3>1, <3>3, <2>6 DEF Written, Range
  <2>9. EndWell(s, 2, tables, logs, vs.manifest)
    <3>1. FilesOf(v) \subseteq DOMAIN tables \cap 1 .. edit.next - 1
      BY <1>2, <2>6, <2>7
    <3>2. vs.manifest < edit.next /\ edit.log < edit.next
      BY <1>2, <2>6 DEF VsType
    <3>3. Upto(Tables(tables, v), edit.last) /\ Unique(Tables(tables, v) \cup Logged(logs, edit.log))
      BY <2>6, <2>7, <2>8 DEF Upto, Unique, WellNumbered
    <3> QED
      BY <2>4, <3>1, <3>2, <3>3, Zenon DEF EndWell
  <2>10. DescriptorWell(s, tables, logs, vs.manifest)
    <3>1. edit.next <= edit.next
      BY <1>2 DEF EditType
    <3> QED
      BY <2>4, <2>9, <3>1 DEF DescriptorWell
  <2>11. (manifests[current])' = s /\ current' = vs.manifest /\ vs.manifest # 0
    BY <1>1, <1>4, <2>1, <2>5
  <2>12. DiskWell'
    BY <2>1, <2>5, <2>10, <2>11 DEF DiskWell
  <2>13. Readable'
    <3>1. Intact(s, Len(s.edits) - 1)
      BY <2>4 DEF Intact
    <3> QED
      BY <2>4, <2>11, <3>1 DEF Readable, Intact
  <2>14. DiskTypes'
    BY <1>1, <2>1, <2>11, TypesStay DEF DiskInv
  <2>15. FirstOne' /\ FoundLogs' /\ OldOne'
    BY <1>4, <2>11 DEF FirstOne, FoundLogs, OldOne
  <2>16. FoundFiles'
    <3>1. (vs \in VsType)' /\ (edit \in EditType)'
      BY <1>2, <2>1 DEF VsType, EditType, Versions
    <3> QED
      BY <1>2, <2>1, <3>1 DEF FoundFiles, FilesOf
  <2>17. FoundAll'
    <3>1. Found' = Found
      BY <2>1 DEF Found
    <3> QED
      BY <2>1, <2>6, <3>1 DEF FoundAll, WellNumbered
  <2>18. NewOne'
    BY <1>1, <2>1 DEF OpeningDisk, NewOne, NoEdit, NoFiles
  <2> QED
    BY <2>12, <2>13, <2>14, <2>15, <2>16, <2>17, <2>18 DEF DiskInv, OpeningDisk
<1> QED
  BY <1>3, <1>4 DEF SetCurrentFile, Fails

\* So what DB::Open has recovered is well.
LEMMA DiskRecovers ==
  ASSUME DiskInv, OpeningWell, OpeningDisk
  PROVE  Recovered
<1> SUFFICES ASSUME phase = "install"
             PROVE  LET files == Apply(vs.files, edit)
                    IN /\ {vs.next, vs.last} \subseteq Nat
                       /\ {wal.number, vs.manifest} \cup FilesOf(files) \subseteq 1 .. vs.next - 1
                       /\ FilesOf(files) \subseteq DOMAIN tables
                       /\ WellNumbered(Content(files), vs.last)
  BY DEF Recovered
<1>1. /\ vs \in VsType /\ edit \in EditType /\ edit.del = {} /\ edit.add.l1 = {}
      /\ 1 < vs.manifest /\ vs.manifest < vs.next
      /\ FilesOf(vs.files) \cup edit.add.l0 \subseteq DOMAIN tables \cap 1 .. vs.next - 1
      /\ wal.number \in 1 .. vs.next - 1 /\ WellNumbered(Found, vs.last)
      /\ vs.manifest # 0
  BY DEF OpeningDisk, FoundFiles, FoundAll, FirstOne, OpeningWell
<1>2. PICK v : v = Apply(vs.files, edit)
  OBVIOUS
<1>3. FilesOf(v) = FilesOf(vs.files) \cup edit.add.l0 /\ Tables(tables, v) = Found
  BY <1>1, <1>2, FoundIs
<1>4. Content(v) = Found
  BY <1>3 DEF Content, Tables
<1>5. {vs.next, vs.last} \subseteq Nat /\ vs.manifest \in 1 .. vs.next - 1
  BY <1>1 DEF VsType
<1> QED
  BY <1>1, <1>2, <1>3, <1>4, <1>5

LEMMA OpenedDisk ==
  ASSUME DiskInv, Quiet, OpeningWell, OpeningDisk, Opened
  PROVE  DiskInv' /\ OpeningDisk' /\ SessionDisk'
<1>1. /\ phase = "install" /\ phase' = "up" /\ current' = current /\ edit' = NoEdit /\ current # 0
      /\ UNCHANGED <<mem, imm, wal, op, flush, made, bgError>>
      /\ current = vs.manifest /\ wal.number = edit.log
  BY DEF Opened, memory, writers, OpeningDisk, FirstOne, OpeningWell
<1>2. /\ vs \in VsType /\ edit \in EditType /\ edit.wrote = "no" /\ edit.del = {} /\ edit.add.l1 = {}
      /\ FilesOf(vs.files) \cup edit.add.l0 \subseteq DOMAIN tables \cap 1 .. vs.next - 1
      /\ edit.next = vs.next /\ edit.last = vs.last
      /\ wal.number \in 1 .. vs.next - 1 /\ wal.off = 0
      /\ \A n \in DOMAIN logs : n <= wal.number
      /\ logs[wal.number].cells = <<>>
      /\ WellNumbered(Found, vs.last)
      /\ 1 < vs.manifest /\ vs.manifest < vs.next
  BY <1>1 DEF OpeningDisk, FoundFiles, FoundAll
<1>3. PICK v : v = Apply(vs.files, edit)
  OBVIOUS
<1>4. FilesOf(v) = FilesOf(vs.files) \cup edit.add.l0 /\ Tables(tables, v) = Found /\ v \in Versions
  BY <1>2, <1>3, FoundIs
<1>5. /\ ~Session /\ imm = {} /\ mem = {} /\ op = [c \in Clients |-> Idle] /\ flush = NoOutput
      /\ made = NoOutput /\ reader = NoVersion /\ bgError = FALSE
  BY <1>1 DEF Quiet, Session
<1>6. /\ vs' = [vs EXCEPT !.files = v, !.log = edit.log]
      /\ tables' = Keep(tables, {} \cup UNION {FilesOf(w) : w \in LiveVersions(v, NoVersion)})
      /\ logs' = [n \in {k \in DOMAIN logs : k >= edit.log} |-> logs[n]]
      /\ manifests' = [n \in {k \in DOMAIN manifests : k >= vs.manifest} |-> manifests[n]]
  BY <1>3 DEF Opened, DeleteObsoleteFiles
<1>7. /\ \A k \in FilesOf(v) : k \in DOMAIN tables' /\ tables'[k] = tables[k]
      /\ \A k \in DOMAIN tables' : tables'[k] = tables[k] /\ k \in DOMAIN tables
  <2>1. v # NoVersion
    <3>1. FilesOf(NoVersion) = {0}
      BY DEF NoVersion, FilesOf
    <3>2. 0 \notin FilesOf(v)
      BY <1>2, <1>4
    <3> QED
      BY <3>1, <3>2
  <2>2. v \in LiveVersions(v, NoVersion)
    BY <2>1 DEF LiveVersions
  <2> QED
    BY <1>2, <1>4, <1>6, <2>2 DEF Keep
<1>8. PICK s : s = Snapshot
  OBVIOUS
<1>9. /\ s \in ManifestType /\ s.safe = 2 /\ Len(s.edits) = 2 /\ s.edits[2] = edit /\ Intact(s, 2)
      /\ Ends(s) \subseteq {2} /\ Version(s, 2) = v
  BY <1>2, <1>3, <1>8, SnapshotTyped
<1>10. vs.manifest \in DOMAIN manifests /\ manifests[vs.manifest] = s
  BY <1>1, <1>8 DEF OpeningDisk, NewOne, Snapshot
<1>11. current \in DOMAIN manifests' /\ manifests'[current] = s
       /\ \A n \in DOMAIN manifests' : n \in DOMAIN manifests /\ manifests'[n] = manifests[n]
  <2>1. vs.manifest >= vs.manifest
    BY <1>2 DEF VsType
  <2> QED
    BY <1>1, <1>6, <1>10, <2>1
<1>12. \A n \in DOMAIN logs' : n \in DOMAIN logs /\ logs'[n] = logs[n]
  BY <1>6
<1>13. \A lo : Logged(logs', lo) \subseteq Logged(logs, lo)
  BY <1>12 DEF Logged
<1>14. Logged(logs', edit.log) = {}
  <2> SUFFICES ASSUME NEW e \in Logged(logs', wal.number) PROVE FALSE
    BY <1>1
  <2>1. PICK n \in DOMAIN logs : n >= wal.number /\ e \in Written(logs[n].cells)
    BY <1>12 DEF Logged
  <2>2. n \in Nat /\ n <= wal.number /\ wal.number \in Nat
    BY <1>2 DEF DiskInv, DiskTypes, VsType
  <2>3. n = wal.number
    BY <2>1, <2>2
  <2> QED
    BY <2>1, <2>3, <1>2 DEF Written, Range
<1>15. DiskInv'
  <2>1. \A j \in Ends(s) : Version(s, j) = v
    BY <1>9
  <2>2. manifests[current] = s
    BY <1>1, <1>10
  <2>3. /\ DOMAIN logs' \subseteq Nat /\ \A k \in DOMAIN logs' : logs'[k] \in LogType
        /\ \A k \in DOMAIN manifests' : /\ manifests'[k] \in ManifestType
                                        /\ manifests'[k].safe <= Len(manifests'[k].edits)
    BY <1>11, <1>12 DEF DiskInv, DiskTypes
  <2> QED
    BY <1>1, <1>7, <1>11, <1>13, <2>1, <2>2, <2>3, DiskKept
<1>16. OpeningDisk'
  BY <1>1 DEF OpeningDisk, FirstOne, OldOne, FoundFiles, FoundLogs, FoundAll, NewOne
<1>17. /\ vs'.files = v /\ vs'.log = edit.log /\ vs'.next = vs.next /\ vs'.last = vs.last
       /\ vs'.manifest = vs.manifest
  <2>1. PICK l : l = edit.log
    OBVIOUS
  <2>2. vs' = [vs EXCEPT !.files = v, !.log = l]
    BY <1>6, <2>1
  <2> QED
    BY <1>2, <2>1, <2>2 DEF VsType
<1>18. Descriptor' = s
  BY <1>1, <1>11, <1>17 DEF Descriptor
<1>19. edit'.wrote = "no"
  BY <1>1 DEF NoEdit
<1>20. EndsBefore(vs)'
  <2>1. \A j \in Ends(s) : s.edits[j].next <= vs'.next /\ s.edits[j].last <= vs'.last
                          /\ s.edits[j].log >= vs'.log
    BY <1>2, <1>9, <1>17 DEF VsType, EditType
  <2> QED
    BY <1>18, <2>1 DEF EndsBefore
<1>21. EditReady' /\ EditThere'
  <2>1. (NoEdit)' = NoEdit
    BY DEF NoEdit, NoFiles
  <2> QED
    BY <1>1, <1>19, <2>1 DEF EditReady, EditThere
<1>22. Apart'
  BY <1>1, <1>5 DEF Apart, NoOutput
<1>23. Synced'
  <2>1. s.safe = Len(s.edits) /\ Version(s, Len(s.edits)) = v
    BY <1>9
  <2> QED
    BY <1>17, <1>18, <1>19, <2>1 DEF Synced
<1>24. AfterTorn'
  BY <1>9, <1>18 DEF AfterTorn, Intact
<1>25. KnownWell'
  <2>1. InFlight' = {}
    <3>1. \A c \in Clients : op'[c].pc = "idle"
      BY <1>1, <1>5 DEF Idle
    <3> QED
      BY <3>1 DEF InFlight, Flying
  <2>2. Tables(tables', v) = Tables(tables, v)
    <3>1. FilesOf(v) \cap DOMAIN tables' = FilesOf(v) \cap DOMAIN tables
      BY <1>7
    <3>2. {tables'[k] : k \in FilesOf(v) \cap DOMAIN tables} = {tables[k] : k \in FilesOf(v) \cap DOMAIN tables}
      BY <1>7
    <3> QED
      BY <3>1, <3>2 DEF Tables
  <2>3. Known' \subseteq Found
    <3>1. \A j \in Ends(s) : Tables(tables', Version(s, j)) = Found
      BY <1>4, <1>9, <2>2
    <3>2. UNION {Tables(tables', Version(s, j)) : j \in Ends(s)} \subseteq Found
      BY <3>1
    <3>3. Known' = mem' \cup imm' \cup Tables(tables', v)
                   \cup (UNION {Tables(tables', Version(s, j)) : j \in Ends(s)}) \cup Logged(logs', edit.log)
      BY <1>17, <1>18 DEF Known
    <3> QED
      BY <1>1, <1>4, <1>5, <1>14, <2>2, <3>2, <3>3
  <2>4. Unique(Known' \cup InFlight') /\ \A e \in Known' : e[1] \in 1 .. vs'.last
    BY <1>2, <1>17, <2>1, <2>3 DEF WellNumbered, Unique
  <2>5. (Unique(Known \cup InFlight))'
    BY <2>4
  <2> QED
    BY <2>4, <2>5 DEF KnownWell
<1>26. SessionDisk'
  <2>1. wal'.off \in 0 .. BlockSize /\ vs'.manifest \in 2 .. vs'.next - 1
        /\ (Descriptor.edits[Descriptor.safe].wrote # "torn")'
    BY <1>1, <1>2, <1>9, <1>17, <1>18, BlockAssumption DEF VsType
  <2> QED
    BY <2>1, <1>20, <1>21, <1>22, <1>23, <1>24, <1>25 DEF SessionDisk, DescriptorReady
<1> QED
  BY <1>15, <1>16, <1>26

-----------------------------------------------------------------------------
(***************************************************************************)
(* What all steps of a session need.                                       *)
(***************************************************************************)
LEMMA SessionFacts ==
  ASSUME Session, SessionWell, DiskInv, SessionDisk
  PROVE  /\ current = vs.manifest /\ current # 0 /\ vs.manifest \in DOMAIN manifests
         /\ Descriptor \in ManifestType /\ 2 <= Descriptor.safe
         /\ Descriptor.safe <= Len(Descriptor.edits)
         /\ Len(Descriptor.edits) \in Nat /\ Descriptor.safe \in Nat
         /\ DescriptorWell(Descriptor, tables, logs, vs.manifest)
         /\ Intact(Descriptor, 2)
         /\ ~NestedFaults => Intact(Descriptor, Len(Descriptor.edits) - 1)
         /\ \A j \in Ends(Descriptor) :
               j \in 1 .. Len(Descriptor.edits) /\ Descriptor.edits[j] \in DiskEdit
         /\ vs \in VsType /\ vs.manifest \in 2 .. vs.next - 1
<1>1. current = vs.manifest /\ vs \in VsType /\ vs.manifest \in 2 .. vs.next - 1
  BY DEF SessionWell, FilesThere, Types, SessionDisk, DescriptorReady
<1>2. current > 1 /\ current # 0
  BY <1>1 DEF VsType
<1>3. PICK m : m = Descriptor
  OBVIOUS
<1>4. manifests[current] = m
  BY <1>1, <1>3 DEF Descriptor
<1>5. /\ current \in DOMAIN manifests /\ m \in ManifestType
      /\ m.safe <= Len(m.edits) /\ DescriptorWell(m, tables, logs, current)
  BY <1>2, <1>4, TheDescriptor
<1>6. m.safe >= 2 /\ Intact(m, 2) /\ (~NestedFaults => Intact(m, Len(m.edits) - 1))
  BY <1>2, <1>4 DEF DiskInv, Readable
<1>7. /\ \A j \in Ends(m) : j \in 1 .. Len(m.edits) /\ m.edits[j] \in DiskEdit
      /\ Len(m.edits) \in Nat /\ m.safe \in Nat
  BY <1>5, EndsIn
<1> QED
  BY <1>1, <1>2, <1>3, <1>5, <1>6, <1>7

LEMMA EndFacts ==
  ASSUME Session, SessionWell, DiskInv, SessionDisk, NEW j \in Ends(Descriptor)
  PROVE  /\ j \in 1 .. Len(Descriptor.edits) /\ Descriptor.edits[j] \in DiskEdit
         /\ EndWell(Descriptor, j, tables, logs, vs.manifest)
         /\ FilesOf(Version(Descriptor, j)) \subseteq DOMAIN tables \cap 1 .. Descriptor.edits[j].next - 1
         /\ FilesOf(Version(Descriptor, j)) \subseteq Numbers
         /\ Descriptor.edits[j].next <= vs.next /\ Descriptor.edits[j].last <= vs.last
         /\ Descriptor.edits[j].log >= vs.log
<1>1. /\ j \in 1 .. Len(Descriptor.edits) /\ Descriptor.edits[j] \in DiskEdit
      /\ DescriptorWell(Descriptor, tables, logs, vs.manifest) /\ vs \in VsType
  BY SessionFacts
<1>2. EndWell(Descriptor, j, tables, logs, vs.manifest)
  BY <1>1 DEF DescriptorWell
<1>3. FilesOf(Version(Descriptor, j)) \subseteq DOMAIN tables \cap 1 .. Descriptor.edits[j].next - 1
  BY <1>2 DEF EndWell
<1>4. /\ Descriptor.edits[j].next <= vs.next /\ Descriptor.edits[j].last <= vs.last
      /\ Descriptor.edits[j].log >= vs.log
  BY DEF SessionDisk, DescriptorReady, EndsBefore
<1>5. Descriptor.edits[j].next \in Nat /\ vs.next \in Nat
  BY <1>1 DEF VsType, DiskEdit
<1>6. FilesOf(Version(Descriptor, j)) \subseteq Numbers
  BY <1>3, <1>4, <1>5 DEF Numbers
<1> QED
  BY <1>1, <1>2, <1>3, <1>4, <1>6

\* A step that leaves the descriptor alone, and the counters do not go back.
Steady ==
    /\ vs'.manifest = vs.manifest /\ manifests'[vs.manifest] = manifests[vs.manifest]
    /\ vs'.next >= vs.next /\ vs'.last >= vs.last
    /\ \A j \in Ends(Descriptor) : Descriptor.edits[j].log >= vs'.log
    /\ bgError => bgError'

LEMMA DescriptorStays ==
  ASSUME Steady
  PROVE  Descriptor' = Descriptor
BY DEF Steady, Descriptor

LEMMA SteadySession ==
  ASSUME Session, SessionWell, DiskInv, SessionDisk, SessionWell', Steady,
         flush'.pc = "build" => flush' = flush \/ flush'.to = vs.next,
         made'.pc = "write" => made' = made \/ made'.to = vs.next
  PROVE  /\ vs'.manifest \in 2 .. vs'.next - 1
         /\ (Descriptor.edits[Descriptor.safe].wrote # "torn")'
         /\ EndsBefore(vs)'
         /\ Apart'
<1>1. Descriptor' = Descriptor
  BY DescriptorStays
<1>2. PICK m : m = Descriptor
  OBVIOUS
<1>3. /\ vs \in VsType /\ vs' \in VsType
      /\ vs'.manifest = vs.manifest /\ vs.next <= vs'.next /\ vs.last <= vs'.last
      /\ vs.manifest \in 2 .. vs.next - 1
  BY SessionFacts DEF SessionWell, Types, VsType, Steady
<1>4. \A j \in Ends(m) :
         /\ m.edits[j].next <= vs.next /\ m.edits[j].last <= vs.last /\ m.edits[j].log >= vs'.log
         /\ m.edits[j] \in DiskEdit /\ FilesOf(Version(m, j)) \subseteq Numbers
  BY <1>2, EndFacts DEF Steady
<1>5. vs'.manifest \in 2 .. vs'.next - 1
  BY <1>3 DEF VsType
<1>6. m.edits[m.safe].wrote # "torn"
  BY <1>2 DEF SessionDisk, DescriptorReady
<1>7. EndsBefore(vs)'
  <2>1. \A j \in Ends(m) : /\ m.edits[j].next <= vs'.next /\ m.edits[j].last <= vs'.last
                           /\ m.edits[j].log >= vs'.log
    BY <1>3, <1>4 DEF VsType, DiskEdit
  <2> QED
    BY <1>1, <1>2, <2>1 DEF EndsBefore
<1>8. Apart'
  <2>1. vs.next \notin Numbers
    BY <1>3 DEF VsType, Numbers
  <2>2. \A j \in Ends(m) : /\ flush.pc = "build" => flush.to \notin FilesOf(Version(m, j))
                           /\ made.pc = "write" => made.to \notin FilesOf(Version(m, j))
                           /\ vs.next \notin FilesOf(Version(m, j))
    BY <1>2, <1>4, <2>1 DEF SessionDisk, DescriptorReady, Apart
  <2>3. \A j \in Ends(m) : /\ flush'.pc = "build" => flush'.to \notin FilesOf(Version(m, j))
                           /\ made'.pc = "write" => made'.to \notin FilesOf(Version(m, j))
    BY <2>2
  <2> QED
    BY <1>1, <1>2, <2>3 DEF Apart
<1> QED
  BY <1>1, <1>2, <1>5, <1>6, <1>7, <1>8

-----------------------------------------------------------------------------
(***************************************************************************)
(* The edit.                                                               *)
(***************************************************************************)

\* The table that an edit adds is there, and holds what the memtable that is
\* flushed or the tables of the current version hold.
LEMMA EditKnown ==
  ASSUME SessionWell, edit # NoEdit
  PROVE  /\ FilesOf(edit.add) \subseteq DOMAIN tables
         /\ Tables(tables, edit.add) \subseteq imm \cup Content(vs.files)
<1>1. CASE flush.pc = "edit"
  <2>1. FilesOf(edit.add) = {flush.to} /\ flush.to \in DOMAIN tables /\ tables[flush.to] = imm
    BY <1>1 DEF SessionWell, EditWell, FlushOutput, FilesOf
  <2> QED
    BY <2>1 DEF Tables
<1>2. CASE flush.pc # "edit" /\ bg = "moving"
  <2>1. PICK n \in vs.files.l0 : edit.add = [l0 |-> {}, l1 |-> {n}]
    BY <1>2 DEF SessionWell, EditWell
  <2>2. FilesOf(edit.add) = {n} /\ n \in FilesOf(vs.files) /\ n \in DOMAIN tables
    BY <2>1 DEF SessionWell, FilesThere, FilesOf
  <2> QED
    BY <2>2 DEF Tables, Content
<1>3. CASE flush.pc # "edit" /\ bg # "moving" /\ made.pc = "install"
  <2>1. edit.add = [l0 |-> {}, l1 |-> {made.to}]
    BY <1>3 DEF SessionWell, EditWell
  <2>2. made.to \in DOMAIN tables /\ tables[made.to] \subseteq Content(vs.files)
    BY <1>3 DEF SessionWell, MadeOutput
  <2>3. FilesOf(edit.add) = {made.to}
    BY <2>1 DEF FilesOf
  <2> QED
    BY <2>2, <2>3 DEF Tables
<1> QED
  BY <1>1, <1>2, <1>3 DEF SessionWell, EditWell

LEMMA KnownHolds ==
  /\ mem \cup imm \cup Content(vs.files) \subseteq Known
  /\ Content(vs.files) = Tables(tables, vs.files)
  /\ Logged(logs, vs.log) \subseteq Known
  /\ \A j \in Ends(Descriptor) : Tables(tables, Version(Descriptor, j)) \subseteq Known
<1>1. Content(vs.files) = Tables(tables, vs.files)
  BY DEF Content, Tables
<1>2. PICK all : all = {Tables(tables, Version(Descriptor, j)) : j \in Ends(Descriptor)}
  OBVIOUS
<1>3. /\ mem \cup imm \cup Tables(tables, vs.files) \cup Logged(logs, vs.log) \subseteq Known
      /\ UNION all \subseteq Known
  BY <1>2 DEF Known
<1>4. \A j \in Ends(Descriptor) : Tables(tables, Version(Descriptor, j)) \in all
  BY <1>2
<1> QED
  BY <1>1, <1>3, <1>4

\* While an edit waits to be written, no table changes.
LEMMA EditWaits ==
  ASSUME Session, SessionWell, DiskInv, SessionDisk, SessionWell', Steady, edit' = edit,
         edit # NoEdit => tables' = tables, vs'.log = vs.log
  PROVE  EditReady'
<1> SUFFICES ASSUME edit # NoEdit, edit.wrote = "no" PROVE EditReady'
  <2>1. (NoEdit)' = NoEdit
    BY DEF NoEdit, NoFiles
  <2> QED
    BY <2>1 DEF EditReady
<1>1. /\ EndsBefore(edit)
      /\ edit.next <= vs.next /\ edit.last <= vs.last
      /\ edit.log >= vs.log /\ edit.log < edit.next /\ vs.manifest < edit.next
      /\ FilesOf(edit.add) \subseteq DOMAIN tables \cap 1 .. edit.next - 1
      /\ Upto(Tables(tables, edit.add), edit.last)
  BY DEF SessionDisk, DescriptorReady, EditReady
<1>2. Descriptor' = Descriptor
  BY DescriptorStays
<1>3. vs \in VsType /\ vs' \in VsType /\ edit \in EditType
  BY DEF SessionWell, Types, VsType
<1>4. EndsBefore(edit)'
  BY <1>1, <1>2 DEF EndsBefore
<1>5. edit.next <= vs'.next /\ edit.last <= vs'.last /\ vs'.manifest = vs.manifest
  BY <1>1, <1>3 DEF Steady, VsType, EditType
<1>6. PICK t : t = Tables(tables, edit.add)
  OBVIOUS
<1>7. Tables(tables', edit.add) = t
  BY <1>6
<1>8. FilesOf(edit.add)' = FilesOf(edit.add)
  BY DEF FilesOf
<1> QED
  BY <1>1, <1>4, <1>5, <1>6, <1>7, <1>8 DEF EditReady

LEMMA EditMade ==
  ASSUME Session, SessionWell, DiskInv, SessionDisk, Steady, NEW log, NEW add, NEW del,
         edit' = NewEdit(log, add, del), vs' = vs, tables' = tables,
         log \in vs.log .. wal.number, FilesOf(add) \subseteq DOMAIN tables \cap Numbers,
         Tables(tables, add) \subseteq mem \cup imm \cup Content(vs.files)
  PROVE  EditReady'
<1>1. /\ vs \in VsType /\ wal.number \in Numbers
      /\ \A e \in mem \cup imm \cup Content(vs.files) : e[1] \in 1 .. vs.last
      /\ vs.manifest \in 2 .. vs.next - 1
  BY DEF SessionWell, Types, FilesThere, Numbered, WellNumbered, SessionDisk, DescriptorReady
<1>2. /\ edit'.next = vs.next /\ edit'.last = vs.last /\ edit'.log = log /\ edit'.add = add
  BY DEF NewEdit
<1>3. Descriptor' = Descriptor
  BY DescriptorStays
<1>4. EndsBefore(edit)'
  BY <1>2, <1>3 DEF SessionDisk, DescriptorReady, EndsBefore
<1>5. Upto(Tables(tables, add), vs.last)
  BY <1>1 DEF Upto
<1>6. FilesOf(add) \subseteq DOMAIN tables \cap 1 .. vs.next - 1
  BY DEF Numbers
<1>7. log >= vs.log /\ log < vs.next /\ vs.manifest < vs.next
  BY <1>1 DEF VsType, Numbers
<1>8. vs.next <= vs.next /\ vs.last <= vs.last
  BY <1>1 DEF VsType
<1>9. (EndsBefore(edit) /\ edit.next <= vs.next /\ edit.last <= vs.last /\ edit.log >= vs.log
       /\ edit.log < edit.next /\ vs.manifest < edit.next)'
  BY <1>2, <1>4, <1>7, <1>8
<1>10. (FilesOf(edit.add))' = FilesOf(add) /\ Tables(tables', edit'.add) = Tables(tables, add)
  BY <1>2 DEF FilesOf
<1>11. FilesOf(edit.add)' \subseteq DOMAIN tables' \cap 1 .. edit'.next - 1
  BY <1>2, <1>6, <1>10
<1>12. Upto(Tables(tables', edit'.add), edit'.last)
  BY <1>2, <1>5, <1>10
<1> QED
  BY <1>9, <1>11, <1>12 DEF EditReady

LEMMA SyncedStays ==
  ASSUME Steady, Synced, vs'.files = vs.files, edit'.wrote = edit.wrote,
         edit.wrote = "ok" => edit' = edit
  PROVE  Synced'
<1>1. Descriptor' = Descriptor
  BY DescriptorStays
<1>2. PICK m : m = Descriptor
  OBVIOUS
<1>3. PICK f : f = Apply(vs.files, edit)
  OBVIOUS
<1>4. edit.wrote = "ok" => Apply(vs'.files, edit') = f
  BY <1>3
<1>5. ~bgError' /\ edit.wrote # "failed" =>
        m.safe = Len(m.edits) /\ Version(m, Len(m.edits)) = IF edit.wrote = "ok" THEN f ELSE vs.files
  BY <1>2, <1>3 DEF Synced, Steady
<1> QED
  BY <1>1, <1>2, <1>4, <1>5 DEF Synced

LEMMA ThereStays ==
  ASSUME Steady, EditThere, edit' = edit \/ edit'.wrote # "ok"
  PROVE  EditThere'
<1>1. Descriptor' = Descriptor
  BY DescriptorStays
<1> QED
  BY <1>1 DEF EditThere

\* The work ends, and the edit is installed or given up.
LEMMA EditEnds ==
  ASSUME Steady, Synced, edit' = NoEdit,
         bgError' \/ (edit.wrote = "ok" /\ vs'.files = Apply(vs.files, edit))
                  \/ (edit.wrote = "no" /\ vs'.files = vs.files)
  PROVE  EditReady' /\ Synced' /\ EditThere'
<1>1. Descriptor' = Descriptor
  BY DescriptorStays
<1>2. (NoEdit)' = NoEdit /\ edit'.wrote = "no"
  BY DEF NoEdit, NoFiles
<1>3. EditReady' /\ EditThere'
  BY <1>2 DEF EditReady, EditThere
<1>4. PICK m : m = Descriptor
  OBVIOUS
<1>5. ~bgError' => m.safe = Len(m.edits) /\ Version(m, Len(m.edits)) = vs'.files
  BY <1>4 DEF Synced, Steady
<1>6. Synced'
  BY <1>1, <1>2, <1>4, <1>5 DEF Synced
<1> QED
  BY <1>3, <1>6

-----------------------------------------------------------------------------
(***************************************************************************)
(* A descriptor that ends in a torn record.                                *)
(***************************************************************************)

LEMMA NotTorn ==
  ASSUME AfterTorn, edit.wrote # "failed", edit = NoEdit => ~bgError \/ bg \notin {"off", "scheduled"},
         ~NestedFaults
  PROVE  Intact(Descriptor, Len(Descriptor.edits))
BY DEF AfterTorn

LEMMA TornStays ==
  ASSUME Steady, AfterTorn,
         ~NestedFaults /\ ~Intact(Descriptor, Len(Descriptor.edits)) =>
            \/ edit'.wrote = "failed" /\ (flush'.pc = "edit" => bg' = "flushing")
            \/ edit' = NoEdit /\ bgError' /\ bg' \in {"off", "scheduled"}
  PROVE  AfterTorn'
<1>1. Descriptor' = Descriptor
  BY DescriptorStays
<1>2. (NoEdit)' = NoEdit
  BY DEF NoEdit, NoFiles
<1>3. PICK m : m = Descriptor
  OBVIOUS
<1> QED
  BY <1>1, <1>2, <1>3 DEF AfterTorn, Intact

-----------------------------------------------------------------------------
(***************************************************************************)
(* What a group is writing.                                                *)
(***************************************************************************)

LEMMA NothingFlies ==
  ASSUME \A c \in Clients : op[c].pc \notin Flying
  PROVE  InFlight = {}
BY DEF InFlight

LEMMA NothingFliesThen ==
  ASSUME \A c \in Clients : op'[c].pc \notin Flying
  PROVE  InFlight' = {}
<1>1. Flying' = Flying
  BY DEF Flying
<1> QED
  BY <1>1 DEF InFlight

\* Only the head of the queue works.
LEMMA HeadFlies ==
  ASSUME SessionWell, NEW c \in Clients, op[c].pc \notin {"idle", "wait"}
  PROVE  /\ \A d \in Clients : d # c => op[d].pc \in {"idle", "wait"}
         /\ op[c].pc \notin Flying => InFlight = {}
         /\ op[c].pc \in Flying => InFlight = Entries(Record(c))
<1>1. \A d \in Clients : d # c => op[d].pc \in {"idle", "wait"}
  BY DEF SessionWell, InLine
<1>2. \A d \in Clients : d # c => op[d].pc \notin Flying
  BY <1>1 DEF Flying
<1>3. CASE op[c].pc \notin Flying
  BY <1>1, <1>2, <1>3, NothingFlies
<1>4. CASE op[c].pc \in Flying
  <2>1. {d \in Clients : op[d].pc \in Flying} = {c}
    BY <1>2, <1>4
  <2> QED
    BY <1>1, <1>4, <2>1 DEF InFlight
<1> QED
  BY <1>3, <1>4

LEMMA RecordSame ==
  ASSUME NEW c \in Clients, op'[c].group = op[c].group, vs'.last = vs.last,
         \A i \in DOMAIN op[c].group : op'[op[c].group[i]].batch = op[op[c].group[i]].batch
  PROVE  Record(c)' = Record(c)
<1>1. Batches(c)' = Batches(c)
  BY DEF Batches
<1> QED
  BY <1>1 DEF Record

LEMMA SameFlight ==
  ASSUME vs'.last = vs.last, SessionWell,
         \A c \in Clients : /\ op'[c].pc \in Flying <=> op[c].pc \in Flying
                            /\ op[c].pc \in Flying => op'[c].group = op[c].group
                            /\ op[c].pc # "idle" => op'[c].batch = op[c].batch
  PROVE  InFlight' = InFlight
<1>1. Flying' = Flying
  BY DEF Flying
<1>2. ASSUME NEW c \in Clients, op[c].pc \in Flying
      PROVE  Entries(Record(c))' = Entries(Record(c))
  <2>1. PICK k \in 1 .. Len(queue) : op[c].group = SubSeq(queue, 1, k)
    BY <1>2 DEF SessionWell, InLine, Flying, AtWork
  <2>2. queue \in Seq(Clients) /\ Len(queue) \in Nat
    BY DEF SessionWell, Types
  <2>3. /\ DOMAIN SubSeq(queue, 1, k) = 1 .. k
        /\ \A i \in 1 .. k : SubSeq(queue, 1, k)[i] = queue[i] /\ queue[i] \in Clients
    BY <2>2, SubSeqProperties
  <2>4. \A i \in 1 .. k : op[queue[i]].pc # "idle"
    <3>1. TAKE i \in 1 .. k
    <3>2. i \in 1 .. Len(queue)
      BY <2>2
    <3> QED
      BY <2>3, <3>2 DEF SessionWell, InLine
  <2>5. \A i \in DOMAIN op[c].group : op'[op[c].group[i]].batch = op[op[c].group[i]].batch
    BY <2>1, <2>3, <2>4
  <2>6. Record(c)' = Record(c)
    BY <1>2, <2>5, RecordSame
  <2>7. PICK r : r = Record(c)
    OBVIOUS
  <2> QED
    BY <2>6, <2>7 DEF Entries
<1>3. {d \in Clients : op[d].pc \in Flying}' = {d \in Clients : op[d].pc \in Flying}
  BY <1>1
<1>4. \A c \in {d \in Clients : op[d].pc \in Flying} : Entries(Record(c))' = Entries(Record(c))
  BY <1>2
<1> QED
  BY <1>3, <1>4 DEF InFlight

LEMMA SignalFlight ==
  ASSUME SessionWell, op' = op \/ op' = SignalAll(op), vs'.last = vs.last
  PROVE  InFlight' = InFlight
<1>1. op \in [Clients -> OpType]
  BY DEF SessionWell, Types
<1>2. \A c \in Clients : /\ op'[c].pc \in Flying <=> op[c].pc \in Flying
                         /\ op[c].pc \in Flying => op'[c].group = op[c].group
                         /\ op[c].pc # "idle" => op'[c].batch = op[c].batch
  <2>1. CASE op' = op
    BY <2>1
  <2>2. CASE op' = SignalAll(op)
    <3>1. TAKE c \in Clients
    <3>2. op'[c] = IF op[c].pc = "bgwait" THEN [op[c] EXCEPT !.pc = "room"] ELSE op[c]
      BY <2>2 DEF SignalAll
    <3> QED
      BY <1>1, <3>2 DEF OpType, Flying
  <2> QED
    BY <2>1, <2>2
<1> QED
  BY <1>2, SameFlight

-----------------------------------------------------------------------------
(***************************************************************************)
(* What is known, and what is new.                                         *)
(***************************************************************************)

LEMMA KnownFewer ==
  ASSUME KnownWell, Known' \subseteq Known, InFlight' = InFlight, vs'.last = vs.last
  PROVE  KnownWell'
<1>1. Unique(Known' \cup InFlight') /\ \A e \in Known' : e \in InFlight' \/ e[1] \in 1 .. vs'.last
  BY DEF KnownWell, Unique
<1>2. (Unique(Known \cup InFlight))'
  BY <1>1
<1> QED
  BY <1>1, <1>2 DEF KnownWell

LEMMA KnownThen ==
  ASSUME NEW m, m = Descriptor', NEW n,
         Tables(tables', vs'.files) \subseteq n, mem' \cup imm' \subseteq n,
         \A j \in Ends(m) : Tables(tables', Version(m, j)) \subseteq n,
         Logged(logs', vs'.log) \subseteq n
  PROVE  Known' \subseteq n
<1>1. Known' = mem' \cup imm' \cup Tables(tables', vs'.files)
                 \cup (UNION {Tables(tables', Version(m, j)) : j \in Ends(m)}) \cup Logged(logs', vs'.log)
  BY DEF Known
<1>2. PICK all : all = {Tables(tables', Version(m, j)) : j \in Ends(m)}
  OBVIOUS
<1>3. UNION all \subseteq n
  BY <1>2
<1> QED
  BY <1>1, <1>2, <1>3

LEMMA KnownHoldsThen ==
  ASSUME NEW m, m = Descriptor'
  PROVE  /\ mem' \cup imm' \cup Tables(tables', vs'.files) \subseteq Known'
         /\ Logged(logs', vs'.log) \subseteq Known'
         /\ \A j \in Ends(m) : Tables(tables', Version(m, j)) \subseteq Known'
<1>1. Known' = mem' \cup imm' \cup Tables(tables', vs'.files)
                 \cup (UNION {Tables(tables', Version(m, j)) : j \in Ends(m)}) \cup Logged(logs', vs'.log)
  BY DEF Known
<1>2. PICK all : all = {Tables(tables', Version(m, j)) : j \in Ends(m)}
  OBVIOUS
<1>3. \A j \in Ends(m) : Tables(tables', Version(m, j)) \in all
  BY <1>2
<1> QED
  BY <1>1, <1>2, <1>3

LEMMA LogsLater ==
  ASSUME NEW lg, DOMAIN lg \subseteq Nat, NEW a \in Nat, NEW b \in Nat, a <= b
  PROVE  Logged(lg, b) \subseteq Logged(lg, a)
<1>1. {k \in DOMAIN lg : k >= b} \subseteq {k \in DOMAIN lg : k >= a}
  OBVIOUS
<1> QED
  BY <1>1 DEF Logged

-----------------------------------------------------------------------------
(***************************************************************************)
(* Write.                                                                  *)
(***************************************************************************)

LEMMA RecordIs ==
  ASSUME Types, NEW c \in Clients
  PROVE  IsRecord(Record(c), Len(op[c].group))
<1> DEFINE group == op[c].group
<1>1. vs.last \in Nat /\ group \in Seq(Clients) /\ op \in [Clients -> OpType] /\ Len(group) \in Nat
  BY DEF Types, VsType, OpType
<1>2. Batches(c) \in Seq(Nat) /\ Len(Batches(c)) = Len(group)
  <2>1. DOMAIN group = 1 .. Len(group) /\ \A i \in 1 .. Len(group) : group[i] \in Clients
    BY <1>1
  <2>2. \A i \in 1 .. Len(group) : op[group[i]].batch \in Nat
    BY <1>1, <2>1 DEF OpType
  <2>3. Batches(c) = [i \in 1 .. Len(group) |-> op[group[i]].batch]
    BY <2>1 DEF Batches
  <2>4. Batches(c) \in [1 .. Len(group) -> Nat]
    BY <2>2, <2>3
  <2> QED
    BY <1>1, <2>4, LenProperties
<1> HIDE DEF group
<1>3. PICK b : b = Batches(c)
  OBVIOUS
<1>4. Record(c) = <<vs.last + 1>> \o b /\ <<vs.last + 1>> \in Seq(Nat) /\ vs.last + 1 # 0
  BY <1>1, <1>3 DEF Record
<1>5. Record(c) \in Seq(Nat) /\ Len(Record(c)) = Len(group) + 1 /\ Record(c)[1] = vs.last + 1
  BY <1>1, <1>2, <1>3, <1>4, ConcatProperties
<1> QED
  BY <1>1, <1>4, <1>5 DEF IsRecord, group

\* Write never touches the descriptor or a table.
LEMMA WritersSteady ==
  ASSUME Session, Shapes, SessionWell, SessionWell', DiskInv, SessionDisk,
         NEW c \in Clients, Writer(c) \/ \E sync \in BOOLEAN : Write(c, sync)
  PROVE  Steady /\ DescriptorReady'
<1>1. /\ UNCHANGED <<tables, manifests, current, edit, flush, made, phase>>
      /\ vs'.files = vs.files /\ vs'.log = vs.log /\ vs'.manifest = vs.manifest
      /\ vs'.next \in {vs.next, vs.next + 1}
      /\ bg # "off" => bg' = bg
      /\ bg' \in {bg, "scheduled"}
  BY WritersFrame
<1>2. vs \in VsType /\ op \in [Clients -> OpType]
  BY DEF SessionWell, Types
<1>3. vs'.next >= vs.next
  BY <1>1, <1>2 DEF VsType
<1>4. vs'.last >= vs.last /\ (bgError => bgError')
  <2>1. CASE Finish(c)
    <3>1. vs' = [vs EXCEPT !.last = vs.last + Len(op[c].group)]
      BY <2>1 DEF Finish
    <3>2. Len(op[c].group) \in Nat /\ vs.last \in Nat /\ vs'.last = vs.last + Len(op[c].group)
      BY <1>2, <3>1 DEF OpType, VsType
    <3>3. bgError => bgError'
      BY <2>1, Zenon DEF Finish
    <3> QED
      BY <3>2, <3>3
  <2>2. CASE SwitchMemTable(c)
    <3>1. vs' = [vs EXCEPT !.next = @ + 1] /\ bgError' = bgError
      BY <2>2 DEF SwitchMemTable
    <3> QED
      BY <1>2, <3>1 DEF VsType
  <2>3. CASE ~Finish(c) /\ ~SwitchMemTable(c)
    <3>1. vs' = vs /\ bgError' = bgError
      BY <2>3, Zenon DEF Writer, Write, RoomFails, RoomThere, RoomWaits, SwitchFails, AppendLog, SyncLog
    <3> QED
      BY <1>2, <3>1, SMTT(30) DEF VsType
  <2> QED
    BY <2>1, <2>2, <2>3
<1>5. Steady
  BY <1>1, <1>3, <1>4 DEF Steady, SessionDisk, DescriptorReady, EndsBefore
<1>6. /\ EditReady' /\ EditThere' /\ Synced'
      /\ vs'.manifest \in 2 .. vs'.next - 1
      /\ (Descriptor.edits[Descriptor.safe].wrote # "torn")'
      /\ EndsBefore(vs)' /\ Apart'
  BY <1>1, <1>5, EditWaits, SyncedStays, ThereStays, SteadySession DEF SessionDisk, DescriptorReady
<1>7. AfterTorn'
  <2>1. AfterTorn
    BY DEF SessionDisk, DescriptorReady
  <2>2. ASSUME ~NestedFaults, ~Intact(Descriptor, Len(Descriptor.edits))
        PROVE  \/ edit'.wrote = "failed" /\ (flush'.pc = "edit" => bg' = "flushing")
               \/ edit' = NoEdit /\ bgError' /\ bg' \in {"off", "scheduled"}
    BY <1>1, <1>4, <2>1, <2>2 DEF AfterTorn
  <2> QED
    BY <1>5, <2>1, <2>2, TornStays
<1> QED
  BY <1>5, <1>6, <1>7 DEF DescriptorReady

\* The logs get nothing new, and neither does the memory.
LEMMA LogsFewer ==
  ASSUME Session, SessionWell, DiskInv, SessionDisk, Steady, UNCHANGED <<tables, manifests, current>>,
         DOMAIN logs' \subseteq Nat, \A n \in DOMAIN logs' : logs'[n] \in LogType,
         \A lo : Logged(logs', lo) \subseteq Logged(logs, lo),
         vs'.log = vs.log, vs'.files = vs.files
  PROVE  /\ DiskInv'
         /\ Known' \subseteq Known \cup mem' \cup imm'
<1>1. /\ current = vs.manifest /\ current # 0 /\ vs.manifest \in DOMAIN manifests
  BY SessionFacts
<1>2. PICK m : m = Descriptor
  OBVIOUS
<1>3. Descriptor' = m
  BY <1>2, DescriptorStays
<1>4. /\ \A n \in DOMAIN manifests' : /\ manifests'[n] \in ManifestType
                                      /\ manifests'[n].safe <= Len(manifests'[n].edits)
      /\ current' = current /\ current \in DOMAIN manifests' /\ manifests'[current] = manifests[current]
  BY <1>1 DEF DiskInv, DiskTypes
<1>5. \A j \in Ends(m) : /\ j \in 1 .. Len(m.edits)
                         /\ FilesOf(Version(m, j)) \subseteq DOMAIN tables
  BY <1>2, EndFacts
<1>6. manifests[current] = m
  BY <1>1, <1>2 DEF Descriptor
<1>7. DiskInv'
  BY <1>1, <1>4, <1>5, <1>6, DiskKept
<1>8. /\ mem \cup imm \cup Tables(tables, vs.files) \subseteq Known
      /\ Logged(logs, vs.log) \subseteq Known
      /\ \A j \in Ends(m) : Tables(tables, Version(m, j)) \subseteq Known
  BY <1>2, KnownHolds
<1>9. PICK n : n = Known \cup mem' \cup imm'
  OBVIOUS
<1>10. /\ Tables(tables', vs'.files) \subseteq n /\ mem' \cup imm' \subseteq n
       /\ \A j \in Ends(m) : Tables(tables', Version(m, j)) \subseteq n
       /\ Logged(logs', vs'.log) \subseteq n
  <2>1. Logged(logs', vs.log) \subseteq Known
    BY <1>8
  <2> QED
    BY <1>8, <1>9, <2>1
<1>11. Known' \subseteq n
  BY <1>3, <1>10, KnownThen
<1> QED
  BY <1>7, <1>9, <1>11

\* What each step of Write has still to show.
StepKeepsDisk == DiskInv' /\ wal'.off \in 0 .. BlockSize /\ KnownWell'

LEMMA SameLogs ==
  ASSUME DiskInv, logs' = logs
  PROVE  /\ DOMAIN logs' \subseteq Nat /\ \A n \in DOMAIN logs' : logs'[n] \in LogType
         /\ \A lo : Logged(logs', lo) \subseteq Logged(logs, lo)
BY DEF DiskInv, DiskTypes

\* Steps of the head of the queue before it writes, and new writers.
LEMMA WaitsDisk ==
  ASSUME Session, SessionWell, DiskInv, SessionDisk, NEW c \in Clients, Steady,
         RoomFails(c) \/ RoomThere(c) \/ RoomWaits(c) \/ SwitchFails(c)
            \/ \E sync \in BOOLEAN : Write(c, sync)
  PROVE  StepKeepsDisk
<1>1. UNCHANGED <<logs, tables, manifests, current, vs, wal, mem, imm>>
  BY Zenon DEF RoomFails, RoomThere, RoomWaits, SwitchFails, Write, disk, memory
<1>2. DiskInv' /\ Known' \subseteq Known \cup mem' \cup imm'
  <2>1. vs'.log = vs.log /\ vs'.files = vs.files
    BY <1>1
  <2>2. /\ DOMAIN logs' \subseteq Nat /\ \A n \in DOMAIN logs' : logs'[n] \in LogType
        /\ \A lo : Logged(logs', lo) \subseteq Logged(logs, lo)
    BY <1>1, SameLogs
  <2> QED
    BY <1>1, <2>1, <2>2, LogsFewer
<1>3. Known' \subseteq Known
  BY <1>1, <1>2, KnownHolds
<1>4. op \in [Clients -> OpType]
  BY DEF SessionWell, Types
<1>5. InFlight' = InFlight
  <2>1. CASE \E sync \in BOOLEAN : Write(c, sync)
    <3>1. op[c].pc = "idle" /\ \A d \in Clients : d # c => op'[d] = op[d]
      BY <1>4, <2>1, Zenon DEF Write
    <3>2. op'[c].pc \in {"room", "wait"}
      <4>1. PICK b, s : op' = [op EXCEPT ![c] = [Idle EXCEPT !.batch = b, !.sync = s,
                                                   !.pc = IF queue = <<>> THEN "room" ELSE "wait"]]
        BY <2>1, Zenon DEF Write
      <4>2. op'[c] = [Idle EXCEPT !.batch = b, !.sync = s,
                                  !.pc = IF queue = <<>> THEN "room" ELSE "wait"]
        BY <1>4, <4>1
      <4> QED
        BY <4>2 DEF Idle
    <3>3. \A d \in Clients : /\ op'[d].pc \in Flying <=> op[d].pc \in Flying
                             /\ op[d].pc \in Flying => op'[d].group = op[d].group
                             /\ op[d].pc # "idle" => op'[d].batch = op[d].batch
      BY <3>1, <3>2 DEF Flying
    <3> QED
      BY <1>1, <3>3, SameFlight
  <2>2. CASE op[c].pc = "room"
    <3>1. \A d \in Clients : op[d].pc \notin Flying
      BY <2>2, HeadFlies DEF Flying
    <3>2. InFlight = {}
      BY <3>1, NothingFlies
    <3>3. \A d \in Clients : op'[d].pc \notin Flying
      <4>1. CASE RoomThere(c)
        <5>1. PICK g \in Groups(c) : op' = [op EXCEPT ![c].group = g, ![c].pc = "append"]
          BY <4>1 DEF RoomThere, BuildBatchGroup
        <5>2. op'[c].pc = "append" /\ \A d \in Clients : d # c => op'[d] = op[d]
          BY <1>4, <5>1 DEF OpType
        <5> QED
          BY <3>1, <5>2 DEF Flying
      <4>2. CASE RoomWaits(c)
        <5>1. op' = [op EXCEPT ![c].pc = "bgwait"]
          BY <4>2 DEF RoomWaits
        <5>2. op'[c].pc = "bgwait" /\ \A d \in Clients : d # c => op'[d] = op[d]
          BY <1>4, <5>1 DEF OpType
        <5> QED
          BY <3>1, <5>2 DEF Flying
      <4>3. CASE RoomFails(c) \/ SwitchFails(c)
        <5>1. TAKE d \in Clients
        <5>2. op'[d] = Idle \/ op'[d] = [op[d] EXCEPT !.pc = "room"] \/ op'[d] = op[d]
          BY <4>3 DEF RoomFails, SwitchFails, Leave
        <5>3. Idle.pc = "idle" /\ [op[d] EXCEPT !.pc = "room"].pc = "room"
          BY <1>4 DEF Idle, OpType
        <5> QED
          BY <3>1, <5>2, <5>3 DEF Flying
      <4> QED
        BY <2>2, <4>1, <4>2, <4>3, <1>4 DEF Write
    <3> QED
      BY <3>2, <3>3, NothingFliesThen
  <2> QED
    BY <2>1, <2>2 DEF RoomFails, RoomThere, RoomWaits, SwitchFails
<1>6. KnownWell' /\ wal'.off \in 0 .. BlockSize
  <2>1. KnownWell /\ wal.off \in 0 .. BlockSize
    BY DEF SessionDisk
  <2> QED
    BY <1>1, <1>3, <1>5, <2>1, KnownFewer
<1> QED
  BY <1>2, <1>6 DEF StepKeepsDisk

LEMMA SwitchDisk ==
  ASSUME Session, SessionWell, DiskInv, SessionDisk, NEW c \in Clients, Steady, SwitchMemTable(c)
  PROVE  StepKeepsDisk
<1>1. /\ op[c].pc = "room" /\ imm' = mem /\ mem' = {}
      /\ logs' = With(logs, vs.next, [cells |-> <<>>, safe |-> 0])
      /\ wal' = [number |-> vs.next, off |-> 0, failed |-> FALSE]
      /\ vs' = [vs EXCEPT !.next = @ + 1]
      /\ UNCHANGED <<tables, manifests, current>>
      /\ BuildBatchGroup(c)
  BY DEF SwitchMemTable
<1>2. vs \in VsType /\ op \in [Clients -> OpType]
  BY DEF SessionWell, Types
<1>3. vs'.log = vs.log /\ vs'.files = vs.files /\ vs'.last = vs.last /\ vs.next \in Nat
  BY <1>1, <1>2 DEF VsType
<1>4. PICK l : l = [cells |-> <<>>, safe |-> 0]
  OBVIOUS
<1>5. l \in LogType
  BY <1>4 DEF LogType
<1>6. DOMAIN logs' \subseteq Nat /\ \A n \in DOMAIN logs' : logs'[n] \in LogType
  BY <1>1, <1>3, <1>4, <1>5 DEF DiskInv, DiskTypes, With
<1>7. \A lo : Logged(logs', lo) \subseteq Logged(logs, lo)
  BY <1>1, EmptyLog
<1>8. DiskInv' /\ Known' \subseteq Known \cup mem' \cup imm'
  BY <1>1, <1>3, <1>6, <1>7, LogsFewer
<1>9. Known' \subseteq Known
  BY <1>1, <1>8, KnownHolds
<1>10. InFlight' = {} /\ InFlight = {}
  <2>1. \A d \in Clients : op[d].pc \notin Flying
    BY <1>1, HeadFlies DEF Flying
  <2>2. PICK g \in Groups(c) : op' = [op EXCEPT ![c].group = g, ![c].pc = "append"]
    BY <1>1 DEF BuildBatchGroup
  <2>3. op'[c].pc = "append" /\ \A d \in Clients : d # c => op'[d] = op[d]
    BY <1>2, <2>2 DEF OpType
  <2>4. \A d \in Clients : op'[d].pc \notin Flying
    BY <2>1, <2>3 DEF Flying
  <2> QED
    BY <2>1, <2>4, NothingFlies, NothingFliesThen
<1>11. KnownWell'
  BY <1>3, <1>9, <1>10, KnownFewer DEF SessionDisk
<1> QED
  BY <1>1, <1>8, <1>11, BlockAssumption DEF StepKeepsDisk

LEMMA SyncDisk ==
  ASSUME Session, SessionWell, DiskInv, SessionDisk, NEW c \in Clients, Steady, SyncLog(c)
  PROVE  StepKeepsDisk
<1>1. UNCHANGED <<tables, manifests, current, vs, wal, mem, imm>> /\ op[c].pc = "sync"
  BY DEF SyncLog, memory
<1>2. op \in [Clients -> OpType]
  BY DEF SessionWell, Types
<1>3. /\ DOMAIN logs' \subseteq Nat /\ \A n \in DOMAIN logs' : logs'[n] \in LogType
      /\ DOMAIN logs' = DOMAIN logs /\ \A n \in DOMAIN logs : logs'[n].cells = logs[n].cells
  <2>1. DOMAIN logs \subseteq Nat /\ \A n \in DOMAIN logs : logs[n] \in LogType
    BY DEF DiskInv, DiskTypes
  <2>2. CASE logs' = logs
    BY <2>1, <2>2
  <2>3. CASE logs' # logs
    <3>1. PICK k : k = Len(logs[wal.number].cells)
      OBVIOUS
    <3>2. logs' = [logs EXCEPT ![wal.number].safe = k]
      BY <2>3, <3>1 DEF SyncLog
    <3>3. wal.number \in DOMAIN logs
      BY DEF SessionWell, FilesThere
    <3>4. k \in Nat
      BY <2>1, <3>1, <3>3 DEF LogType
    <3> QED
      BY <2>1, <3>2, <3>4 DEF LogType
  <2> QED
    BY <2>2, <2>3
<1>4. \A lo : Logged(logs', lo) \subseteq Logged(logs, lo)
  BY <1>3 DEF Logged
<1>5. DiskInv' /\ Known' \subseteq Known \cup mem' \cup imm'
  <2>1. vs'.log = vs.log /\ vs'.files = vs.files
    BY <1>1
  <2> QED
    BY <1>1, <1>3, <1>4, <2>1, LogsFewer
<1>6. Known' \subseteq Known
  BY <1>1, <1>5, KnownHolds
<1>7. InFlight' = InFlight
  <2>1. \/ op' = [op EXCEPT ![c].pc = "finish"]
        \/ op' = [op EXCEPT ![c].pc = "syncError", ![c].ok = FALSE]
    BY DEF SyncLog
  <2>2. /\ op'[c].pc \in {"finish", "syncError"} /\ op'[c].group = op[c].group
        /\ op'[c].batch = op[c].batch
        /\ \A d \in Clients : d # c => op'[d] = op[d]
    BY <1>2, <2>1 DEF OpType
  <2>3. \A d \in Clients : /\ op'[d].pc \in Flying <=> op[d].pc \in Flying
                           /\ op[d].pc \in Flying => op'[d].group = op[d].group
                           /\ op[d].pc # "idle" => op'[d].batch = op[d].batch
    BY <1>1, <2>2 DEF Flying
  <2> QED
    BY <1>1, <2>3, SameFlight
<1>8. KnownWell' /\ wal'.off \in 0 .. BlockSize
  <2>1. KnownWell /\ wal.off \in 0 .. BlockSize
    BY DEF SessionDisk
  <2> QED
    BY <1>1, <1>6, <1>7, <2>1, KnownFewer
<1> QED
  BY <1>5, <1>8 DEF StepKeepsDisk

LEMMA FinishDisk ==
  ASSUME Session, SessionWell, DiskInv, SessionDisk, NEW c \in Clients, Steady, Finish(c)
  PROVE  StepKeepsDisk
<1>1. /\ UNCHANGED <<logs, tables, manifests, current, wal, imm>>
      /\ mem' \subseteq mem \cup Entries(Record(c))
      /\ vs' = [vs EXCEPT !.last = vs.last + Len(op[c].group)]
      /\ op[c].pc \in {"finish", "syncError"}
      /\ Leave(c, op[c].group, op[c].ok)
  BY DEF Finish, disk
<1>2. vs \in VsType /\ op \in [Clients -> OpType] /\ Types
  BY DEF SessionWell, Types
<1>3. /\ vs'.log = vs.log /\ vs'.files = vs.files /\ vs'.last = vs.last + Len(op[c].group)
      /\ vs.last \in Nat /\ Len(op[c].group) \in Nat
  BY <1>1, <1>2 DEF VsType, OpType
<1>4. DiskInv' /\ Known' \subseteq Known \cup mem' \cup imm'
  <2>1. /\ DOMAIN logs' \subseteq Nat /\ \A n \in DOMAIN logs' : logs'[n] \in LogType
        /\ \A lo : Logged(logs', lo) \subseteq Logged(logs, lo)
    BY <1>1, SameLogs
  <2> QED
    BY <1>1, <1>3, <2>1, LogsFewer
<1>5. InFlight = Entries(Record(c))
  BY <1>1, HeadFlies DEF Flying
<1>6. InFlight' = {}
  <2>1. op[c].group # <<>> => c \in Range(op[c].group)
    <3>1. PICK k \in 1 .. Len(queue) : op[c].group = SubSeq(queue, 1, k)
      BY <1>1 DEF SessionWell, InLine, AtWork
    <3>2. queue \in Seq(Clients) /\ Len(queue) \in Nat /\ c = queue[1]
      BY <1>1 DEF SessionWell, Types, InLine
    <3>3. DOMAIN op[c].group = 1 .. k /\ op[c].group[1] = queue[1] /\ 1 \in 1 .. k
      BY <3>1, <3>2, SubSeqProperties
    <3> QED
      BY <3>2, <3>3 DEF Range
  <2>2. op[c].group # <<>>
    <3>1. PICK k \in 1 .. Len(queue) : op[c].group = SubSeq(queue, 1, k)
      BY <1>1 DEF SessionWell, InLine, AtWork
    <3>2. queue \in Seq(Clients) /\ Len(queue) \in Nat
      BY <1>2 DEF Types
    <3>3. Len(op[c].group) = k /\ k # 0
      BY <3>1, <3>2, SubSeqProperties
    <3> QED
      BY <3>3
  <2>3. \A d \in Clients : d # c => op[d].pc \notin Flying
    BY <1>1, HeadFlies DEF Flying
  <2>4. \A d \in Clients : op'[d].pc \notin Flying
    <3>1. TAKE d \in Clients
    <3>2. op'[d] = Idle \/ op'[d] = [op[d] EXCEPT !.pc = "room"] \/ (d # c /\ op'[d] = op[d])
      BY <1>1, <2>1, <2>2 DEF Leave
    <3>3. Idle.pc = "idle" /\ [op[d] EXCEPT !.pc = "room"].pc = "room"
      BY <1>2 DEF Idle, OpType
    <3> QED
      BY <2>3, <3>2, <3>3 DEF Flying
  <2> QED
    BY <2>4, NothingFliesThen
<1>7. PICK r : r = Entries(Record(c))
  OBVIOUS
<1>8. Known' \subseteq Known \cup r /\ InFlight = r
  BY <1>1, <1>4, <1>5, <1>7, KnownHolds
<1>9. \A e \in r : e[1] \in 1 .. vs'.last
  <2>1. WellNumbered({}, vs.last)
    BY DEF WellNumbered
  <2>2. WellNumbered({} \cup r, vs.last + Len(op[c].group))
    BY <1>2, <1>7, <2>1, EntriesNumbered
  <2> QED
    BY <1>3, <2>2 DEF WellNumbered
<1>10. Unique(Known \cup r) /\ \A e \in Known : e \in r \/ e[1] \in 1 .. vs.last
  BY <1>8 DEF SessionDisk, KnownWell
<1>11. Unique(Known') /\ \A e \in Known' : e[1] \in 1 .. vs'.last
  BY <1>3, <1>8, <1>9, <1>10 DEF Unique
<1>12. KnownWell'
  <2>1. Unique(Known' \cup InFlight') /\ \A e \in Known' : e \in InFlight' \/ e[1] \in 1 .. vs'.last
    BY <1>6, <1>11 DEF Unique
  <2>2. (Unique(Known \cup InFlight))'
    BY <2>1
  <2> QED
    BY <2>1, <2>2 DEF KnownWell
<1>13. wal'.off \in 0 .. BlockSize
  BY <1>1 DEF SessionDisk
<1> QED
  BY <1>4, <1>12, <1>13 DEF StepKeepsDisk

\* What one log holds more.
LEMMA LogGrows ==
  ASSUME NEW lg, NEW n, NEW x, NEW more, NEW lo, Written(x.cells) \subseteq Written(lg[n].cells) \cup more,
         n \in DOMAIN lg
  PROVE  Logged(With(lg, n, x), lo) \subseteq Logged(lg, lo) \cup more
<1> SUFFICES ASSUME NEW e \in Logged(With(lg, n, x), lo) PROVE e \in Logged(lg, lo) \cup more
  OBVIOUS
<1>1. PICK k \in DOMAIN With(lg, n, x) : k >= lo /\ e \in Written(With(lg, n, x)[k].cells)
  BY DEF Logged
<1>2. k \in DOMAIN lg /\ With(lg, n, x)[k] = IF k = n THEN x ELSE lg[k]
  BY DEF With
<1>3. e \in Written(lg[k].cells) \cup more
  BY <1>1, <1>2
<1> QED
  BY <1>1, <1>2, <1>3 DEF Logged

LEMMA AppendDisk ==
  ASSUME Session, Shapes, SessionWell, DiskInv, SessionDisk, NEW c \in Clients, Steady, AppendLog(c)
  PROVE  StepKeepsDisk
<1>1. UNCHANGED <<tables, manifests, current, vs, mem, imm>> /\ op[c].pc = "append"
  BY Zenon DEF AppendLog
<1>2. vs \in VsType /\ op \in [Clients -> OpType] /\ Types
  BY DEF SessionWell, Types
<1>3. /\ wal.number \in DOMAIN logs /\ wal.number \in Nat /\ vs.log <= wal.number
      /\ logs[wal.number] \in LogType /\ wal.off \in 0 .. BlockSize /\ vs.log \in Nat
  BY <1>2 DEF SessionWell, FilesThere, Types, DiskInv, DiskTypes, SessionDisk, VsType
<1>4. PICK rec, len, file : rec = Record(c) /\ len = Len(op[c].group) /\ file = logs[wal.number]
  OBVIOUS
<1>5. IsRecord(rec, len)
  BY <1>2, <1>4, RecordIs
<1>6. PICK w : /\ w = AddRecord(file.cells, wal.off, rec, len)
                     \/ w \in AddRecordFails(file.cells, wal.off, rec, len)
               /\ logs' = With(logs, wal.number, [file EXCEPT !.cells = w.cells])
               /\ wal' = [wal EXCEPT !.off = w.off] \/ wal' = [wal EXCEPT !.off = w.off, !.failed = TRUE]
               /\ op' = [op EXCEPT ![c].pc = IF op[c].sync THEN "sync" ELSE "finish"]
                     \/ op' = [op EXCEPT ![c].pc = "finish", ![c].ok = FALSE]
  BY <1>4, Zenon DEF AppendLog
<1>7. /\ w.cells \in Seq(Cell) /\ w.off \in 0 .. BlockSize
      /\ Written(w.cells) \subseteq Written(file.cells) \cup Entries(rec)
  BY <1>3, <1>4, <1>5, <1>6, RecordAdded DEF LogType
<1>8. PICK x : x = [file EXCEPT !.cells = w.cells]
  OBVIOUS
<1>9. x \in LogType /\ x.cells = w.cells
  BY <1>3, <1>4, <1>7, <1>8 DEF LogType
<1>10. /\ logs' = With(logs, wal.number, x)
       /\ DOMAIN logs' \subseteq Nat /\ \A n \in DOMAIN logs' : logs'[n] \in LogType
  BY <1>3, <1>6, <1>8, <1>9 DEF With, DiskInv, DiskTypes
<1>11. PICK r : r = Entries(rec)
  OBVIOUS
<1>12. \A lo : Logged(logs', lo) \subseteq Logged(logs, lo) \cup r
  BY <1>3, <1>4, <1>7, <1>9, <1>10, <1>11, LogGrows
<1>13. InFlight = {} /\ InFlight' = r
  <2>1. \A d \in Clients : op[d].pc \notin Flying
    BY <1>1, HeadFlies DEF Flying
  <2>2. /\ op'[c].pc \in {"sync", "finish"} /\ op'[c].group = op[c].group
        /\ op'[c].batch = op[c].batch
        /\ \A d \in Clients : d # c => op'[d] = op[d]
    BY <1>2, <1>6 DEF OpType
  <2>3. \A d \in Clients : op'[d].batch = op[d].batch
    BY <2>2
  <2>4. op[c].group \in Seq(Clients)
    BY <1>2 DEF OpType
  <2>5. \A i \in DOMAIN op[c].group : op'[op[c].group[i]].batch = op[op[c].group[i]].batch
    BY <2>3, <2>4
  <2>6. Record(c)' = rec
    BY <1>1, <1>4, <2>2, <2>5, RecordSame
  <2>7. {d \in Clients : op'[d].pc \in Flying} = {c}
    BY <2>1, <2>2 DEF Flying
  <2>8. Entries(Record(c))' = r
    BY <1>11, <2>6 DEF Entries
  <2>9. InFlight' = r
    <3>1. {d \in Clients : op[d].pc \in Flying}' = {c}
      BY <2>7 DEF Flying
    <3> QED
      BY <2>8, <3>1 DEF InFlight
  <2> QED
    BY <2>1, <2>9, NothingFlies
<1>14. PICK m : m = Descriptor
  OBVIOUS
<1>15. Descriptor' = m
  BY <1>14, DescriptorStays
<1>16. Known' \subseteq Known \cup r
  <2>1. /\ mem \cup imm \cup Tables(tables, vs.files) \subseteq Known
        /\ Logged(logs, vs.log) \subseteq Known
        /\ \A j \in Ends(m) : Tables(tables, Version(m, j)) \subseteq Known
    BY <1>14, KnownHolds
  <2>2. PICK n : n = Known \cup r
    OBVIOUS
  <2>3. /\ Tables(tables', vs'.files) \subseteq n /\ mem' \cup imm' \subseteq n
        /\ \A j \in Ends(m) : Tables(tables', Version(m, j)) \subseteq n
        /\ Logged(logs', vs'.log) \subseteq n
    <3>1. Logged(logs', vs.log) \subseteq Logged(logs, vs.log) \cup r
      BY <1>12
    <3> QED
      BY <1>1, <2>1, <2>2, <3>1
  <2> QED
    BY <1>15, <2>2, <2>3, KnownThen
<1>17. KnownWell' /\ Unique(Known')
  <2>1. WellNumbered(Known, vs.last)
    BY <1>13 DEF SessionDisk, KnownWell, WellNumbered, Unique
  <2>2. WellNumbered(Known \cup r, vs.last + Len(op[c].group))
    BY <1>2, <1>4, <1>11, <2>1, EntriesNumbered
  <2>3. /\ Unique(Known' \cup InFlight')
        /\ \A e \in Known' : e \in InFlight' \/ e[1] \in 1 .. vs'.last
        /\ Unique(Known')
    BY <1>1, <1>13, <1>16, <2>1, <2>2 DEF WellNumbered, Unique
  <2>4. (Unique(Known \cup InFlight))'
    BY <2>3
  <2> QED
    BY <2>3, <2>4 DEF KnownWell
<1>18. wal'.off \in 0 .. BlockSize
  <2>1. wal'.off = w.off
    BY <1>6 DEF Shapes, NoLog
  <2> QED
    BY <1>7, <2>1
<1>19. DescriptorWell(m, tables, logs', vs.manifest)
  <2>1. DescriptorWell(m, tables, logs, vs.manifest)
    BY <1>14, SessionFacts
  <2>2. ASSUME NEW j \in Ends(m)
        PROVE  EndWell(m, j, tables, logs', vs.manifest)
    <3>1. /\ EndWell(m, j, tables, logs, vs.manifest) /\ m.edits[j].log >= vs.log
          /\ m.edits[j] \in DiskEdit
      BY <1>14, <2>2, EndFacts
    <3>2. m.edits[j].log \in Nat
      BY <3>1 DEF DiskEdit
    <3>3. Logged(logs', m.edits[j].log) \subseteq Logged(logs', vs.log)
      BY <1>3, <1>10, <3>1, <3>2, LogsLater
    <3>4. PICK a, b : a = Tables(tables, Version(m, j)) /\ b = Logged(logs', m.edits[j].log)
      OBVIOUS
    <3>5. a \cup b \subseteq Known'
      <4>1. /\ Logged(logs', vs'.log) \subseteq Known'
            /\ \A i \in Ends(m) : Tables(tables', Version(m, i)) \subseteq Known'
        BY <1>15, KnownHoldsThen
      <4> QED
        BY <1>1, <3>3, <3>4, <4>1
    <3>6. Unique(a \cup b)
      BY <1>17, <3>5 DEF Unique
    <3> QED
      BY <3>1, <3>4, <3>6 DEF EndWell
  <2> QED
    BY <2>1, <2>2 DEF DescriptorWell
<1>20. DiskInv'
  <2>1. current = vs.manifest /\ current # 0 /\ vs.manifest \in DOMAIN manifests
    BY SessionFacts
  <2>2. manifests[current] = m
    BY <1>14, <2>1 DEF Descriptor
  <2>3. DiskTypes'
    <3>1. /\ \A n \in DOMAIN logs' : (logs[n] \in LogType)'
          /\ \A n \in DOMAIN manifests' : (manifests[n] \in ManifestType)'
      BY <1>1, <1>10 DEF LogType, Cell, Zeros, HeaderCell, DataCell, ManifestType, DiskEdit, Versions,
         Zero, DiskInv, DiskTypes
    <3> QED
      BY <1>1, <1>10, <3>1 DEF DiskInv, DiskTypes
  <2>4. DiskWell'
    <3>1. (manifests[current])' = m /\ DescriptorWell(m, tables', logs', current')
      BY <1>1, <1>19, <2>1, <2>2
    <3> QED
      BY <1>1, <2>1, <3>1 DEF DiskWell
  <2>5. Readable'
    BY <1>1 DEF DiskInv, Readable
  <2> QED
    BY <2>3, <2>4, <2>5 DEF DiskInv
<1> QED
  BY <1>17, <1>18, <1>20, SMTT(30) DEF StepKeepsDisk

-----------------------------------------------------------------------------
(***************************************************************************)
(* The background thread, between two versions.                            *)
(***************************************************************************)

LEMMA AsideSteady ==
  ASSUME Session, SessionWell, DiskInv, SessionDisk,
         Aside \/ BackgroundCall \/ FlushFails \/ Close, ~ManifestWrite
  PROVE  /\ Steady
         /\ UNCHANGED <<logs, manifests, current, wal, mem, imm>>
         /\ vs'.files = vs.files /\ vs'.log = vs.log /\ vs'.last = vs.last
         /\ BuildTable \/ FinishCompactionOutputFile \/ tables' = tables
         /\ FlushFails \/ bgError' = bgError
         /\ InFlight' = InFlight
<1>1. /\ vs'.files = vs.files /\ vs'.log = vs.log /\ vs'.manifest = vs.manifest
      /\ vs'.last = vs.last
      /\ vs'.next \in {vs.next, vs.next + 1}
      /\ UNCHANGED <<logs, current, wal, mem, imm>>
      /\ BuildTable \/ FinishCompactionOutputFile \/ tables' = tables
  BY AsideFrame
<1>2. manifests' = manifests
  BY DEF Aside, FlushStart, BuildTable, FlushEdit, TrivialMove, PickCompaction, OpenCompactionOutputFile,
     FinishCompactionOutputFile, InstallCompactionResults, Get, CleanupIteratorState, BackgroundCall,
     FlushFails, Close, disk
<1>3. FlushFails \/ bgError' = bgError
  BY DEF Aside, FlushStart, BuildTable, FlushEdit, TrivialMove, PickCompaction, OpenCompactionOutputFile,
     FinishCompactionOutputFile, InstallCompactionResults, Get, CleanupIteratorState, BackgroundCall,
     Close
<1>4. FlushFails => bgError' = TRUE
  BY DEF FlushFails, FlushEnds
<1>5. vs \in VsType
  BY DEF SessionWell, Types
<1>6. Steady
  <2>1. vs'.next >= vs.next /\ vs'.last >= vs.last
    BY <1>1, <1>5 DEF VsType
  <2>2. \A j \in Ends(Descriptor) : Descriptor.edits[j].log >= vs.log
    BY DEF SessionDisk, DescriptorReady, EndsBefore
  <2>3. bgError => bgError'
    BY <1>3, <1>4, Zenon
  <2> QED
    BY <1>1, <1>2, <2>1, <2>2, <2>3 DEF Steady
<1>7. InFlight' = InFlight
  <2>1. op' = op \/ op' = SignalAll(op)
    <3>1. CASE Aside
      BY <3>1, AsideLeaves
    <3>2. CASE BackgroundCall \/ FlushFails
      BY <3>2, SignalsSignal DEF Signals
    <3>3. CASE Close
      BY <3>3 DEF Close, writers
    <3> QED
      BY <3>1, <3>2, <3>3
  <2> QED
    BY <1>1, <2>1, SignalFlight
<1> QED
  BY <1>1, <1>2, <1>3, <1>6, <1>7

LEMMA EditFree ==
  ASSUME SessionWell, flush.pc # "edit", bg # "moving", made.pc # "install"
  PROVE  edit = NoEdit
BY DEF SessionWell, EditWell

\* A table that is made belongs to nobody yet.
LEMMA TableApart ==
  ASSUME Session, SessionWell, DiskInv, SessionDisk, Steady,
         UNCHANGED <<logs, manifests, current, mem, imm>>,
         vs'.files = vs.files, vs'.log = vs.log, vs'.last = vs.last, InFlight' = InFlight,
         NEW n, n \notin FilesOf(vs.files),
         \A j \in Ends(Descriptor) : n \notin FilesOf(Version(Descriptor, j)),
         \A k : k # n => /\ k \in DOMAIN tables' <=> k \in DOMAIN tables
                         /\ k \in DOMAIN tables => tables'[k] = tables[k]
  PROVE  DiskInv' /\ KnownWell'
<1>1. /\ current = vs.manifest /\ current # 0 /\ vs.manifest \in DOMAIN manifests
  BY SessionFacts
<1>2. PICK m : m = Descriptor
  OBVIOUS
<1>3. Descriptor' = m
  BY <1>2, DescriptorStays
<1>4. manifests[current] = m
  BY <1>1, <1>2 DEF Descriptor
<1>5. \A j \in Ends(m) : /\ FilesOf(Version(m, j)) \subseteq DOMAIN tables
                         /\ n \notin FilesOf(Version(m, j))
  BY <1>2, EndFacts
<1>6. \A j \in Ends(m) : \A k \in FilesOf(Version(m, j)) : k \in DOMAIN tables' /\ tables'[k] = tables[k]
  BY <1>5
<1>7. DiskInv'
  <2>1. /\ DOMAIN logs' \subseteq Nat /\ \A k \in DOMAIN logs' : logs'[k] \in LogType
        /\ \A k \in DOMAIN manifests' : /\ manifests'[k] \in ManifestType
                                        /\ manifests'[k].safe <= Len(manifests'[k].edits)
        /\ current \in DOMAIN manifests' /\ manifests'[current] = manifests[current]
    BY <1>1 DEF DiskInv, DiskTypes
  <2> QED
    BY <1>1, <1>4, <1>6, <2>1, DiskKept
<1>8. ASSUME NEW v, n \notin FilesOf(v)
      PROVE  Tables(tables', v) = Tables(tables, v)
  <2>1. FilesOf(v) \cap DOMAIN tables' = FilesOf(v) \cap DOMAIN tables
    BY <1>8
  <2>2. {tables'[k] : k \in FilesOf(v) \cap DOMAIN tables} = {tables[k] : k \in FilesOf(v) \cap DOMAIN tables}
    BY <1>8
  <2> QED
    BY <2>1, <2>2 DEF Tables
<1>9. Known' \subseteq Known
  <2>1. /\ mem \cup imm \cup Tables(tables, vs.files) \subseteq Known
        /\ Logged(logs, vs.log) \subseteq Known
        /\ \A j \in Ends(m) : Tables(tables, Version(m, j)) \subseteq Known
    BY <1>2, KnownHolds
  <2>2. /\ Tables(tables', vs'.files) \subseteq Known /\ mem' \cup imm' \subseteq Known
        /\ \A j \in Ends(m) : Tables(tables', Version(m, j)) \subseteq Known
        /\ Logged(logs', vs'.log) \subseteq Known
    BY <1>5, <1>8, <2>1
  <2> QED
    BY <1>3, <2>2, KnownThen
<1>10. KnownWell'
  BY <1>9, KnownFewer DEF SessionDisk
<1> QED
  BY <1>7, <1>10

LEMMA AsideDisk ==
  ASSUME Session, SessionWell, DiskInv, SessionDisk,
         Aside \/ BackgroundCall \/ FlushFails \/ Close, ~ManifestWrite
  PROVE  StepKeepsDisk
<1>1. /\ Steady
      /\ UNCHANGED <<logs, manifests, current, wal, mem, imm>>
      /\ vs'.files = vs.files /\ vs'.log = vs.log /\ vs'.last = vs.last
      /\ BuildTable \/ FinishCompactionOutputFile \/ tables' = tables
      /\ InFlight' = InFlight
  BY AsideSteady
<1>2. wal'.off \in 0 .. BlockSize
  BY <1>1 DEF SessionDisk
<1>3. \E n : /\ n \notin FilesOf(vs.files)
             /\ \A j \in Ends(Descriptor) : n \notin FilesOf(Version(Descriptor, j))
             /\ \A k : k # n => /\ k \in DOMAIN tables' <=> k \in DOMAIN tables
                                /\ k \in DOMAIN tables => tables'[k] = tables[k]
  <2>1. Apart
    BY DEF SessionDisk, DescriptorReady
  <2>2. CASE BuildTable
    <3>1. flush.pc = "build" /\ flush.to \notin FilesOf(vs.files)
      BY <2>2 DEF BuildTable, SessionWell, FlushOutput, Held
    <3>2. \A k : k # flush.to => /\ k \in DOMAIN tables' <=> k \in DOMAIN tables
                                 /\ k \in DOMAIN tables => tables'[k] = tables[k]
      BY <2>2 DEF BuildTable, With, Keep
    <3> QED
      BY <2>1, <3>1, <3>2 DEF Apart
  <2>3. CASE FinishCompactionOutputFile
    <3>1. made.pc = "write" /\ made.to \notin FilesOf(vs.files)
      BY <2>3 DEF FinishCompactionOutputFile, Compacting, SessionWell, MadeOutput, Held
    <3>2. \A k : k # made.to => /\ k \in DOMAIN tables' <=> k \in DOMAIN tables
                                /\ k \in DOMAIN tables => tables'[k] = tables[k]
      BY <2>3 DEF FinishCompactionOutputFile, With
    <3> QED
      BY <2>1, <3>1, <3>2 DEF Apart
  <2>4. CASE tables' = tables
    <3>1. vs.next \notin Numbers /\ FilesOf(vs.files) \subseteq Numbers
      BY FreshNumber
    <3>2. \A j \in Ends(Descriptor) : FilesOf(Version(Descriptor, j)) \subseteq Numbers
      BY EndFacts
    <3> QED
      BY <2>4, <3>1, <3>2
  <2> QED
    BY <1>1, <2>2, <2>3, <2>4
<1>4. DiskInv' /\ KnownWell'
  BY <1>1, <1>3, TableApart
<1> QED
  BY <1>2, <1>4 DEF StepKeepsDisk

\* Steps that leave the edit as it is.
LEMMA WaitingReady ==
  ASSUME Session, SessionWell, SessionWell', DiskInv, SessionDisk,
         FlushStart \/ BuildTable \/ PickCompaction \/ OpenCompactionOutputFile
            \/ FinishCompactionOutputFile \/ Get \/ CleanupIteratorState \/ Close \/ BackgroundCall
  PROVE  DescriptorReady'
<1>1. edit' = edit
  BY DEF FlushStart, BuildTable, PickCompaction, OpenCompactionOutputFile,
     FinishCompactionOutputFile, Get, CleanupIteratorState, Close, BackgroundCall, opening
<1>2. ~FlushFails \/ edit = NoEdit \/ edit # NoEdit
  OBVIOUS
<1>3. /\ Steady /\ vs'.files = vs.files /\ vs'.log = vs.log
      /\ BuildTable \/ FinishCompactionOutputFile \/ tables' = tables
  <2>1. CASE ManifestWrite
    BY <1>1, <2>1 DEF ManifestWrite, SessionWell, Types, EditType
  <2>2. CASE ~ManifestWrite
    BY <2>2, AsideSteady DEF Aside
  <2> QED
    BY <2>1, <2>2
<1>4. bgError' = bgError
  BY DEF FlushStart, BuildTable, PickCompaction, OpenCompactionOutputFile,
     FinishCompactionOutputFile, Get, CleanupIteratorState, Close, BackgroundCall
<1>5. /\ BuildTable => flush.pc = "build"
      /\ FinishCompactionOutputFile => flush.pc = "no" /\ made.pc = "write" /\ bg = "compacting"
  BY DEF BuildTable, FinishCompactionOutputFile, Compacting
<1>6. edit # NoEdit => tables' = tables
  BY <1>3, <1>5, EditFree DEF SessionWell, Stages, Types
<1>7. EditReady' /\ EditThere' /\ Synced'
  BY <1>1, <1>3, <1>6, EditWaits, SyncedStays, ThereStays DEF SessionDisk, DescriptorReady
<1>8. /\ flush'.pc = "build" => flush' = flush \/ flush'.to = vs.next
      /\ made'.pc = "write" => made' = made \/ made'.to = vs.next
  <2>1. flush' = flush \/ flush' = [pc |-> "build", to |-> vs.next]
        \/ flush' = [flush EXCEPT !.pc = "built"] \/ flush' = [flush EXCEPT !.pc = "failed"]
    BY DEF FlushStart, BuildTable, PickCompaction, OpenCompactionOutputFile,
       FinishCompactionOutputFile, Get, CleanupIteratorState, Close, BackgroundCall, work
  <2>2. made' = made \/ made' = [pc |-> "open", to |-> 0] \/ made' = [pc |-> "write", to |-> vs.next]
        \/ made' = [made EXCEPT !.pc = "done"] \/ made' = [made EXCEPT !.pc = "failed"]
    BY DEF FlushStart, BuildTable, PickCompaction, OpenCompactionOutputFile,
       FinishCompactionOutputFile, Get, CleanupIteratorState, Close, BackgroundCall, work
  <2>3. flush \in FlushType /\ made \in MadeType
    BY DEF SessionWell, Types
  <2> QED
    BY <2>1, <2>2, <2>3 DEF FlushType, MadeType
<1>9. /\ vs'.manifest \in 2 .. vs'.next - 1
      /\ (Descriptor.edits[Descriptor.safe].wrote # "torn")'
      /\ EndsBefore(vs)' /\ Apart'
  BY <1>3, <1>8, SteadySession
<1>10. AfterTorn'
  <2>1. AfterTorn /\ Stages
    BY DEF SessionDisk, DescriptorReady, SessionWell
  <2>2. ASSUME ~NestedFaults, ~Intact(Descriptor, Len(Descriptor.edits))
        PROVE  \/ edit'.wrote = "failed" /\ (flush'.pc = "edit" => bg' = "flushing")
               \/ edit' = NoEdit /\ bgError' /\ bg' \in {"off", "scheduled"}
    <3>1. CASE Get \/ CleanupIteratorState \/ Close
      <4>1. flush' = flush /\ bg' = bg
        BY <3>1 DEF Get, CleanupIteratorState, Close, work
      <4> QED
        BY <1>1, <1>4, <2>1, <2>2, <4>1 DEF AfterTorn
    <3>2. CASE BackgroundCall
      <4>1. flush' = flush /\ bg = "scheduled" /\ bg' \in {"off", "scheduled"}
        BY <3>2 DEF BackgroundCall, BackgroundEnds, MaybeScheduleCompaction
      <4>2. flush.pc = "no"
        BY <2>1, <4>1 DEF Stages
      <4> QED
        BY <1>1, <1>4, <2>1, <2>2, <4>1, <4>2 DEF AfterTorn
    <3>3. CASE FlushStart \/ BuildTable \/ PickCompaction \/ OpenCompactionOutputFile
                 \/ FinishCompactionOutputFile
      <4>1. /\ flush.pc # "edit" /\ bg # "moving" /\ made.pc # "install"
            /\ bg \notin {"off", "scheduled"} \/ ~bgError
        BY <2>1, <3>3 DEF FlushStart, BuildTable, PickCompaction, OpenCompactionOutputFile,
           FinishCompactionOutputFile, Compacting, Working, Stages, SessionWell, Types
      <4>2. edit = NoEdit
        BY <4>1, EditFree
      <4>3. edit.wrote # "failed"
        BY <4>2 DEF NoEdit
      <4> QED
        BY <2>1, <2>2, <4>1, <4>2, <4>3, NotTorn
    <3> QED
      BY <3>1, <3>2, <3>3
  <2> QED
    BY <1>3, <2>1, <2>2, TornStays
<1> QED
  BY <1>7, <1>9, <1>10 DEF DescriptorReady

\* LogAndApply begins.
LEMMA NewEditReady ==
  ASSUME Session, SessionWell, SessionWell', DiskInv, SessionDisk,
         FlushEdit \/ TrivialMove \/ InstallCompactionResults
  PROVE  DescriptorReady'
<1>1. /\ UNCHANGED <<tables, vs, bgError>>
      /\ flush'.pc # "build" \/ flush' = flush
      /\ made'.pc # "write" \/ made' = made
  <2>1. flush \in FlushType /\ made \in MadeType
    BY DEF SessionWell, Types
  <2> QED
    BY <2>1 DEF FlushEdit, TrivialMove, InstallCompactionResults, disk, FlushType, MadeType
<1>2. Stages /\ AfterTorn /\ Types
  BY DEF SessionWell, SessionDisk, DescriptorReady
<1>3. edit = NoEdit /\ (bg \notin {"off", "scheduled"} \/ ~bgError)
  <2>1. /\ flush.pc # "edit" /\ bg # "moving" /\ made.pc # "install"
        /\ bg \notin {"off", "scheduled"} \/ ~bgError
    BY <1>2 DEF FlushEdit, TrivialMove, InstallCompactionResults, Compacting, Working, Stages, Types
  <2> QED
    BY <2>1, EditFree
<1>4. edit.wrote = "no"
  BY <1>3 DEF NoEdit
<1>5. Steady
  <2>1. CASE ManifestWrite
    BY <1>3, <2>1 DEF ManifestWrite
  <2>2. CASE ~ManifestWrite
    BY <2>2, AsideSteady DEF Aside
  <2> QED
    BY <2>1, <2>2
<1>6. \E log, add, del :
         /\ edit' = NewEdit(log, add, del)
         /\ log \in vs.log .. wal.number
         /\ FilesOf(add) \subseteq DOMAIN tables \cap Numbers
         /\ Tables(tables, add) \subseteq mem \cup imm \cup Content(vs.files)
  <2>1. vs.log \in Nat /\ wal.number \in Nat /\ vs.log <= wal.number
    BY <1>2 DEF Types, VsType, SessionWell, FilesThere
  <2>2. CASE FlushEdit
    <3>1. PICK add : add = [NoFiles EXCEPT !.l0 = {flush.to}]
      OBVIOUS
    <3>2. FilesOf(add) = {flush.to}
      BY <3>1 DEF NoFiles, FilesOf
    <3>3. flush.to \in Numbers /\ flush.to \in DOMAIN tables /\ tables[flush.to] = imm
      BY <2>2 DEF FlushEdit, SessionWell, FlushOutput
    <3>4. Tables(tables, add) \subseteq imm
      BY <3>2, <3>3 DEF Tables
    <3>5. edit' = NewEdit(wal.number, add, {})
      BY <2>2, <3>1 DEF FlushEdit
    <3> QED
      BY <2>1, <3>2, <3>3, <3>4, <3>5
  <2>3. CASE TrivialMove
    <3>1. PICK n \in vs.files.l0 : edit' = NewEdit(vs.log, [NoFiles EXCEPT !.l1 = {n}], {n})
      BY <2>3 DEF TrivialMove
    <3>2. PICK add : add = [NoFiles EXCEPT !.l1 = {n}]
      OBVIOUS
    <3>3. FilesOf(add) = {n} /\ n \in FilesOf(vs.files)
      BY <3>1, <3>2 DEF NoFiles, FilesOf
    <3>4. n \in DOMAIN tables \cap Numbers
      BY <3>3 DEF SessionWell, FilesThere
    <3>5. Tables(tables, add) \subseteq Content(vs.files)
      BY <3>3, <3>4 DEF Tables, Content
    <3>6. edit' = NewEdit(vs.log, add, {n})
      BY <3>1, <3>2
    <3> QED
      BY <2>1, <3>3, <3>4, <3>5, <3>6
  <2>4. CASE InstallCompactionResults
    <3>1. PICK add : add = [NoFiles EXCEPT !.l1 = {made.to}]
      OBVIOUS
    <3>2. FilesOf(add) = {made.to}
      BY <3>1 DEF NoFiles, FilesOf
    <3>3. /\ made.to \in Numbers /\ made.to \in DOMAIN tables
          /\ tables[made.to] \subseteq Content(vs.files)
      BY <2>4 DEF InstallCompactionResults, Compacting, SessionWell, MadeOutput
    <3>4. Tables(tables, add) \subseteq Content(vs.files)
      BY <3>2, <3>3 DEF Tables
    <3>5. edit' = NewEdit(vs.log, add, FilesOf(inputs))
      BY <2>4, <3>1 DEF InstallCompactionResults
    <3> QED
      BY <2>1, <3>2, <3>3, <3>4, <3>5
  <2> QED
    BY <2>2, <2>3, <2>4
<1>7. EditReady' /\ edit'.wrote = "no"
  BY <1>1, <1>5, <1>6, EditMade DEF NewEdit
<1>8. EditThere' /\ Synced'
  BY <1>1, <1>4, <1>5, <1>7, SyncedStays, ThereStays DEF SessionDisk, DescriptorReady
<1>9. /\ vs'.manifest \in 2 .. vs'.next - 1
      /\ (Descriptor.edits[Descriptor.safe].wrote # "torn")'
      /\ EndsBefore(vs)' /\ Apart'
  BY <1>1, <1>5, SteadySession
<1>10. AfterTorn'
  <2>1. ~NestedFaults => Intact(Descriptor, Len(Descriptor.edits))
    BY <1>2, <1>3, <1>4, NotTorn
  <2> QED
    BY <1>2, <1>5, <2>1, TornStays
<1> QED
  BY <1>7, <1>8, <1>9, <1>10 DEF DescriptorReady

LEMMA FlushFailsReady ==
  ASSUME Session, SessionWell, SessionWell', DiskInv, SessionDisk, FlushFails
  PROVE  DescriptorReady'
<1>1. /\ edit' = NoEdit /\ bgError' = TRUE /\ flush' = NoOutput /\ made' = made
      /\ bg = "flushing" => bg' \in {"off", "scheduled"}
  BY DEF FlushFails, FlushEnds, BackgroundEnds, MaybeScheduleCompaction
<1>2. Stages /\ AfterTorn /\ Synced /\ Types
  BY DEF SessionWell, SessionDisk, DescriptorReady
<1>3. ~ManifestWrite
  <2>1. flush.pc \in {"failed", "built"} \/ edit.wrote = "failed"
    BY DEF FlushFails
  <2>2. CASE flush.pc \in {"failed", "built"}
    BY <1>2, <2>2, EditFree DEF Stages, ManifestWrite, Types
  <2> QED
    BY <2>1, <2>2 DEF ManifestWrite
<1>4. Steady
  BY <1>3, AsideSteady
<1>5. EditReady' /\ Synced' /\ EditThere'
  BY <1>1, <1>2, <1>4, EditEnds
<1>6. /\ vs'.manifest \in 2 .. vs'.next - 1
      /\ (Descriptor.edits[Descriptor.safe].wrote # "torn")'
      /\ EndsBefore(vs)' /\ Apart'
  BY <1>1, <1>4, SteadySession DEF NoOutput
<1>7. AfterTorn'
  <2>1. ASSUME ~NestedFaults, ~Intact(Descriptor, Len(Descriptor.edits))
        PROVE  bg' \in {"off", "scheduled"}
    <3>1. CASE flush.pc = "edit"
      BY <1>1, <1>2, <2>1, <3>1 DEF AfterTorn, Stages
    <3>2. CASE flush.pc \in {"failed", "built"}
      <4>1. edit = NoEdit
        BY <1>2, <3>2, EditFree DEF Stages, Types
      <4>2. edit.wrote # "failed"
        BY <4>1 DEF NoEdit
      <4> QED
        BY <1>2, <2>1, <3>2, <4>2 DEF AfterTorn, Stages
    <3> QED
      BY <3>1, <3>2 DEF FlushFails
  <2> QED
    BY <1>1, <1>2, <1>4, <2>1, TornStays
<1> QED
  BY <1>5, <1>6, <1>7 DEF DescriptorReady

-----------------------------------------------------------------------------
(***************************************************************************)
(* LogAndApply writes the record.                                          *)
(***************************************************************************)

\* The new end of the descriptor is as well as the last one.
LEMMA NewEnd ==
  ASSUME Session, SessionWell, DiskInv, SessionDisk, edit.wrote = "no", edit # NoEdit,
         NEW g, NEW n, n = Len(Descriptor.edits), Intact(Descriptor, n), g.edits[n + 1] = edit,
         Version(g, n + 1) = Apply(Version(Descriptor, n), edit)
  PROVE  /\ n \in Ends(Descriptor)
         /\ EndWell(g, n + 1, tables, logs, vs.manifest)
         /\ Tables(tables, Version(g, n + 1)) \subseteq Known
         /\ FilesOf(Version(g, n + 1)) \subseteq FilesOf(Version(Descriptor, n)) \cup FilesOf(edit.add)
<1>1. PICK m : m = Descriptor
  OBVIOUS
<1>2. /\ m \in ManifestType /\ n \in Nat /\ 2 <= m.safe /\ m.safe <= n /\ m.safe \in Nat
      /\ vs \in VsType
  BY <1>1, SessionFacts
<1>3. n \in Ends(m)
  BY <1>1, <1>2 DEF Ends
<1>4. edit \in EditType
  BY DEF SessionWell, Types
<1>5. PICK d : d = m.edits[n]
  OBVIOUS
<1>6. /\ d \in DiskEdit /\ EndWell(m, n, tables, logs, vs.manifest)
      /\ FilesOf(Version(m, n)) \subseteq DOMAIN tables \cap 1 .. d.next - 1
  BY <1>1, <1>3, <1>5, EndFacts
<1>7. /\ d.next <= edit.next /\ d.last <= edit.last /\ d.log >= vs.log
      /\ edit.log >= vs.log /\ edit.log < edit.next /\ vs.manifest < edit.next
      /\ FilesOf(edit.add) \subseteq DOMAIN tables \cap 1 .. edit.next - 1
      /\ Upto(Tables(tables, edit.add), edit.last)
  BY <1>1, <1>3, <1>5 DEF SessionDisk, DescriptorReady, EditReady, EndsBefore
<1>8. Version(m, n) \in Versions
  <2>1. m.edits \in Seq(DiskEdit) /\ n \in 0 .. Len(m.edits)
    BY <1>1, <1>2 DEF ManifestType
  <2> QED
    BY <2>1, VersionIs
<1>9. PICK v : v = Version(g, n + 1)
  OBVIOUS
<1>10. v \in Versions /\ FilesOf(v) \subseteq FilesOf(Version(m, n)) \cup FilesOf(edit.add)
  BY <1>1, <1>4, <1>8, <1>9, ApplyTyped DEF EditType
<1>11. FilesOf(v) \subseteq DOMAIN tables \cap 1 .. edit.next - 1
  BY <1>4, <1>6, <1>7, <1>10 DEF DiskEdit, EditType
<1>12. Tables(tables, v) \subseteq Tables(tables, Version(m, n)) \cup Tables(tables, edit.add)
  BY <1>10 DEF Tables
<1>13. Upto(Tables(tables, Version(m, n)), d.last)
  BY <1>5, <1>6 DEF EndWell
<1>14. Upto(Tables(tables, v), edit.last)
  BY <1>4, <1>6, <1>7, <1>12, <1>13 DEF Upto, DiskEdit, EditType
<1>15. Tables(tables, v) \subseteq Known
  <2>1. Tables(tables, Version(m, n)) \subseteq Known
    BY <1>1, <1>3, KnownHolds
  <2>2. Tables(tables, edit.add) \subseteq Known
    BY EditKnown, KnownHolds
  <2> QED
    BY <1>12, <2>1, <2>2
<1>16. Logged(logs, edit.log) \subseteq Known
  <2>1. Logged(logs, edit.log) \subseteq Logged(logs, vs.log)
    BY <1>2, <1>4, <1>7, LogsLater DEF DiskInv, DiskTypes, VsType, EditType
  <2> QED
    BY <2>1, KnownHolds
<1>17. Unique(Tables(tables, v) \cup Logged(logs, edit.log))
  <2>1. Unique(Known)
    BY DEF SessionDisk, KnownWell, Unique
  <2> QED
    BY <1>15, <1>16, <2>1 DEF Unique
<1>18. EndWell(g, n + 1, tables, logs, vs.manifest)
  BY <1>7, <1>9, <1>11, <1>14, <1>17 DEF EndWell
<1> QED
  BY <1>1, <1>3, <1>9, <1>10, <1>15, <1>18

LEMMA TornTyped ==
  Torn \in DiskEdit /\ Torn.wrote = "torn"
BY DEF Torn, NoEdit, NoFiles, DiskEdit, Versions

LEMMA EditOnDisk ==
  ASSUME edit \in EditType, edit.wrote = "no"
  PROVE  edit \in DiskEdit
BY DEF EditType, DiskEdit

LEMMA ManifestWriteIs ==
  ASSUME Session, SessionWell, DiskInv, SessionDisk, ManifestWrite
  PROVE  /\ edit.wrote = "no" /\ edit # NoEdit /\ edit \in DiskEdit
         /\ UNCHANGED <<logs, tables, current, phase, vs, wal, mem, imm, op, bg, flush, made, bgError>>
         /\ \E e \in DiskEdit, safe \in {Descriptor.safe, Len(Descriptor.edits) + 1} :
               /\ manifests' = With(manifests, vs.manifest,
                                    [edits |-> Append(Descriptor.edits, e), safe |-> safe])
               /\ safe = Descriptor.safe \/ e.wrote # "torn"
               /\ \/ /\ e = edit /\ safe = Len(Descriptor.edits) + 1
                     /\ edit' = [edit EXCEPT !.wrote = "ok"]
                  \/ /\ safe = Descriptor.safe
                     /\ edit' = [edit EXCEPT !.wrote = "failed"]
                     /\ \/ e = edit
                        \/ e.wrote = "torn" /\ (~NestedFaults => bg # "compacting" \/ flush.pc # "edit")
<1>1. edit.wrote = "no" /\ edit # NoEdit /\ edit \in EditType
  BY DEF ManifestWrite, SessionWell, Types
<1>2. edit \in DiskEdit
  BY <1>1, EditOnDisk
<1>3. UNCHANGED <<logs, tables, current, phase, vs, wal, mem, imm, op, bg, flush, made, bgError>>
  BY DEF ManifestWrite, memory, writers, work
<1>4. PICK m : m = Descriptor
  OBVIOUS
<1>5. PICK e, safe :
         /\ manifests' = With(manifests, vs.manifest, [edits |-> Append(m.edits, e), safe |-> safe])
         /\ \/ e = edit /\ safe = Len(m.edits) + 1 /\ edit' = [edit EXCEPT !.wrote = "ok"]
            \/ /\ safe = m.safe
               /\ edit' = [edit EXCEPT !.wrote = "failed"]
               /\ e = edit \/ (e = Torn /\ (~NestedFaults => bg # "compacting" \/ flush.pc # "edit"))
  <2>1. ManifestWrite
    OBVIOUS
  <2> QED
    BY <1>4, <2>1, Zenon DEF ManifestWrite, Descriptor
<1>6. e \in DiskEdit /\ safe \in {m.safe, Len(m.edits) + 1} /\ (safe = m.safe \/ e.wrote # "torn")
  BY <1>1, <1>2, <1>5, TornTyped
<1> QED
  BY <1>1, <1>2, <1>3, <1>4, <1>5, <1>6, TornTyped

LEMMA ManifestWriteDisk ==
  ASSUME Session, SessionWell, SessionWell', DiskInv, SessionDisk, ManifestWrite
  PROVE  StepKeepsDisk /\ DescriptorReady'
<1>1. /\ edit.wrote = "no" /\ edit # NoEdit /\ edit \in DiskEdit
      /\ UNCHANGED <<logs, tables, current, phase, vs, wal, mem, imm, op, bg, flush, made, bgError>>
  BY ManifestWriteIs
<1>2. PICK m, n : m = Descriptor /\ n = Len(Descriptor.edits)
  OBVIOUS
<1>3. PICK e \in DiskEdit, safe \in {m.safe, n + 1} :
         /\ manifests' = With(manifests, vs.manifest, [edits |-> Append(m.edits, e), safe |-> safe])
         /\ safe = m.safe \/ e.wrote # "torn"
         /\ \/ e = edit /\ safe = n + 1 /\ edit' = [edit EXCEPT !.wrote = "ok"]
            \/ /\ safe = m.safe
               /\ edit' = [edit EXCEPT !.wrote = "failed"]
               /\ \/ e = edit
                  \/ e.wrote = "torn" /\ (~NestedFaults => bg # "compacting" \/ flush.pc # "edit")
  BY <1>2, ManifestWriteIs
<1>4. PICK g : g = [edits |-> Append(m.edits, e), safe |-> safe]
  OBVIOUS
<1>5. /\ current = vs.manifest /\ current # 0 /\ vs.manifest \in DOMAIN manifests
      /\ m \in ManifestType /\ 2 <= m.safe /\ m.safe <= n /\ n = Len(m.edits) /\ n \in Nat /\ m.safe \in Nat
      /\ DescriptorWell(m, tables, logs, vs.manifest)
      /\ Intact(m, 2) /\ vs \in VsType /\ vs.manifest \in 2 .. vs.next - 1
  BY <1>2, SessionFacts
<1>6. /\ g \in ManifestType /\ g.safe <= Len(g.edits) /\ Len(g.edits) = n + 1 /\ g.safe = safe
      /\ \A i \in 1 .. n : g.edits[i] = m.edits[i]
      /\ g.edits[n + 1] = e
      /\ \A j \in Ends(g) : \/ j \in Ends(m) /\ j \in 1 .. n
                            \/ j = n + 1 /\ e.wrote # "torn" /\ Intact(m, n)
      /\ \A j \in 0 .. n : Version(g, j) = Version(m, j)
      /\ Version(g, n + 1) = Apply(Version(m, n), e)
  <2>1. safe \in {m.safe, Len(m.edits) + 1} /\ m.safe <= Len(m.edits)
    BY <1>5
  <2>2. /\ g \in ManifestType /\ g.safe <= Len(g.edits) /\ Len(g.edits) = Len(m.edits) + 1
        /\ \A i \in 1 .. Len(m.edits) : g.edits[i] = m.edits[i]
        /\ g.edits[Len(m.edits) + 1] = e
        /\ \A j \in Ends(g) : \/ j \in Ends(m) /\ j \in 1 .. Len(m.edits) /\ j < Len(m.edits) + 1
                              \/ /\ j = Len(m.edits) + 1 /\ e.wrote # "torn"
                                 /\ Intact(m, Len(m.edits))
        /\ \A j \in 0 .. Len(m.edits) : Version(g, j) = Version(m, j)
        /\ Version(g, Len(m.edits) + 1) = Apply(Version(m, Len(m.edits)), e)
    <3>1. safe = m.safe \/ e.wrote # "torn"
      BY <1>3
    <3>2. m \in ManifestType /\ e \in DiskEdit
      BY <1>5
    <3>3. /\ g \in ManifestType /\ g.safe <= Len(g.edits) /\ Len(g.edits) = Len(m.edits) + 1
          /\ g.edits[Len(m.edits) + 1] = e
          /\ Version(g, Len(m.edits) + 1) = Apply(Version(m, Len(m.edits)), e)
      BY <1>4, <2>1, <3>1, <3>2, DescriptorGrows
    <3>4. \A i \in 1 .. Len(m.edits) : g.edits[i] = m.edits[i]
      BY <1>4, <2>1, <3>1, <3>2, DescriptorGrows
    <3>5. \A j \in Ends(g) : \/ j \in Ends(m) /\ j \in 1 .. Len(m.edits) /\ j < Len(m.edits) + 1
                             \/ /\ j = Len(m.edits) + 1 /\ e.wrote # "torn"
                                /\ Intact(m, Len(m.edits))
      BY <1>4, <2>1, <3>1, <3>2, DescriptorGrows
    <3>6. \A j \in 0 .. Len(m.edits) : Version(g, j) = Version(m, j)
      BY <1>4, <2>1, <3>1, <3>2, DescriptorGrows
    <3> QED
      BY <3>3, <3>4, <3>5, <3>6
  <2>3. g.safe = safe
    BY <1>4
  <2> QED
    BY <1>5, <2>2, <2>3
<1>7. (Descriptor)' = g /\ vs.manifest \in DOMAIN manifests' /\ manifests'[vs.manifest] = g
      /\ \A k \in DOMAIN manifests' : k = vs.manifest \/ (k \in DOMAIN manifests /\ manifests'[k] = manifests[k])
  BY <1>1, <1>3, <1>4 DEF Descriptor, With
<1>8. AfterTorn /\ Synced /\ Apart /\ EndsBefore(vs) /\ EditReady /\ Stages /\ Types
  BY DEF SessionDisk, DescriptorReady, SessionWell
<1>9. ~NestedFaults => Intact(m, n)
  BY <1>1, <1>2, <1>8, NotTorn
<1>10. e.wrote # "torn" => e = edit
  BY <1>3
<1>11. /\ FilesOf(edit.add) = FilesOf(edit'.add) /\ Apply(vs.files, edit') = Apply(vs.files, edit)
       /\ edit'.log = edit.log /\ edit'.wrote \in {"ok", "failed"}
       /\ (edit'.wrote = "ok" => e = edit /\ safe = n + 1)
  BY <1>1, <1>3 DEF DiskEdit, Apply, FilesOf
<1>12. ASSUME NEW j \in Ends(g)
       PROVE  \/ /\ j \in Ends(m) /\ j \in 1 .. n /\ g.edits[j] = m.edits[j]
                 /\ Version(g, j) = Version(m, j)
              \/ /\ j = n + 1 /\ g.edits[j] = edit /\ n \in Ends(m)
                 /\ EndWell(g, j, tables, logs, vs.manifest)
                 /\ Tables(tables, Version(g, j)) \subseteq Known
                 /\ FilesOf(Version(g, j)) \subseteq FilesOf(Version(m, n)) \cup FilesOf(edit.add)
  <2>1. CASE j \in Ends(m) /\ j \in 1 .. n
    <3>1. j \in 0 .. n
      BY <1>5, <2>1
    <3> QED
      BY <1>6, <2>1, <3>1
  <2>2. CASE j = n + 1 /\ e.wrote # "torn" /\ Intact(m, n)
    <3>1. g.edits[n + 1] = edit /\ Version(g, n + 1) = Apply(Version(m, n), edit)
      BY <1>6, <1>10, <2>2
    <3> QED
      BY <1>1, <1>2, <2>2, <3>1, NewEnd
  <2> QED
    BY <1>6, <2>1, <2>2
<1>13. ASSUME NEW j \in Ends(m)
       PROVE  /\ j \in 1 .. n /\ m.edits[j] \in DiskEdit /\ EndWell(m, j, tables, logs, vs.manifest)
              /\ m.edits[j].next <= vs.next /\ m.edits[j].last <= vs.last /\ m.edits[j].log >= vs.log
              /\ m.edits[j].next <= edit.next
              /\ Tables(tables, Version(m, j)) \subseteq Known
              /\ flush.pc = "build" => flush.to \notin FilesOf(Version(m, j))
              /\ made.pc = "write" => made.to \notin FilesOf(Version(m, j))
  BY <1>1, <1>2, <1>8, EndFacts, KnownHolds DEF Apart, EditReady, EndsBefore
<1>14. DescriptorWell(g, tables, logs, vs.manifest)
  <2>1. ASSUME NEW j \in Ends(g)
        PROVE  EndWell(g, j, tables, logs, vs.manifest)
    BY <1>12, <1>13, EndWellSame
  <2>2. \A j, k \in Ends(g) : j <= k => g.edits[j].next <= g.edits[k].next
    <3>1. TAKE j, k \in Ends(g)
    <3>2. HAVE j <= k
    <3>3. CASE k \in Ends(m) /\ k \in 1 .. n /\ g.edits[k] = m.edits[k]
      <4>1. j \in Ends(m) /\ g.edits[j] = m.edits[j]
        BY <1>5, <1>12, <3>2, <3>3
      <4> QED
        BY <1>5, <3>2, <3>3, <4>1 DEF DescriptorWell
    <3>4. CASE k = n + 1 /\ g.edits[k] = edit
      <4>1. edit.next <= edit.next
        BY <1>1 DEF DiskEdit
      <4> QED
        BY <1>12, <1>13, <3>4, <4>1
    <3> QED
      BY <1>12, <3>3, <3>4
  <2> QED
    BY <2>1, <2>2 DEF DescriptorWell
<1>15. DiskInv'
  <2>1. DiskTypes'
    <3>1. \A k \in DOMAIN manifests' : manifests'[k] \in ManifestType
                                      /\ manifests'[k].safe <= Len(manifests'[k].edits)
      BY <1>6, <1>7 DEF DiskInv, DiskTypes
    <3>2. /\ DOMAIN logs' \subseteq Nat /\ \A k \in DOMAIN logs' : logs'[k] \in LogType
          /\ current' \in Nat
      BY <1>1 DEF DiskInv, DiskTypes
    <3>3. /\ \A k \in DOMAIN logs' : (logs[k] \in LogType)'
          /\ \A k \in DOMAIN manifests' : (manifests[k] \in ManifestType)'
      BY <3>1, <3>2 DEF LogType, Cell, Zeros, HeaderCell, DataCell, ManifestType, DiskEdit, Versions, Zero
    <3> QED
      BY <3>1, <3>2, <3>3 DEF DiskTypes
  <2>2. DiskWell'
    <3>1. (manifests[current])' = g /\ DescriptorWell(g, tables', logs', current') /\ current' # 0
      BY <1>1, <1>5, <1>7, <1>14
    <3> QED
      BY <1>1, <1>5, <1>7, <3>1 DEF DiskWell
  <2>3. Readable'
    <3>1. 2 <= g.safe
      BY <1>3, <1>5, <1>6
    <3>2. Intact(g, 2)
      BY <1>5, <1>6 DEF Intact
    <3>3. ~NestedFaults => Intact(g, Len(g.edits) - 1)
      <4>1. Len(g.edits) - 1 = n
        BY <1>5, <1>6
      <4> QED
        BY <1>6, <1>9, <4>1 DEF Intact
    <3>4. (manifests[current])' = g
      BY <1>1, <1>5, <1>7
    <3> QED
      BY <3>1, <3>2, <3>3, <3>4 DEF Readable, Intact
  <2> QED
    BY <2>1, <2>2, <2>3 DEF DiskInv
<1>16. KnownWell'
  <2>1. InFlight' = InFlight
    BY <1>1, SignalFlight
  <2>2. \A j \in Ends(g) : Tables(tables', Version(g, j)) \subseteq Known
    BY <1>1, <1>12, <1>13
  <2>3. /\ Tables(tables', vs'.files) \subseteq Known /\ mem' \cup imm' \subseteq Known
        /\ Logged(logs', vs'.log) \subseteq Known
    BY <1>1, KnownHolds
  <2>4. Known' \subseteq Known
    BY <1>7, <2>2, <2>3, KnownThen
  <2> QED
    BY <1>1, <2>1, <2>4, KnownFewer DEF SessionDisk
<1>17. (Descriptor.edits[Descriptor.safe].wrote # "torn")'
  <2>1. g.edits[g.safe].wrote # "torn"
    <3>1. CASE safe = m.safe
      <4>1. m.edits[m.safe].wrote # "torn"
        BY <1>2 DEF SessionDisk, DescriptorReady
      <4> QED
        BY <1>5, <1>6, <3>1, <4>1
    <3>2. CASE safe = n + 1 /\ e.wrote # "torn"
      BY <1>6, <3>2
    <3> QED
      BY <1>3, <3>1, <3>2
  <2> QED
    BY <1>7, <2>1
<1>18. EndsBefore(vs)'
  <2>1. /\ edit.next <= vs.next /\ edit.last <= vs.last /\ edit.log >= vs.log
    BY <1>1, <1>8 DEF EditReady
  <2>2. \A j \in Ends(g) : /\ g.edits[j].next <= vs.next /\ g.edits[j].last <= vs.last
                           /\ g.edits[j].log >= vs.log
    BY <1>12, <1>13, <2>1
  <2> QED
    BY <1>1, <1>7, <2>2 DEF EndsBefore
<1>19. EditReady'
  BY <1>11 DEF EditReady
<1>20. Apart'
  <2>1. /\ flush.pc # "build"
        /\ made.pc = "write" => made.to \notin FilesOf(edit.add)
    <3>1. flush.pc = "edit" \/ bg = "moving" \/ made.pc = "install"
      BY <1>1, EditFree
    <3>2. CASE flush.pc = "edit"
      BY <3>2 DEF SessionWell, EditWell, MadeOutput, FilesOf
    <3>3. CASE bg = "moving" \/ made.pc = "install"
      BY <1>8, <3>3 DEF Stages, Types
    <3> QED
      BY <3>1, <3>2, <3>3
  <2>2. \A j \in Ends(g) : made.pc = "write" => made.to \notin FilesOf(Version(g, j))
    BY <1>12, <1>13, <2>1
  <2> QED
    BY <1>1, <1>7, <2>1, <2>2 DEF Apart
<1>21. Synced'
  <2>1. ASSUME ~bgError, edit'.wrote = "ok"
        PROVE  g.safe = Len(g.edits) /\ Version(g, Len(g.edits)) = Apply(vs.files, edit)
    <3>1. Version(m, n) = vs.files
      BY <1>1, <1>2, <1>8, <2>1 DEF Synced
    <3> QED
      BY <1>6, <1>11, <2>1, <3>1
  <2> QED
    BY <1>1, <1>7, <1>11, <2>1 DEF Synced
<1>22. EditThere'
  <2>1. ASSUME edit'.wrote = "ok", NEW j \in Ends(g)
        PROVE  g.edits[j].log >= edit.log
    <3>1. g.safe = n + 1 /\ g.edits[n + 1] = edit /\ Len(g.edits) = n + 1
      BY <1>6, <1>11, <2>1
    <3>2. j = n + 1
      <4>1. /\ j \in 1 .. n + 1
            /\ j >= n + 1 \/ (j + 1 = n + 1 /\ g.edits[n + 1].wrote = "torn")
        BY <3>1 DEF Ends
      <4> QED
        BY <1>1, <1>5, <3>1, <4>1
    <3> QED
      BY <1>1, <3>1, <3>2 DEF DiskEdit
  <2> QED
    BY <1>7, <1>11, <2>1 DEF EditThere
<1>23. AfterTorn'
  <2>1. CASE edit'.wrote = "ok"
    <3>1. ~NestedFaults => Intact(g, Len(g.edits))
      <4>1. g.edits[n + 1].wrote # "torn" /\ Len(g.edits) = n + 1
        BY <1>1, <1>6, <1>11, <2>1
      <4>2. \A i \in 1 .. n + 1 : i \in 1 .. n \/ i = n + 1
        BY <1>5
      <4> QED
        BY <1>6, <1>9, <4>1, <4>2 DEF Intact
    <3> QED
      BY <1>7, <3>1 DEF AfterTorn, Intact
  <2>2. CASE edit'.wrote = "failed"
    <3>1. ASSUME ~NestedFaults, ~Intact(g, Len(g.edits)), flush.pc = "edit"
          PROVE  bg = "flushing"
      <4>1. e.wrote = "torn"
        BY <1>1, <1>5, <1>6, <1>9, <3>1, SMTT(30) DEF Intact
      <4>2. bg # "compacting"
        BY <1>1, <1>3, <3>1, <4>1
      <4> QED
        BY <1>8, <3>1, <4>2 DEF Stages, Types
    <3>2. edit'.wrote = "failed" /\ flush' = flush /\ bg' = bg
      BY <1>1, <2>2
    <3> QED
      BY <1>7, <3>1, <3>2 DEF AfterTorn, Intact
  <2> QED
    BY <1>11, <2>1, <2>2
<1>24. wal'.off \in 0 .. BlockSize /\ vs'.manifest \in 2 .. vs'.next - 1
  BY <1>1, <1>5 DEF SessionDisk
<1> QED
  BY <1>15, <1>16, <1>17, <1>18, <1>19, <1>20, <1>21, <1>22, <1>23, <1>24 DEF StepKeepsDisk, DescriptorReady

-----------------------------------------------------------------------------
(***************************************************************************)
(* A version is installed, and the files that no version needs are deleted.*)
(***************************************************************************)

LEMMA OneEnd ==
  ASSUME Session, SessionWell, DiskInv, SessionDisk, ~bgError, edit.wrote = "ok",
         NEW j \in Ends(Descriptor)
  PROVE  Version(Descriptor, j) = Apply(vs.files, edit)
<1>1. PICK m : m = Descriptor
  OBVIOUS
<1>2. /\ m.safe = Len(m.edits) /\ Version(m, Len(m.edits)) = Apply(vs.files, edit)
      /\ m.edits[m.safe].wrote # "torn" /\ Len(m.edits) \in Nat
  BY <1>1, SessionFacts DEF SessionDisk, DescriptorReady, Synced
<1>3. j = Len(m.edits)
  <2>1. /\ j \in 1 .. Len(m.edits)
        /\ j >= m.safe \/ (j + 1 = m.safe /\ m.edits[m.safe].wrote = "torn")
    BY <1>1 DEF Ends
  <2> QED
    BY <1>2, <2>1
<1> QED
  BY <1>1, <1>2, <1>3

LEMMA ObsoleteDisk ==
  ASSUME Session, SessionWell, DiskInv, SessionDisk, Steady,
         NEW files, NEW log, NEW input, NEW outputs, NEW failed \in BOOLEAN,
         DeleteObsoleteFiles(files, log, input, outputs, failed),
         failed \/ \A j \in Ends(Descriptor) : Version(Descriptor, j) = files,
         files # NoVersion, Tables(tables, files) \subseteq Known,
         vs'.files = files, vs'.last = vs.last, vs'.log \in Nat, vs'.log >= vs.log,
         current' = current, mem' \cup imm' \subseteq mem \cup imm, InFlight' = InFlight
  PROVE  DiskInv' /\ KnownWell'
<1>1. /\ current = vs.manifest /\ current # 0 /\ vs.manifest \in DOMAIN manifests /\ vs \in VsType
  BY SessionFacts
<1>2. /\ DOMAIN tables' \subseteq DOMAIN tables
      /\ \A n \in DOMAIN tables' : tables'[n] = tables[n]
      /\ \A n \in DOMAIN tables : n \in FilesOf(files) => n \in DOMAIN tables'
      /\ \A n \in DOMAIN manifests : n >= vs.manifest => n \in DOMAIN manifests'
  BY ObsoleteDeleted
<1>3. /\ failed => tables' = tables
      /\ \A n \in DOMAIN logs' : n \in DOMAIN logs /\ logs'[n] = logs[n]
      /\ \A n \in DOMAIN manifests' : n \in DOMAIN manifests /\ manifests'[n] = manifests[n]
  BY DEF DeleteObsoleteFiles
<1>4. PICK m : m = Descriptor
  OBVIOUS
<1>5. Descriptor' = m
  BY <1>4, DescriptorStays
<1>6. manifests[current] = m
  BY <1>1, <1>4 DEF Descriptor
<1>7. \A j \in Ends(m) : FilesOf(Version(m, j)) \subseteq DOMAIN tables
  BY <1>4, EndFacts
<1>8. \A j \in Ends(m) : \A n \in FilesOf(Version(m, j)) : n \in DOMAIN tables' /\ tables'[n] = tables[n]
  <2>1. CASE failed
    BY <1>3, <1>7, <2>1
  <2>2. CASE ~failed
    BY <1>2, <1>4, <1>7, <2>2
  <2> QED
    BY <2>1, <2>2
<1>9. \A lo : Logged(logs', lo) \subseteq Logged(logs, lo)
  BY <1>3 DEF Logged
<1>10. DiskInv'
  <2>1. /\ DOMAIN logs' \subseteq Nat /\ \A k \in DOMAIN logs' : logs'[k] \in LogType
        /\ \A k \in DOMAIN manifests' : /\ manifests'[k] \in ManifestType
                                        /\ manifests'[k].safe <= Len(manifests'[k].edits)
    BY <1>3 DEF DiskInv, DiskTypes
  <2>2. current \in DOMAIN manifests' /\ manifests'[current] = manifests[current]
    <3>1. vs.manifest >= vs.manifest
      BY <1>1 DEF VsType
    <3> QED
      BY <1>1, <1>2, <1>3, <3>1
  <2> QED
    BY <1>1, <1>6, <1>8, <1>9, <2>1, <2>2, DiskKept
<1>11. \A v : Tables(tables', v) \subseteq Tables(tables, v)
  BY <1>2 DEF Tables
<1>12. Known' \subseteq Known
  <2>1. /\ mem \cup imm \subseteq Known
        /\ Logged(logs, vs.log) \subseteq Known
        /\ \A j \in Ends(m) : Tables(tables, Version(m, j)) \subseteq Known
    BY <1>4, KnownHolds
  <2>2. Logged(logs', vs'.log) \subseteq Logged(logs, vs.log)
    <3>1. Logged(logs, vs'.log) \subseteq Logged(logs, vs.log)
      BY <1>1, LogsLater DEF DiskInv, DiskTypes, VsType
    <3>2. Logged(logs', vs'.log) \subseteq Logged(logs, vs'.log)
      BY <1>9
    <3> QED
      BY <3>1, <3>2
  <2>3. /\ Tables(tables', vs'.files) \subseteq Known /\ mem' \cup imm' \subseteq Known
        /\ \A j \in Ends(m) : Tables(tables', Version(m, j)) \subseteq Known
        /\ Logged(logs', vs'.log) \subseteq Known
    <3>1. Tables(tables', vs'.files) \subseteq Known
      BY <1>11
    <3>2. \A j \in Ends(m) : Tables(tables', Version(m, j)) \subseteq Known
      BY <1>11, <2>1
    <3> QED
      BY <2>1, <2>2, <3>1, <3>2
  <2> QED
    BY <1>5, <2>3, KnownThen
<1>13. KnownWell'
  BY <1>12, KnownFewer DEF SessionDisk
<1> QED
  BY <1>10, <1>13

LEMMA InstallDisk ==
  ASSUME Session, SessionWell, SessionWell', DiskInv, SessionDisk,
         NEW files, NEW log, NEW input, NEW outputs, NEW failed \in BOOLEAN,
         DeleteObsoleteFiles(files, log, input, outputs, failed),
         (edit.wrote = "ok" /\ files = Apply(vs.files, edit)) \/ (edit.wrote # "ok" /\ failed /\ files = vs.files),
         log = vs.log \/ (edit.wrote = "ok" /\ log = edit.log /\ log = wal.number),
         bgError => failed, bgError => bgError',
         vs'.files = files, vs'.log = log, vs'.next = vs.next, vs'.last = vs.last,
         vs'.manifest = vs.manifest,
         current' = current, wal' = wal, mem' = mem, imm' \subseteq imm, edit' = NoEdit,
         op' = op \/ op' = SignalAll(op),
         flush'.pc = "build" => flush' = flush, made'.pc = "write" => made' = made,
         edit.wrote = "ok" \/ (bgError' /\ bg' \in {"off", "scheduled"})
  PROVE  StepKeepsDisk /\ DescriptorReady'
<1>1. /\ current = vs.manifest /\ current # 0 /\ vs.manifest \in DOMAIN manifests /\ vs \in VsType
      /\ edit \in EditType /\ vs.log <= wal.number /\ wal.number \in Nat
  BY SessionFacts DEF SessionWell, Types, FilesThere
<1>2. log \in Nat /\ log >= vs.log
  BY <1>1 DEF VsType
<1>3. manifests'[vs.manifest] = manifests[vs.manifest]
  <2>1. vs.manifest >= vs.manifest
    BY <1>1 DEF VsType
  <2>2. vs.manifest \in DOMAIN manifests'
    BY <1>1, <2>1, ObsoleteDeleted
  <2>3. \A n \in DOMAIN manifests' : manifests'[n] = manifests[n]
    BY DEF DeleteObsoleteFiles
  <2> QED
    BY <2>2, <2>3
<1>4. AfterTorn /\ Synced /\ EditThere /\ EndsBefore(vs)
  BY DEF SessionDisk, DescriptorReady
<1>5. Steady
  <2>1. \A j \in Ends(Descriptor) : Descriptor.edits[j].log >= log
    BY <1>4 DEF EndsBefore, EditThere
  <2>2. vs'.next >= vs.next /\ vs'.last >= vs.last
    BY <1>1 DEF VsType
  <2> QED
    BY <1>3, <2>1, <2>2 DEF Steady
<1>6. files # NoVersion /\ Tables(tables, files) \subseteq Known
  <2>1. /\ mem \cup imm \cup Tables(tables, vs.files) \subseteq Known
        /\ Content(vs.files) = Tables(tables, vs.files)
    BY KnownHolds
  <2>2. FilesOf(files) \subseteq FilesOf(vs.files) \cup FilesOf(edit.add) /\ 0 \notin FilesOf(files)
    <3>1. FilesOf(vs'.files) \subseteq Numbers'
      BY DEF SessionWell, FilesThere
    <3>2. 0 \notin Numbers'
      BY DEF Numbers
    <3>3. 0 \notin FilesOf(files)
      BY <3>1, <3>2 DEF FilesOf
    <3>4. FilesOf(files) \subseteq FilesOf(vs.files) \cup FilesOf(edit.add)
      BY <1>1, ApplyTyped DEF VsType, EditType
    <3> QED
      BY <3>3, <3>4
  <2>3. CASE edit = NoEdit
    <3>1. files = vs.files
      BY <2>3 DEF NoEdit
    <3> QED
      BY <2>1, <2>2, <3>1 DEF NoVersion, FilesOf
  <2>4. CASE edit # NoEdit
    <3>1. Tables(tables, edit.add) \subseteq Known
      BY <2>1, <2>4, EditKnown
    <3>2. Tables(tables, files) \subseteq Tables(tables, vs.files) \cup Tables(tables, edit.add)
      BY <2>2 DEF Tables
    <3> QED
      BY <2>1, <2>2, <3>1, <3>2 DEF NoVersion, FilesOf
  <2> QED
    BY <2>3, <2>4
<1>7. InFlight' = InFlight
  BY SignalFlight
<1>8. failed \/ \A j \in Ends(Descriptor) : Version(Descriptor, j) = files
  BY OneEnd
<1>9. DiskInv' /\ KnownWell'
  BY <1>2, <1>5, <1>6, <1>7, <1>8, ObsoleteDisk
<1>10. wal'.off \in 0 .. BlockSize
  BY DEF SessionDisk
<1>11. EditReady' /\ Synced' /\ EditThere'
  <2>1. bgError' \/ (edit.wrote = "ok" /\ vs'.files = Apply(vs.files, edit))
    OBVIOUS
  <2> QED
    BY <1>4, <1>5, <2>1, EditEnds
<1>12. /\ vs'.manifest \in 2 .. vs'.next - 1
       /\ (Descriptor.edits[Descriptor.safe].wrote # "torn")'
       /\ EndsBefore(vs)' /\ Apart'
  BY <1>5, SteadySession
<1>13. AfterTorn'
  <2>1. ASSUME ~NestedFaults, ~Intact(Descriptor, Len(Descriptor.edits))
        PROVE  bgError' /\ bg' \in {"off", "scheduled"}
    <3>1. edit.wrote # "ok"
      BY <1>4, <2>1 DEF AfterTorn, NoEdit
    <3> QED
      BY <3>1
  <2> QED
    BY <1>4, <1>5, <2>1, TornStays
<1> QED
  BY <1>9, <1>10, <1>11, <1>12, <1>13 DEF StepKeepsDisk, DescriptorReady

LEMMA FlushInstallDisk ==
  ASSUME Session, SessionWell, SessionWell', DiskInv, SessionDisk, FlushInstall
  PROVE  StepKeepsDisk /\ DescriptorReady'
<1>1. PICK files : files = Apply(vs.files, edit)
  OBVIOUS
<1>2. /\ flush.pc = "edit" /\ edit.wrote = "ok"
      /\ DeleteObsoleteFiles(files, edit.log, inputs, pending, bgError)
      /\ vs' = [vs EXCEPT !.files = files, !.log = edit.log]
      /\ op' = SignalAll(op) /\ bgError' = bgError /\ flush' = NoOutput
      /\ UNCHANGED <<current, mem, wal, made>>
      /\ imm' = {} /\ edit' = NoEdit
  BY <1>1 DEF FlushInstall, FlushEnds, BackgroundEnds
<1>3. edit.log = wal.number /\ vs \in VsType /\ bgError \in BOOLEAN
  BY <1>2 DEF SessionWell, EditWell, Types
<1>4. /\ vs'.files = files /\ vs'.log = edit.log /\ vs'.next = vs.next /\ vs'.last = vs.last
      /\ vs'.manifest = vs.manifest
  BY <1>2, <1>3 DEF VsType
<1>5. flush'.pc # "build" /\ imm' \subseteq imm
  BY <1>2 DEF NoOutput
<1> QED
  BY <1>1, <1>2, <1>3, <1>4, <1>5, InstallDisk

LEMMA MoveInstallDisk ==
  ASSUME Session, SessionWell, SessionWell', DiskInv, SessionDisk, MoveInstall
  PROVE  StepKeepsDisk /\ DescriptorReady'
<1>1. PICK files : files = IF edit.wrote = "ok" THEN Apply(vs.files, edit) ELSE vs.files
  OBVIOUS
<1>2. /\ DeleteObsoleteFiles(files, vs.log, NoVersion, {}, TRUE)
      /\ vs' = [vs EXCEPT !.files = files]
      /\ op' = SignalAll(op) /\ bg' \in {"off", "scheduled"}
      /\ UNCHANGED <<current, mem, imm, wal, made, flush>>
      /\ edit' = NoEdit
  BY <1>1 DEF MoveInstall, BackgroundEnds, MaybeScheduleCompaction, DeleteObsoleteFiles, disk, memory
<1>3. bgError \in BOOLEAN /\ bgError' = (bgError \/ edit.wrote # "ok")
  BY Zenon DEF MoveInstall, SessionWell, Types
<1>4. bgError => bgError'
  BY <1>3, Zenon
<1>5. edit.wrote = "ok" \/ bgError'
  BY <1>3
<1>6. /\ vs'.files = files /\ vs'.log = vs.log /\ vs'.next = vs.next /\ vs'.last = vs.last
      /\ vs'.manifest = vs.manifest
  BY <1>2 DEF VsType, SessionWell, Types
<1> QED
  BY <1>1, <1>2, <1>4, <1>5, <1>6, InstallDisk

LEMMA CleanupCompactionDisk ==
  ASSUME Session, SessionWell, SessionWell', DiskInv, SessionDisk, CleanupCompaction
  PROVE  StepKeepsDisk /\ DescriptorReady'
<1>1. PICK files, failed : /\ files = IF edit.wrote = "ok" THEN Apply(vs.files, edit) ELSE vs.files
                           /\ failed = (bgError \/ edit.wrote # "ok")
  OBVIOUS
<1>2. /\ DeleteObsoleteFiles(files, vs.log, NoVersion, pending \ {made.to}, failed)
      /\ vs' = [vs EXCEPT !.files = files]
      /\ op' = SignalAll(op) /\ bg' \in {"off", "scheduled"}
      /\ UNCHANGED <<current, mem, imm, wal, flush>>
      /\ edit' = NoEdit /\ made' = NoOutput /\ bgError' = failed
  BY <1>1 DEF CleanupCompaction, BackgroundEnds, MaybeScheduleCompaction, memory
<1>3. failed \in BOOLEAN /\ (bgError => failed) /\ (edit.wrote # "ok" => failed)
  BY <1>1
<1>4. /\ vs'.files = files /\ vs'.log = vs.log /\ vs'.next = vs.next /\ vs'.last = vs.last
      /\ vs'.manifest = vs.manifest
  BY <1>2 DEF VsType, SessionWell, Types
<1>5. made'.pc # "write"
  BY <1>2 DEF NoOutput
<1>6. (bgError => bgError') /\ (edit.wrote = "ok" \/ bgError')
  BY <1>2, <1>3
<1> QED
  BY <1>1, <1>2, <1>3, <1>4, <1>5, <1>6, InstallDisk

-----------------------------------------------------------------------------
(***************************************************************************)
(* All steps of a session, and its end.                                    *)
(***************************************************************************)
LEMMA WritesDisk ==
  ASSUME Session, Shapes, SessionWell, SessionWell', DiskInv, SessionDisk,
         NEW c \in Clients, Writer(c) \/ \E sync \in BOOLEAN : Write(c, sync)
  PROVE  StepKeepsDisk /\ DescriptorReady'
<1>1. Steady /\ DescriptorReady'
  BY WritersSteady
<1>2. CASE SwitchMemTable(c)
  BY <1>1, <1>2, SwitchDisk
<1>3. CASE AppendLog(c)
  BY <1>1, <1>3, AppendDisk
<1>4. CASE SyncLog(c)
  BY <1>1, <1>4, SyncDisk
<1>5. CASE Finish(c)
  BY <1>1, <1>5, FinishDisk
<1>6. CASE RoomFails(c) \/ RoomThere(c) \/ RoomWaits(c) \/ SwitchFails(c)
             \/ \E sync \in BOOLEAN : Write(c, sync)
  BY <1>1, <1>6, WaitsDisk
<1> QED
  BY <1>1, <1>2, <1>3, <1>4, <1>5, <1>6 DEF Writer

LEMMA ActsDisk ==
  ASSUME Session, Shapes, SessionWell, SessionWell', Session', DiskInv, SessionDisk, Acts
  PROVE  DiskInv' /\ OpeningDisk' /\ SessionDisk'
<1>1. StepKeepsDisk /\ DescriptorReady'
  <2>1. CASE \E c \in Clients : Writer(c) \/ \E sync \in BOOLEAN : Write(c, sync)
    BY <2>1, WritesDisk
  <2>2. CASE ManifestWrite
    BY <2>2, ManifestWriteDisk
  <2>3. CASE FlushInstall \/ MoveInstall \/ CleanupCompaction
    BY <2>3, FlushInstallDisk, MoveInstallDisk, CleanupCompactionDisk
  <2>4. CASE ~ManifestWrite /\ (FlushEdit \/ TrivialMove \/ InstallCompactionResults)
    BY <2>4, NewEditReady, AsideDisk DEF Aside
  <2>5. CASE ~ManifestWrite /\ FlushFails
    BY <2>5, FlushFailsReady, AsideDisk DEF Aside
  <2>6. CASE ~ManifestWrite /\ (FlushStart \/ BuildTable \/ PickCompaction \/ OpenCompactionOutputFile
               \/ FinishCompactionOutputFile \/ Get \/ CleanupIteratorState \/ Close \/ BackgroundCall)
    BY <2>6, WaitingReady, AsideDisk DEF Aside
  <2> QED
    BY <2>1, <2>2, <2>3, <2>4, <2>5, <2>6 DEF Acts, Background
<1>2. SessionDisk'
  BY <1>1 DEF StepKeepsDisk, SessionDisk
<1>3. OpeningDisk'
  <2>1. current' # 0
    <3>1. current' = vs'.manifest /\ vs'.manifest \in 2 .. vs'.next - 1 /\ vs' \in VsType
      BY <1>1 DEF DescriptorReady, SessionWell, FilesThere, Types
    <3> QED
      BY <3>1 DEF VsType
  <2> QED
    BY <2>1 DEF OpeningDisk, FirstOne, OldOne, FoundFiles, FoundLogs, FoundAll, NewOne, Session
<1> QED
  BY <1>1, <1>2, <1>3 DEF StepKeepsDisk

LEMMA PowerLossDisk ==
  ASSUME DiskInv, PowerLoss
  PROVE  DiskInv' /\ OpeningDisk' /\ SessionDisk'
<1>1. /\ phase' = "down" /\ tables' = tables /\ current' = current
  BY DEF PowerLoss, Gone, Reset
<1>2. PICK cut \in Cuts : logs' = CutLogs(cut) /\ manifests' \in CutManifests
  BY DEF PowerLoss
<1>3. DOMAIN logs' = DOMAIN logs
      /\ \A n \in DOMAIN logs : /\ cut[n] \in logs[n].safe .. Len(logs[n].cells)
                                /\ logs'[n] = [cells |-> SubSeq(logs[n].cells, 1, cut[n]), safe |-> cut[n]]
  BY <1>2 DEF Cuts, CutLogs
<1>4. /\ DOMAIN logs \subseteq Nat /\ \A n \in DOMAIN logs : logs[n] \in LogType
      /\ current \in Nat
      /\ \A n \in DOMAIN manifests : /\ manifests[n] \in ManifestType
                                     /\ manifests[n].safe <= Len(manifests[n].edits)
  BY DEF DiskInv, DiskTypes
<1>5. \A n \in DOMAIN logs : /\ logs'[n] \in LogType
                             /\ Written(logs'[n].cells) \subseteq Written(logs[n].cells)
  <2>1. TAKE n \in DOMAIN logs
  <2>2. PICK s, k : s = logs[n].cells /\ k = cut[n]
    OBVIOUS
  <2>3. s \in Seq(Cell) /\ k \in 0 .. Len(s) /\ k \in Nat
    BY <1>3, <1>4, <2>2 DEF LogType
  <2>4. SubSeq(s, 1, k) \in Seq(Cell) /\ Written(SubSeq(s, 1, k)) \subseteq Written(s)
    BY <2>3, CellsCut
  <2>5. logs'[n] = [cells |-> SubSeq(s, 1, k), safe |-> k]
    BY <1>3, <2>2
  <2> QED
    BY <2>2, <2>3, <2>4, <2>5 DEF LogType
<1>6. \A lo : Logged(logs', lo) \subseteq Logged(logs, lo)
  BY <1>3, <1>5 DEF Logged
<1>7. CASE current = 0
  <2>1. DOMAIN logs = {} /\ DOMAIN logs' = {}
    BY <1>3, <1>7 DEF DiskInv, DiskWell
  <2>2. \A n \in DOMAIN manifests' : /\ manifests'[n] \in ManifestType
                                     /\ manifests'[n].safe <= Len(manifests'[n].edits)
    <3>1. CASE current \notin DOMAIN manifests
      BY <1>2, <1>4, <3>1 DEF CutManifests
    <3>2. CASE current \in DOMAIN manifests
      <4>1. PICK m : m = manifests[current]
        OBVIOUS
      <4>2. PICK k \in m.safe .. Len(m.edits) :
               manifests' = With(manifests, current, [edits |-> SubSeq(m.edits, 1, k), safe |-> k])
        BY <1>2, <3>2, <4>1 DEF CutManifests
      <4>3. PICK x : x = [edits |-> SubSeq(m.edits, 1, k), safe |-> k]
        OBVIOUS
      <4>4. x \in ManifestType /\ x.safe <= Len(x.edits)
        BY <1>4, <3>2, <4>1, <4>3, DescriptorCut
      <4> QED
        BY <1>4, <4>2, <4>3, <4>4 DEF With
    <3> QED
      BY <3>1, <3>2
  <2>3. DiskTypes'
    <3>1. /\ \A n \in DOMAIN logs' : (logs[n] \in LogType)'
          /\ \A n \in DOMAIN manifests' : (manifests[n] \in ManifestType)'
      BY <2>1, <2>2 DEF LogType, Cell, Zeros, HeaderCell, DataCell, ManifestType, DiskEdit, Versions, Zero
    <3> QED
      BY <1>1, <1>4, <2>1, <2>2, <3>1 DEF DiskTypes
  <2>4. DiskWell' /\ Readable'
    BY <1>1, <1>7, <2>1 DEF DiskWell, Readable
  <2> QED
    BY <1>1, <2>3, <2>4, DownWell DEF DiskInv
<1>8. CASE current # 0
  <2>1. PICK m : m = manifests[current]
    OBVIOUS
  <2>2. /\ current \in DOMAIN manifests /\ m \in ManifestType /\ m.safe <= Len(m.edits)
        /\ DescriptorWell(m, tables, logs, current)
    BY <1>8, <2>1, TheDescriptor
  <2>3. PICK k \in m.safe .. Len(m.edits) :
           manifests' = With(manifests, current, [edits |-> SubSeq(m.edits, 1, k), safe |-> k])
    BY <1>2, <2>1, <2>2 DEF CutManifests
  <2>4. PICK x : x = [edits |-> SubSeq(m.edits, 1, k), safe |-> k]
    OBVIOUS
  <2>5. /\ x \in ManifestType /\ x.safe <= Len(x.edits) /\ Len(x.edits) = k /\ x.safe = k
        /\ \A i \in 1 .. k : x.edits[i] = m.edits[i]
        /\ Ends(x) \subseteq Ends(m)
        /\ \A j \in Ends(x) : Version(x, j) = Version(m, j) /\ x.edits[j] = m.edits[j]
    <3>1. k \in m.safe .. Len(m.edits)
      BY <2>3
    <3>2. x \in ManifestType /\ x.safe <= Len(x.edits)
      BY <2>2, <2>4, <3>1, DescriptorCut
    <3>3. Len(x.edits) = k /\ \A i \in 1 .. k : x.edits[i] = m.edits[i]
      BY <2>2, <2>4, <3>1, DescriptorCut
    <3>4. Ends(x) \subseteq Ends(m)
      BY <2>2, <2>4, <3>1, DescriptorCut
    <3>5. \A j \in Ends(x) : Version(x, j) = Version(m, j) /\ x.edits[j] = m.edits[j]
      <4>1. x = [edits |-> SubSeq(m.edits, 1, k), safe |-> k] /\ m \in ManifestType
        BY <2>2, <2>4
      <4> TAKE j \in Ends(x)
      <4>2. Version(x, j) = Version(m, j)
        BY ONLY <3>1, <4>1, j \in Ends(x), DescriptorCut
      <4>3. x.edits[j] = m.edits[j]
        BY <3>3 DEF Ends
      <4> QED
        BY <4>2, <4>3
    <3>6. x.safe = k
      BY <2>4
    <3> QED
      BY <3>2, <3>3, <3>4, <3>5, <3>6
  <2>6. /\ \A n \in DOMAIN manifests' : /\ manifests'[n] \in ManifestType
                                        /\ manifests'[n].safe <= Len(manifests'[n].edits)
        /\ current \in DOMAIN manifests' /\ manifests'[current] = x
    BY <1>4, <2>3, <2>4, <2>5 DEF With
  <2>7. DescriptorWell(x, tables', logs', current')
    <3>1. DescriptorWell(m, tables, logs', current)
      <4>1. \A j \in Ends(m) : \A n \in FilesOf(Version(m, j)) : n \in DOMAIN tables /\ tables[n] = tables[n]
        BY <2>2 DEF DescriptorWell, EndWell
      <4> QED
        BY <1>6, <2>2, <4>1, DescriptorKept
    <3>2. \A j \in Ends(x) : EndWell(x, j, tables, logs', current)
      BY <2>5, <3>1, EndWellSame DEF DescriptorWell
    <3>3. \A i, j \in Ends(x) : i <= j => x.edits[i].next <= x.edits[j].next
      BY <2>5, <3>1 DEF DescriptorWell
    <3> QED
      BY <1>1, <3>2, <3>3 DEF DescriptorWell
  <2>8. DiskTypes'
    <3>1. /\ \A n \in DOMAIN logs' : (logs[n] \in LogType)'
          /\ \A n \in DOMAIN manifests' : (manifests[n] \in ManifestType)'
      BY <1>3, <1>5, <2>6 DEF LogType, Cell, Zeros, HeaderCell, DataCell, ManifestType, DiskEdit, Versions, Zero
    <3> QED
      BY <1>1, <1>3, <1>4, <2>6, <3>1 DEF DiskTypes
  <2>9. (manifests[current])' = x
    BY <1>1, <2>6
  <2>10. DiskWell'
    BY <1>1, <1>8, <2>6, <2>7, <2>9 DEF DiskWell
  <2>11. Readable'
    <3>1. SUFFICES ASSUME current > 1
                   PROVE  /\ x.safe >= 2 /\ Intact(x, 2)
                          /\ ~NestedFaults => Intact(x, Len(x.edits) - 1)
      BY <1>1, <2>9 DEF Readable, Intact
    <3>2. m.safe >= 2 /\ Intact(m, 2) /\ (~NestedFaults => Intact(m, Len(m.edits) - 1))
      BY <2>1, <3>1 DEF DiskInv, Readable
    <3>3. k >= 2 /\ k \in Nat /\ m.safe \in Nat /\ Len(m.edits) \in Nat
      BY <2>2, <2>3, <3>2 DEF ManifestType
    <3>4. k <= Len(m.edits) /\ Len(x.edits) = k /\ x.safe = k
      BY <2>3, <2>5, <3>3
    <3>5. \A i \in 1 .. k : x.edits[i] = m.edits[i]
      BY <2>5
    <3>6. Intact(x, 2)
      BY <3>2, <3>3, <3>5 DEF Intact
    <3>7. ~NestedFaults => Intact(x, k - 1)
      BY <3>2, <3>3, <3>4, <3>5 DEF Intact
    <3> QED
      BY <3>3, <3>4, <3>6, <3>7
  <2> QED
    BY <1>1, <2>8, <2>10, <2>11, DownWell DEF DiskInv
<1> QED
  BY <1>7, <1>8

-----------------------------------------------------------------------------
(***************************************************************************)
(* All steps.                                                              *)
(***************************************************************************)
LEMMA OpeningStepsDisk ==
  ASSUME DiskInv, Quiet, OpeningWell, OpeningDisk, ~Session, Opening
  PROVE  DiskInv' /\ OpeningDisk' /\ SessionDisk'
<1>1. CASE Opened
  BY <1>1, OpenedDisk
<1>2. CASE ~Opened
  <2>1. ~Session'
    BY <1>2, Zenon DEF Session, Opening, NewDB, NewDBCurrent, Open, Recover, RecoverLogFile, SkipLogFile, LogRead,
       NewLogFile, WriteSnapshot, SetCurrentFile, Fails, Reset
  <2>2. SessionDisk'
    BY <2>1 DEF SessionDisk
  <2>3. DiskInv' /\ OpeningDisk'
    <3>1. CASE NewDB
      BY <3>1, NewDBDisk
    <3>2. CASE NewDBCurrent
      BY <3>2, NewDBCurrentDisk
    <3>3. CASE Open
      BY <3>3, OpenDisk
    <3>4. CASE Recover
      BY <3>4, RecoverDisk
    <3>5. CASE RecoverLogFile \/ SkipLogFile
      BY <3>5, RecoverLogFileDisk
    <3>6. CASE NewLogFile
      BY <3>6, NewLogFileDisk
    <3>7. CASE WriteSnapshot
      BY <3>7, WriteSnapshotDisk
    <3>8. CASE SetCurrentFile
      BY <3>8, SetCurrentFileDisk
    <3> QED
      BY <1>2, <3>1, <3>2, <3>3, <3>4, <3>5, <3>6, <3>7, <3>8 DEF Opening
  <2> QED
    BY <2>2, <2>3
<1> QED
  BY <1>1, <1>2

LEMMA StoppingDisk ==
  ASSUME DiskInv, Closed \/ Crash \/ PowerLoss
  PROVE  DiskInv' /\ OpeningDisk' /\ SessionDisk'
<1>1. CASE PowerLoss
  BY <1>1, PowerLossDisk
<1>2. CASE Closed \/ Crash
  <2>1. phase' = "down" /\ UNCHANGED <<logs, tables, manifests, current>>
    BY <1>2 DEF Closed, Crash, Gone, Reset, disk
  <2> QED
    BY <2>1, DiskStays, DownWell
<1> QED
  BY <1>1, <1>2

LEMMA NothingDisk ==
  ASSUME DiskInv, OpeningDisk, SessionDisk, UNCHANGED vars
  PROVE  DiskInv' /\ OpeningDisk' /\ SessionDisk'
<1> USE DEF vars, disk, opening, memory, writers, work, history
<1>1. DiskInv'
  BY DiskStays
<1>2. FirstOne' /\ OldOne' /\ NewOne' /\ FoundFiles'
  BY DEF OpeningDisk, FirstOne, OldOne, NewOne, FoundFiles, NoEdit, NoFiles, VsType, EditType,
     Versions, FilesOf, Ends, Intact
<1>3. FoundLogs' /\ FoundAll'
  BY DEF OpeningDisk, FoundLogs, FoundAll, Found, Tables, FilesOf, Logged, Written
<1>4. SessionDisk'
  <2>1. Session' <=> Session
    BY DEF Session
  <2>2. EditReady => EditReady'
    BY DEF EditReady, EndsBefore, Descriptor
  <2>3. (Apart => Apart') /\ (EditThere => EditThere')
    BY DEF Apart, EditThere, Descriptor
  <2>4. Synced => Synced'
    BY DEF Synced, Descriptor
  <2>5. AfterTorn => AfterTorn'
    BY DEF AfterTorn, Descriptor, NoEdit
  <2>6. EndsBefore(vs) => EndsBefore(vs)'
    BY DEF EndsBefore, Descriptor
  <2>7. DescriptorReady => DescriptorReady'
    BY <2>2, <2>3, <2>4, <2>5, <2>6 DEF DescriptorReady, Descriptor
  <2>8. Known' = Known
    BY DEF Known, Descriptor
  <2>9. InFlight' = InFlight
    <3>1. \A c : Record(c)' = Record(c) /\ op'[c].pc = op[c].pc
      BY DEF Record, Batches
    <3> QED
      BY <3>1 DEF InFlight
  <2>10. KnownWell => KnownWell'
    BY <2>8, <2>9 DEF KnownWell
  <2> QED
    BY <2>1, <2>7, <2>10 DEF SessionDisk
<1> QED
  BY <1>1, <1>2, <1>3, <1>4 DEF OpeningDisk

LEMMA WholeBegins == Init => Whole
<1> SUFFICES ASSUME Init PROVE Whole
  OBVIOUS
<1>1. IInv
  BY IInvBegins
<1>2. DiskInv
  BY DEF Init, DiskInv, DiskTypes, DiskWell, Readable
<1>3. OpeningDisk /\ SessionDisk
  BY DEF Init, OpeningDisk, SessionDisk, Session, FirstOne, OldOne, FoundFiles, FoundLogs, FoundAll, NewOne
<1> QED
  BY <1>1, <1>2, <1>3 DEF Whole

LEMMA WholeStays == Whole /\ [Next]_vars => Whole'
<1> SUFFICES ASSUME Whole, [Next]_vars PROVE Whole'
  OBVIOUS
<1>1. IInv /\ DiskInv /\ OpeningDisk /\ SessionDisk
  BY DEF Whole
<1>2. Recovered
  BY <1>1, DiskRecovers DEF IInv
<1>3. IInv'
  BY <1>1, <1>2, IInvStays
<1>4. CASE UNCHANGED vars
  BY <1>1, <1>3, <1>4, NothingDisk DEF Whole
<1>5. CASE Closed \/ Crash \/ PowerLoss
  BY <1>1, <1>3, <1>5, StoppingDisk DEF Whole
<1>6. CASE Session /\ Acts
  <2>1. Shapes /\ SessionWell
    BY <1>1, <1>6 DEF IInv
  <2>2. Session'
    BY <1>6, <2>1, ActsSession
  <2>3. SessionWell'
    BY <1>3, <2>2 DEF IInv
  <2> QED
    BY <1>1, <1>3, <1>6, <2>1, <2>2, <2>3, ActsDisk DEF Whole
<1>7. CASE ~Session /\ Opening
  <2>1. Quiet /\ OpeningWell
    BY <1>1 DEF IInv
  <2> QED
    BY <1>1, <1>3, <1>7, <2>1, OpeningStepsDisk DEF Whole
<1> QED
  BY <1>1, <1>4, <1>5, <1>6, <1>7, SessionSteps, QuietSteps DEF IInv, Stopping

-----------------------------------------------------------------------------
(***************************************************************************)
(* The theorems.                                                           *)
(***************************************************************************)
LEMMA AlwaysWhole == Spec => []Whole
BY WholeBegins, WholeStays, PTL DEF Spec

LEMMA WholeImplies ==
  ASSUME Whole
  PROVE  WaitersWoken /\ FilesExist /\ SequencesUnique
BY IInvImplies DEF Whole

LEMMA WholeRecovers ==
  ASSUME Whole
  PROVE  Recovered
BY DiskRecovers DEF Whole, IInv

LEMMA WholeOpens ==
  ASSUME Whole, ~NestedFaults
  PROVE  OpensAgain
<1>1. IInv /\ DiskInv /\ OpeningDisk
  BY DEF Whole
<1>2. Recovered
  BY <1>1, DiskRecovers DEF IInv
<1>3. ASSUME current > 1
      PROVE  Recoverable(manifests)
  <2>1. current # 0 /\ current \in Nat
    BY <1>1, <1>3 DEF DiskInv, DiskTypes
  <2>2. PICK m : m = manifests[current]
    OBVIOUS
  <2>3. m \in ManifestType /\ current \in DOMAIN manifests /\ m.safe <= Len(m.edits)
        /\ DescriptorWell(m, tables, logs, current)
    BY <1>1, <2>1, <2>2, TheDescriptor
  <2>4. m.safe >= 2 /\ Intact(m, Len(m.edits) - 1)
    BY <1>1, <1>3, <2>2 DEF DiskInv, Readable
  <2>5. m.edits \in Seq(DiskEdit) /\ Len(m.edits) \in Nat /\ Len(m.edits) >= 2
    BY <2>3, <2>4 DEF ManifestType
  <2>6. ManifestRead(manifests)
    <3>1. EditsRead(manifests) # <<>>
      <4>1. PICK es : es = m.edits
        OBVIOUS
      <4>2. Len(es) >= 2 /\ es \in Seq(DiskEdit) /\ Front(es) = SubSeq(es, 1, Len(es) - 1)
        BY <2>5, <4>1 DEF Front
      <4>3. PICK n : n = Len(es) - 1
        OBVIOUS
      <4>4. n \in Nat /\ n >= 1 /\ n <= Len(es)
        BY <4>2, <4>3
      <4>5. Len(SubSeq(es, 1, n)) = n
        BY <4>2, <4>4
      <4>6. Front(es) # <<>>
        <5>1. Front(es) = SubSeq(es, 1, n)
          BY <4>2, <4>3
        <5>2. PICK s : s = SubSeq(es, 1, n)
          OBVIOUS
        <5>3. Len(s) # 0 /\ Len(<<>>) = 0
          BY <4>4, <4>5, <5>2
        <5> QED
          BY <5>1, <5>2, <5>3
      <4>7. es # <<>>
        BY <4>2
      <4> QED
        BY <2>2, <4>1, <4>6, <4>7 DEF EditsRead
    <3>2. \A i \in 1 .. Len(manifests[current].edits) - 1 : manifests[current].edits[i].wrote # "torn"
      BY <2>2, <2>4 DEF Intact
    <3> QED
      BY <2>3, <3>1, <3>2 DEF ManifestRead
  <2>7. PICK k \in Ends(manifests[current]) :
            /\ EditsRead(manifests) = SubSeq(manifests[current].edits, 1, k)
            /\ Last(EditsRead(manifests)) = manifests[current].edits[k]
    BY <1>1, <2>1, <2>6, ReadToEnd
  <2>8. VersionRead(manifests).files = Version(m, k)
    BY <2>2, <2>7 DEF VersionRead, Version
  <2>9. FilesOf(Version(m, k)) \subseteq DOMAIN tables
    BY <2>2, <2>3, <2>7 DEF DescriptorWell, EndWell
  <2> QED
    BY <2>6, <2>8, <2>9 DEF Recoverable
<1> QED
  BY <1>2, <1>3 DEF OpensAgain

\* Nobody waits for a signal that will not come (the condition variables and
\* bg_cv_ of db_impl.cc), in any session of any number of writers.
THEOREM NobodyStranded == Spec => []WaitersWoken
BY AlwaysWhole, WholeImplies, PTL

\* DeleteObsoleteFiles takes nothing that is in use, whatever is read, flushed
\* and compacted at the same time and whatever fails.
THEOREM FilesStay == Spec => []FilesExist
BY AlwaysWhole, WholeImplies, PTL

\* Write, the flush, the compactions and recovery from what a stop left in the
\* logs never give a sequence number twice, nor leave an entry beyond
\* LastSequence.
THEOREM SequencesStayUnique == Spec => []SequencesUnique
BY AlwaysWhole, WholeImplies, PTL

\* What DB::Open installs, after any history, lists tables that exist and are
\* well numbered, with counters beyond every number in use.
THEOREM RecoveryIsSound == Spec => []Recovered
BY AlwaysWhole, WholeRecovers, PTL

\* Whatever was done to the files and wherever it stopped, VersionSet::Recover
\* can read the descriptor that CURRENT names, with all the tables it lists:
\* unless a flush may tear the manifest in the middle of a compaction, which
\* goes on to write behind the torn record.
THEOREM OpensForEver ==
  ASSUME ~NestedFaults
  PROVE  Spec => []OpensAgain
<1>1. Whole => OpensAgain
  BY WholeOpens
<1> QED
  BY AlwaysWhole, <1>1, PTL
=============================================================================
