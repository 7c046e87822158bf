------------------------- MODULE HistoryFaultsProofs -------------------------
(***************************************************************************)
(* The database keeps the promise of History for any files, torrents and   *)
(* number of keys, until the first fault: a step of the program without    *)
(* one is a step of History or changes nothing that the user can see.      *)
(*                                                                         *)
(* Files of unknown length are left out: their items have no row in the    *)
(* next session (HistoryDb, StartSession).                                 *)
(***************************************************************************)
EXTENDS HistoryFaults, HistoryDbProofs

\* A file that has a line or a row: one identifier for each HTTP file.
InUse(id) == id \in index \/ row[id] # "none"

OneEach ==
    \A i, j \in Ids : Http(i) /\ of[i] = of[j] /\ InUse(i) /\ InUse(j) => i = j

\* The keys that the operation under way has written, or not yet deleted.
Written(id, k) ==
    /\ op.kind = "add" /\ op.id = id => k < op.key
    /\ op.kind = "del" /\ op.id = id => op.key <= k

Whole ==
    /\ \A id \in index : Http(id) => keys[id] = {k \in 1 .. KeyCount : Written(id, k)}
    /\ op.kind = "add" /\ op.key = 0 => op.id \notin index

\* The status is there with its key, and the row of a session shows it.
StatusThere ==
    \A id \in Ids :
       /\ StatKey \notin keys[id] => stat[id] = "none"
       /\ Http(id) /\ StatKey \in keys[id] => stat[id] # "none"

RowsShow ==
    IF up
    THEN /\ \A id \in index : Http(id) => row[id] # "none"
         /\ \A id \in Ids : Http(id) /\ StatKey \in keys[id] =>
               \/ row[id] = stat[id]
               \/ row[id] = "Stopped" /\ stat[id] = "Unknown"
    ELSE op = NoOp /\ \A id \in Ids : row[id] = "none"

\* Only an HTTP row shows Completed.
TorrentRows == \A id \in Ids : ~Http(id) => row[id] # "Completed"

\* The row of the item that is being added, and those of a deletion: the rows
\* still to do are HTTP rows, and of the others only the one at work has a line.
OwnRows ==
    /\ op.kind = "add" /\ Http(op.id) =>
          row[op.id] = "Stopped" /\ stat[op.id] \in {"none", "Unknown"}
    /\ op.kind # "del" => op.rows = {}
    /\ op.kind = "del" =>
          /\ op.todo \subseteq op.rows
          /\ \A r \in op.rows : row[r] # "none"
          /\ \A r \in op.todo : Http(r)
          /\ op.id # 0 => op.id \in op.rows \ op.todo /\ Http(op.id)
          /\ \A r \in op.rows \ op.todo : Http(r) /\ r # op.id => r \notin index

Kept ==
    /\ OneEach
    /\ Whole
    /\ StatusThere
    /\ RowsShow
    /\ TorrentRows
    /\ OwnRows

\* No read of the index has failed, so none of its lines was dropped.
Tidy == Ordered /\ lost = {}
-----------------------------------------------------------------------------
(***************************************************************************)
(* The steps without a fault.                                              *)
(***************************************************************************)
QuietChange(id) ==
    /\ Idle
    /\ row[id] # "none"
    /\ Http(id)
    /\ \E status \in Successors(row[id]) :
         /\ \/ /\ determine_download_id(of[id]) # 0
               /\ stat' = [stat EXCEPT ![determine_download_id(of[id])] = status]
               /\ keys' = [keys EXCEPT ![determine_download_id(of[id])] = @ \cup {StatKey}]
            \/ /\ determine_download_id(of[id]) = 0
               /\ UNCHANGED <<stat, keys>>
         /\ row' = [row EXCEPT ![id] = status]
    /\ UNCHANGED <<index, lost, of, op, up>>

Completed == {id \in Ids : row[id] = "Completed"}

QuietClear ==
    /\ Idle
    /\ op' = Deleting(Completed, Completed)
    /\ UNCHANGED <<db, of, row, up>>

QuietEnd ==
    /\ up
    /\ op = NoOp
    /\ up' = FALSE
    /\ op' = NoOp
    /\ row' = [id \in Ids |-> "none"]
    /\ UNCHANGED <<db, of>>

QuietWrite ==
    /\ up
    /\ op.kind = "add"
    /\ IF op.key = 0
       THEN index' = index \cup {op.id} /\ UNCHANGED <<keys, stat>>
       ELSE /\ keys' = [keys EXCEPT ![op.id] = @ \cup {op.key}]
            /\ stat' = IF op.key = StatKey /\ Http(op.id)
                       THEN [stat EXCEPT ![op.id] = "Unknown"] ELSE stat
            /\ UNCHANGED index
    /\ IF op.key < KeyCount
       THEN op' = [op EXCEPT !.key = @ + 1] /\ UNCHANGED row
       ELSE AddReturns
    /\ lost' \subseteq lost
    /\ UNCHANGED <<of, up>>

QuietLookup ==
    /\ up
    /\ op.kind = "del" /\ op.id = 0
    /\ \E r \in op.todo :
         LET id == determine_download_id(of[r])
         IN op' = [op EXCEPT !.todo = @ \ {r}, !.id = id,
                             !.key = IF id = 0 THEN 0 ELSE StatKey]
    /\ UNCHANGED <<db, of, row, up>>

QuietLine ==
    /\ up
    /\ op.kind = "del" /\ op.key = KeyCount + 1
    /\ index' = {id \in index : Http(id)} \ {op.id}
    /\ op' = [op EXCEPT !.id = 0, !.key = 0]
    /\ UNCHANGED <<lost, of, keys, stat, row, up>>

ReadBack == {id \in readCurlItems : of[id] \notin Unsized}
Stuck    == {id \in ReadBack : stat[id] = "Downloading"}
Reset    == {determine_download_id(of[id]) : id \in Stuck}

QuietStart ==
    /\ ~up
    /\ up' = TRUE
    /\ row' = [id \in Ids |->
                 IF id \in Stuck THEN "Paused"
                 ELSE IF id \in ReadBack THEN stat[id]
                 ELSE IF id \in readTorrentItems THEN "Stopped" ELSE "none"]
    /\ stat' = [id \in Ids |-> IF id \in Reset THEN "Paused" ELSE stat[id]]
    /\ UNCHANGED <<index, lost, of, keys, op>>

QuietNext ==
    \/ \E f \in Files : sendDetails(f)
    \/ \E t \in Torrents : addTorrentItem(t)
    \/ QuietWrite
    \/ \E id \in Ids : removeSelRows(id) \/ QuietChange(id) \/ startTorrentDl(id)
    \/ QuietClear
    \/ QuietLookup \/ DelKey \/ QuietLine \/ DelReturns
    \/ QuietEnd \/ QuietStart

\* What a session without faults shows of the items that were read.
CalmStarts(http, torrents) ==
    LET shown == {id \in http : of[id] \notin Unsized}
        stuck == {id \in shown : stat[id] = "Downloading"}
        reset == {Calm!determine_download_id(of[id]) : id \in stuck}
    IN /\ row' = [id \in Ids |->
                    IF id \in stuck THEN "Paused"
                    ELSE IF id \in shown THEN stat[id]
                    ELSE IF id \in torrents THEN "Stopped" ELSE "none"]
       /\ \E failed \in SUBSET reset :
             /\ FALSE \/ failed = {}
             /\ stat' = [id \in Ids |->
                           IF id \in reset \ failed THEN "Paused" ELSE stat[id]]

LEMMA CalmIsQuiet == Calm!Next => QuietNext
<1> SUFFICES ASSUME Calm!Next
             PROVE  QuietNext
  OBVIOUS
<1>1. ASSUME NEW f \in Files, Calm!sendDetails(f)
      PROVE  sendDetails(f)
  BY <1>1, Zenon DEF Calm!sendDetails, sendDetails, Calm!Idle, Idle, Calm!NoOp, NoOp, Calm!ShownAs,
     ShownAs, Calm!Ids, Ids, Calm!Unused, Unused, Calm!Adding, Adding, Calm!db, db
<1>2. ASSUME NEW t \in Torrents, Calm!addTorrentItem(t)
      PROVE  addTorrentItem(t)
  BY <1>2, Zenon DEF Calm!addTorrentItem, addTorrentItem, Calm!Idle, Idle, Calm!NoOp, NoOp,
     Calm!Ids, Ids, Calm!Unused, Unused, Calm!Adding, Adding, Calm!db, db
<1>3. Calm!AddReturns => AddReturns
  BY Zenon DEF Calm!AddReturns, AddReturns, Calm!NoOp, NoOp, Calm!Http, Http, Calm!ShownAs, ShownAs,
     Calm!Ids, Ids
<1>0. \A s : Calm!MayRead(s) = {s}
  BY DEF Calm!MayRead
<1>4. Calm!AddWrite => QuietWrite
  <2> SUFFICES ASSUME Calm!AddWrite
               PROVE  QuietWrite
    OBVIOUS
  <2>1. /\ op.key = 0 => /\ index' = index \cup {op.id}
                          /\ lost' = (lost \cup (index \ index)) \ {op.id}
                          /\ UNCHANGED <<keys, stat>>
        /\ op.key # 0 => UNCHANGED <<index, lost>>
    BY <1>0, Zenon DEF Calm!AddWrite
  <2>2. lost' \subseteq lost
    BY <2>1
  <2>3. op.key # 0 => /\ keys' = [keys EXCEPT ![op.id] = @ \cup {op.key}]
                      /\ stat' = IF op.key = StatKey /\ Http(op.id)
                                 THEN [stat EXCEPT ![op.id] = "Unknown"] ELSE stat
    BY Zenon DEF Calm!AddWrite, Calm!StatKey, StatKey, Calm!Http, Http
  <2>4. IF op.key < KeyCount
        THEN op' = [op EXCEPT !.key = @ + 1] /\ UNCHANGED row
        ELSE AddReturns
    BY <1>3, Zenon DEF Calm!AddWrite
  <2>5. up /\ op.kind = "add" /\ UNCHANGED <<of, up>>
    BY Zenon DEF Calm!AddWrite
  <2> QED
    BY <2>1, <2>2, <2>3, <2>4, <2>5, Zenon DEF QuietWrite
<1>5. ~Calm!AddFails /\ ~Calm!DelFails
  BY DEF Calm!AddFails, Calm!DelFails
<1>6. ASSUME NEW id \in Ids, Calm!removeSelRows(id)
      PROVE  removeSelRows(id)
  BY <1>6, Zenon DEF Calm!removeSelRows, removeSelRows, Calm!Idle, Idle, Calm!NoOp, NoOp, Calm!Http,
     Http, Calm!Deleting, Deleting, Calm!db, db
<1>7. ASSUME NEW id \in Ids, Calm!ChangeStatus(id)
      PROVE  QuietChange(id)
  <2>1. \A x : Calm!determine_download_id(x) = determine_download_id(x)
    BY Zenon DEF Calm!determine_download_id, determine_download_id
  <2>2. PICK status \in Calm!Successors(row[id]) :
           /\ Calm!modifyCurlItem(of[id], status)
           /\ row' = [row EXCEPT ![id] = status]
    BY <1>7, Zenon DEF Calm!ChangeStatus
  <2>3. status \in Successors(row[id])
    BY Zenon DEF Calm!Successors, Successors
  <2>4. \/ /\ determine_download_id(of[id]) # 0
           /\ stat' = [stat EXCEPT ![determine_download_id(of[id])] = status]
           /\ keys' = [keys EXCEPT ![determine_download_id(of[id])] = @ \cup {StatKey}]
        \/ /\ determine_download_id(of[id]) = 0
           /\ UNCHANGED <<stat, keys>>
    BY <2>1, <2>2, Zenon DEF Calm!modifyCurlItem, Calm!StatKey, StatKey
  <2>5. Idle /\ row[id] # "none" /\ Http(id) /\ UNCHANGED <<index, lost, of, op, up>>
    BY <1>7, Zenon DEF Calm!ChangeStatus, Calm!Idle, Idle, Calm!NoOp, NoOp, Calm!Http, Http
  <2> QED
    BY <2>2, <2>3, <2>4, <2>5, Zenon DEF QuietChange
<1>8. \A ids : Calm!Readable(ids) = Readable(ids)
  BY Zenon DEF Calm!Readable, Readable, Calm!Complete, Complete
<1>9. Calm!readTorrentItems = readTorrentItems /\ Calm!readCurlItems = readCurlItems
  BY <1>8, Zenon DEF Calm!readTorrentItems, readTorrentItems, Calm!readCurlItems, readCurlItems,
     Calm!Http, Http
<1>10. ASSUME NEW id \in Ids, Calm!startTorrentDl(id)
       PROVE  startTorrentDl(id)
  BY <1>9, <1>10, Zenon DEF Calm!startTorrentDl, startTorrentDl, Calm!Idle, Idle, Calm!NoOp, NoOp,
     Calm!db, db
<1>11. Calm!clearOldHistory => QuietClear
  <2> SUFFICES ASSUME Calm!clearOldHistory
               PROVE  QuietClear
    OBVIOUS
  <2>1. PICK gone : gone = {} /\ op' = Deleting(Completed \ gone, Completed)
    BY Zenon DEF Calm!clearOldHistory, Calm!Ids, Ids, Calm!Deleting, Deleting, Calm!NoOp, NoOp,
       Completed
  <2>2. Completed \ gone = Completed
    BY <2>1
  <2>3. Idle /\ UNCHANGED <<db, of, row, up>>
    BY Zenon DEF Calm!clearOldHistory, Calm!Idle, Idle, Calm!NoOp, NoOp, Calm!db, db
  <2> QED
    BY <2>1, <2>2, <2>3, Zenon DEF QuietClear
<1>12. Calm!DelLookup => QuietLookup
  <2> SUFFICES ASSUME Calm!DelLookup
               PROVE  QuietLookup
    OBVIOUS
  <2>1. \A x : Calm!determine_download_id(x) = determine_download_id(x)
    BY Zenon DEF Calm!determine_download_id, determine_download_id
  <2>2. PICK r \in op.todo : \E d \in {determine_download_id(of[r])} \cup {} :
           op' = [op EXCEPT !.todo = @ \ {r}, !.id = d, !.key = IF d = 0 THEN 0 ELSE StatKey]
    BY <2>1 DEF Calm!DelLookup, Calm!StatKey, StatKey
  <2> DEFINE id == determine_download_id(of[r])
  <2>3. op' = [op EXCEPT !.todo = @ \ {r}, !.id = id, !.key = IF id = 0 THEN 0 ELSE StatKey]
    <3> HIDE DEF id
    <3>1. \E d \in {id} :
             op' = [op EXCEPT !.todo = @ \ {r}, !.id = d, !.key = IF d = 0 THEN 0 ELSE StatKey]
      BY <2>2 DEF id
    <3> QED
      BY <3>1
  <2>4. up /\ op.kind = "del" /\ op.id = 0 /\ UNCHANGED <<db, of, row, up>>
    BY Zenon DEF Calm!DelLookup, Calm!db, db
  <2> QED
    BY <2>3, <2>4, Zenon DEF QuietLookup
<1>13. Calm!DelKey => DelKey
  BY Zenon DEF Calm!DelKey, DelKey, Calm!StatKey, StatKey
<1>14. Calm!del_download_id => QuietLine
  <2> SUFFICES ASSUME Calm!del_download_id
               PROVE  QuietLine
    OBVIOUS
  <2>1. /\ index' = {id \in index : Http(id)} \ {op.id}
        /\ lost' = lost \cup ((index \ index) \ {op.id})
    BY <1>0, Zenon DEF Calm!del_download_id, Calm!Http, Http
  <2>2. lost' = lost
    BY <2>1
  <2> QED
    BY <2>1, <2>2, Zenon DEF Calm!del_download_id, QuietLine
<1>15. Calm!DelReturns => DelReturns
  BY Zenon DEF Calm!DelReturns, DelReturns, Calm!NoOp, NoOp, Calm!Ids, Ids, Calm!db, db
<1>16. Calm!EndSession => QuietEnd
  BY Zenon DEF Calm!EndSession, QuietEnd, Calm!NoOp, NoOp, Calm!Ids, Ids, Calm!db, db
<1>17. Calm!StartSession => QuietStart
  <2> SUFFICES ASSUME Calm!StartSession
               PROVE  QuietStart
    OBVIOUS
  <2>1. \A x : Calm!determine_download_id(x) = determine_download_id(x)
    BY Zenon DEF Calm!determine_download_id, determine_download_id
  <2> DEFINE stuck == {i \in {i \in Calm!readCurlItems : of[i] \notin Unsized} :
                          stat[i] = "Downloading"}
             reset == {Calm!determine_download_id(of[i]) : i \in stuck}
  <2>a. /\ row' = [id \in Ids |->
                      IF id \in stuck THEN "Paused"
                      ELSE IF id \in {i \in Calm!readCurlItems : of[i] \notin Unsized} THEN stat[id]
                      ELSE IF id \in Calm!readTorrentItems THEN "Stopped" ELSE "none"]
        /\ \E failed \in SUBSET reset :
              /\ FALSE \/ failed = {}
              /\ stat' = [id \in Ids |-> IF id \in reset \ failed THEN "Paused" ELSE stat[id]]
    <3>1. PICK http \in Calm!MayRead(Calm!readCurlItems),
               torrents \in Calm!MayRead(Calm!readTorrentItems) : CalmStarts(http, torrents)
      BY Zenon DEF Calm!StartSession, CalmStarts, Calm!Ids, Ids
    <3>2. http = Calm!readCurlItems /\ torrents = Calm!readTorrentItems
      BY <1>0
    <3>3. CalmStarts(Calm!readCurlItems, Calm!readTorrentItems)
      BY <3>1, <3>2
    <3> QED
      BY <3>3, Zenon DEF CalmStarts
  <2>2. \E failed \in SUBSET reset :
           /\ FALSE \/ failed = {}
           /\ stat' = [id \in Ids |-> IF id \in reset \ failed THEN "Paused" ELSE stat[id]]
    BY <2>a, Zenon
  <2>3. stat' = [id \in Ids |-> IF id \in Reset THEN "Paused" ELSE stat[id]]
    <3>1. stuck = Stuck
      BY <1>9 DEF Stuck, ReadBack
    <3>2. reset = Reset
      BY <2>1, <3>1 DEF Reset
    <3> HIDE DEF reset
    <3>3. reset \ {} = reset
      OBVIOUS
    <3> QED
      BY <2>2, <3>2, <3>3
  <2>4. row' = [id \in Ids |->
                 IF id \in Stuck THEN "Paused"
                 ELSE IF id \in ReadBack THEN stat[id]
                 ELSE IF id \in readTorrentItems THEN "Stopped" ELSE "none"]
    BY <1>9, <2>a, Zenon DEF ReadBack, Stuck
  <2>5. ~up /\ up' = TRUE /\ UNCHANGED <<index, lost, of, keys, op>>
    BY Zenon DEF Calm!StartSession
  <2> QED
    BY <2>3, <2>4, <2>5, Zenon DEF QuietStart
<1>18. Calm!Ids = Ids
  BY DEF Calm!Ids, Ids
<1> QED
  BY <1>1, <1>2, <1>4, <1>5, <1>6, <1>7, <1>10, <1>11, <1>12, <1>13, <1>14, <1>15, <1>16, <1>17,
     <1>18, Zenon DEF Calm!Next, QuietNext

-----------------------------------------------------------------------------
(***************************************************************************)
(* The invariant until the first fault.                                    *)
(***************************************************************************)
LEMMA KeptInit == Init => Kept
  BY DEF Init, Kept, OneEach, InUse, Whole, StatusThere, RowsShow, TorrentRows, OwnRows, NoOp, Http,
     StatKey

\* The search by path leads to the row's own item, or to none.
LEMMA LookupOwn ==
  ASSUME Ordered, OneEach, NEW r \in Ids, Http(r), InUse(r)
  PROVE  determine_download_id(of[r]) = IF r \in index THEN r ELSE 0
<1> DEFINE d == determine_download_id(of[r])
<1>1. index \subseteq Ids
  BY DEF Ordered, TypeOK
<1>2. /\ d \in index \cup {0}
      /\ d # 0 => of[d] = of[r]
      /\ d = 0 => r \notin index
  BY <1>1, LookupInIndex
<1> HIDE DEF d
<1>3. ASSUME d # 0
      PROVE  d = r
  BY <1>1, <1>2, <1>3 DEF OneEach, InUse
<1>4. d = IF r \in index THEN r ELSE 0
  BY <1>2, <1>3
<1> QED
  BY <1>4 DEF d

LEMMA KeptAdd ==
  ASSUME Tidy, Kept, NEW f, \/ f \in Files /\ sendDetails(f)
                            \/ f \in Torrents /\ addTorrentItem(f)
  PROVE  Kept'
<1> USE DEF Tidy, Ordered, Kept
<1>1. PICK id \in Ids : Unused(id) /\ of' = [of EXCEPT ![id] = f]
                        /\ \/ \E s \in {"Stopped", "Unknown"}, ok \in BOOLEAN :
                                /\ f \in Files /\ ShownAs(f) = {}
                                /\ ok => s = "Stopped"
                                /\ row' = [row EXCEPT ![id] = s]
                                /\ op' = IF ok THEN Adding(id) ELSE NoOp
                           \/ f \in Torrents /\ row' = row /\ op' = Adding(id)
  BY DEF sendDetails, addTorrentItem
<1>2. up /\ op = NoOp /\ UNCHANGED <<index, keys, stat, up>>
  BY DEF sendDetails, addTorrentItem, Idle, db
<1>3. id \notin index /\ keys[id] = {} /\ row[id] = "none" /\ stat[id] = "none"
  BY <1>1 DEF Unused, StatusThere
<1>4. \/ op' = NoOp
      \/ op' = Adding(id)
  BY <1>1
<1>5. /\ op'.rows = {} /\ op'.kind # "del"
      /\ op'.kind = "add" => op'.id = id /\ op'.key = 0
      /\ op.rows = {} /\ op.kind = "none"
  <2>1. Adding(id).kind = "add" /\ Adding(id).id = id /\ Adding(id).key = 0 /\ Adding(id).rows = {}
    BY DEF NoOp, Adding
  <2>2. NoOp.kind = "none" /\ NoOp.rows = {}
    BY DEF NoOp
  <2> QED
    BY <1>2, <1>4, <2>1, <2>2
<1>6. \/ row' = row /\ f \in Torrents
      \/ /\ f \in Files /\ ShownAs(f) = {}
         /\ \E s \in {"Stopped", "Unknown"} :
               row' = [row EXCEPT ![id] = s] /\ (op' = Adding(id) => s = "Stopped")
  <2>1. Adding(id) # NoOp
    BY DEF Adding, NoOp
  <2> QED
    BY <1>1, <2>1
<1>7. \A i \in Ids : i # id => of'[i] = of[i] /\ row'[i] = row[i]
  BY <1>1, <1>6 DEF TypeOK
<1>8. of'[id] = f /\ f \notin Files => row'[id] = "none"
  BY <1>1, <1>3, <1>6 DEF TypeOK
<1>9. of'[id] = f
  BY <1>1 DEF TypeOK
<1>10. f \in Files => \A i \in Ids : i # id /\ of[i] = f => row[i] = "none" /\ i \notin index
  <2> SUFFICES ASSUME f \in Files, NEW i \in Ids, i # id, of[i] = f
               PROVE  row[i] = "none" /\ i \notin index
    OBVIOUS
  <2>1. ShownAs(f) = {}
    BY <1>6, ItemsAssumption
  <2>2. row[i] = "none"
    BY <2>1 DEF ShownAs
  <2> QED
    BY <2>2, <1>2 DEF RowsShow, Http
<1>11. OneEach'
  <2> SUFFICES ASSUME NEW i \in Ids, NEW j \in Ids, of'[i] \in Files, of'[i] = of'[j],
                      i \in index \/ row'[i] # "none", j \in index \/ row'[j] # "none"
               PROVE  i = j
    BY <1>2 DEF OneEach, InUse, Http
  <2>1. CASE i # id /\ j # id
    BY <2>1, <1>7 DEF OneEach, InUse, Http
  <2>2. CASE i = id /\ j # id
    BY <2>2, <1>7, <1>9, <1>10
  <2>3. CASE i # id /\ j = id
    BY <2>3, <1>7, <1>9, <1>10
  <2> QED
    BY <2>1, <2>2, <2>3
<1>12. Whole'
  BY <1>1, <1>2, <1>3, <1>5, <1>7 DEF Whole, Written, Http, TypeOK
<1>13. StatusThere'
  BY <1>2, <1>3, <1>7 DEF StatusThere, Http
<1>14. RowsShow'
  BY <1>2, <1>3, <1>7 DEF RowsShow, Http, StatKey, TypeOK
<1>15. TorrentRows'
  BY <1>7, <1>8, <1>9 DEF TorrentRows, Http
<1>16. OwnRows'
  <2>1. op'.kind = "add" /\ Http(id)' => row'[id] = "Stopped"
    <3> SUFFICES ASSUME op'.kind = "add", f \in Files
                 PROVE  row'[id] = "Stopped"
      BY <1>9 DEF Http
    <3>1. op' = Adding(id)
      BY <1>4 DEF NoOp
    <3> QED
      BY <1>6, <3>1, ItemsAssumption DEF TypeOK
  <2> QED
    BY <1>2, <1>3, <1>5, <2>1 DEF OwnRows
<1> QED
  BY <1>11, <1>12, <1>13, <1>14, <1>15, <1>16

LEMMA KeptAddWrite ==
  ASSUME Tidy, Kept, QuietWrite
  PROVE  Kept'
<1> USE DEF Tidy, Ordered, Kept
<1> USE BoundsAssumption
<1> DEFINE id == op.id
           k  == op.key
<1>1. up /\ op.kind = "add" /\ id \in Ids /\ k \in 0 .. KeyCount /\ UNCHANGED <<of, up>>
  BY DEF QuietWrite, LineFirst
<1>2. /\ k = 0 => index' = index \cup {id} /\ UNCHANGED <<keys, stat>>
      /\ k # 0 => /\ keys' = [keys EXCEPT ![id] = @ \cup {k}]
                  /\ stat' = IF k = StatKey /\ Http(id) THEN [stat EXCEPT ![id] = "Unknown"] ELSE stat
                  /\ UNCHANGED index
                  /\ id \in index
  <2>1. k # 0 => id \in index
    BY <1>1 DEF LineFirst
  <2> QED
    BY <2>1 DEF QuietWrite
<1>3. \/ op' = [op EXCEPT !.key = k + 1] /\ k < KeyCount /\ row' = row
      \/ op' = NoOp /\ k = KeyCount /\ (row' = row \/ (row' = [row EXCEPT ![id] = "Stopped"] /\ ~Http(id)))
  <2>1. CASE k < KeyCount
    BY <2>1 DEF QuietWrite
  <2>2. CASE ~(k < KeyCount)
    <3>1. k = KeyCount
      BY <1>1, <2>2
    <3>2. op' = NoOp
      BY <2>2 DEF QuietWrite, AddReturns
    <3>3. \/ row' = row
          \/ row' = [row EXCEPT ![id] = "Stopped"] /\ ~Http(id)
      BY <2>2, Zenon DEF QuietWrite, AddReturns
    <3> QED
      BY <3>1, <3>2, <3>3
  <2> QED
    BY <2>1, <2>2
<1>4. /\ op'.rows = {} /\ op'.kind # "del"
      /\ op'.kind = "add" => op'.id = id /\ op'.key = k + 1 /\ k < KeyCount
      /\ op'.kind # "add" => k = KeyCount
  BY <1>1, <1>3 DEF NoOp, OwnRows, TypeOK
<1>5. \A i \in Ids : Http(i) => row'[i] = row[i]
  BY <1>3 DEF TypeOK
<1>6. \A i \in Ids : /\ i # id => keys'[i] = keys[i] /\ stat'[i] = stat[i] /\ row'[i] = row[i]
                                  /\ (i \in index' <=> i \in index)
                     /\ i \in index => i \in index'
  BY <1>1, <1>2, <1>3 DEF TypeOK
<1>7. \A i \in Ids : Http(i)' <=> Http(i)
  BY <1>1 DEF Http
<1>8. Http(id) => row[id] = "Stopped" /\ stat[id] \in {"none", "Unknown"}
  BY <1>1 DEF OwnRows
<1>9. Http(id) => keys[id] = {n \in 1 .. KeyCount : n < k}
  <2>1. CASE k = 0
    <3>1. id \notin index
      BY <1>1, <2>1 DEF Whole
    <3>2. Http(id) => keys[id] = {}
      BY <1>1, <3>1 DEF NoStrayKeys
    <3> QED
      BY <3>2, <2>1
  <2>2. CASE k # 0
    BY <1>1, <1>2, <2>2 DEF Whole, Written
  <2> QED
    BY <2>1, <2>2
<1>10. Http(id) => keys'[id] = {n \in 1 .. KeyCount : n < k + 1}
  BY <1>1, <1>2, <1>9 DEF TypeOK
<1>11. /\ StatKey \in keys'[id] /\ Http(id) => stat'[id] = "Unknown"
       /\ StatKey \notin keys'[id] => stat'[id] = "none"
  <2>1. CASE k = 0
    BY <1>1, <1>2, <1>8, <2>1 DEF StatusThere, TypeOK
  <2>2. CASE k # 0 /\ (k # StatKey \/ ~Http(id))
    BY <1>1, <1>2, <1>8, <2>2 DEF StatusThere, TypeOK
  <2>3. CASE k = StatKey /\ Http(id)
    <3>1. stat' = [stat EXCEPT ![id] = "Unknown"] /\ keys' = [keys EXCEPT ![id] = @ \cup {k}]
      BY <1>2, <2>3 DEF StatKey
    <3> QED
      BY <1>1, <2>3, <3>1 DEF TypeOK
  <2> QED
    BY <2>1, <2>2, <2>3
<1> HIDE DEF id, k
<1>12. OneEach'
  BY <1>1, <1>5, <1>6, <1>7, <1>8 DEF OneEach, InUse, TypeOK, Http
<1>13. Whole'
  <2>1. op'.kind = "add" /\ op'.key = 0 => op'.id \notin index'
    BY <1>1, <1>4
  <2>2. ASSUME NEW i \in index', Http(i)'
        PROVE  keys'[i] = {n \in 1 .. KeyCount : Written(i, n)'}
    <3>0. i \in Ids /\ Http(i)
      BY <2>2, <1>1, <1>2, <1>7 DEF TypeOK
    <3>1. CASE i = id
      <4>1. keys'[i] = {n \in 1 .. KeyCount : n < k + 1}
        BY <3>0, <3>1, <1>10
      <4>2. \A n \in 1 .. KeyCount : Written(i, n)' <=> n < k + 1
        BY <3>1, <1>1, <1>4 DEF Written
      <4> QED
        BY <4>1, <4>2
    <3>2. CASE i # id
      <4>1. keys'[i] = {n \in 1 .. KeyCount : Written(i, n)} /\ keys'[i] \subseteq 1 .. KeyCount
        BY <3>0, <3>2, <1>6 DEF Whole, TypeOK
      <4>2. \A n \in 1 .. KeyCount : Written(i, n)' /\ Written(i, n)
        BY <3>2, <1>1, <1>4 DEF Written, id
      <4> QED
        BY <4>1, <4>2
    <3> QED
      BY <3>1, <3>2
  <2> QED
    BY <2>1, <2>2 DEF Whole
<1>14. StatusThere'
  <2> SUFFICES ASSUME NEW i \in Ids
               PROVE  /\ StatKey \notin keys'[i] => stat'[i] = "none"
                      /\ Http(i)' /\ StatKey \in keys'[i] => stat'[i] # "none"
    BY DEF StatusThere
  <2>1. CASE i = id
    BY <2>1, <1>7, <1>11
  <2>2. CASE i # id
    BY <2>2, <1>6, <1>7 DEF StatusThere
  <2> QED
    BY <2>1, <2>2
<1>15. RowsShow'
  <2>1. ASSUME NEW i \in index', Http(i)'
        PROVE  row'[i] # "none"
    <3>0. i \in Ids /\ Http(i)
      BY <2>1, <1>1, <1>2, <1>7 DEF TypeOK
    <3>1. CASE i = id
      BY <3>0, <3>1, <1>5, <1>8
    <3>2. CASE i # id
      BY <3>0, <3>2, <1>1, <1>6 DEF RowsShow
    <3> QED
      BY <3>1, <3>2
  <2>2. ASSUME NEW i \in Ids, Http(i)', StatKey \in keys'[i]
        PROVE  row'[i] = stat'[i] \/ (row'[i] = "Stopped" /\ stat'[i] = "Unknown")
    <3>1. CASE i = id
      BY <2>2, <3>1, <1>5, <1>7, <1>8, <1>11
    <3>2. CASE i # id
      BY <2>2, <3>2, <1>1, <1>6, <1>7 DEF RowsShow
    <3> QED
      BY <3>1, <3>2
  <2> QED
    BY <1>1, <2>1, <2>2 DEF RowsShow
<1>16. TorrentRows'
  BY <1>3, <1>7 DEF TorrentRows, TypeOK
<1>17. OwnRows'
  BY <1>4, <1>5, <1>7, <1>8, <1>1, <1>11 DEF OwnRows
<1> QED
  BY <1>12, <1>13, <1>14, <1>15, <1>16, <1>17

LEMMA KeptDelBegin ==
  ASSUME Tidy, Kept, \/ QuietClear
                     \/ \E id \in Ids : removeSelRows(id)
  PROVE  Kept'
<1> USE DEF Tidy, Ordered, Kept
<1>1. PICK todo \in SUBSET Ids, gone \in SUBSET Ids :
         /\ op' = Deleting(todo, gone)
         /\ todo \subseteq gone
         /\ \A r \in gone : row[r] # "none" /\ (r \in todo <=> Http(r))
  <2>1. CASE QuietClear
    <3>1. op' = Deleting(Completed, Completed)
      BY <2>1 DEF QuietClear
    <3>2. Completed \in SUBSET Ids /\ \A r \in Completed : row[r] # "none" /\ Http(r)
      BY DEF Completed, TorrentRows
    <3> QED
      BY <3>1, <3>2
  <2>2. CASE \E id \in Ids : removeSelRows(id)
    <3>1. PICK id \in Ids : removeSelRows(id)
      BY <2>2
    <3> DEFINE todo == IF Http(id) THEN {id} ELSE {}
    <3>2. op' = Deleting(todo, {id}) /\ row[id] # "none"
      BY <3>1 DEF removeSelRows
    <3>3. todo \in SUBSET Ids /\ todo \subseteq {id} /\ \A r \in {id} : r \in todo <=> Http(r)
      OBVIOUS
    <3> HIDE DEF todo
    <3> QED
      BY <3>2, <3>3
  <2> QED
    BY <2>1, <2>2
<1>2. up /\ op = NoOp /\ UNCHANGED <<index, of, keys, stat, row, up>>
  BY DEF QuietClear, removeSelRows, Idle, db
<1>3. /\ op'.kind = "del" /\ op'.id = 0 /\ op'.todo = todo /\ op'.rows = gone
      /\ op.kind = "none"
  BY <1>1, <1>2 DEF Deleting, NoOp
<1>4. \A i : Http(i)' <=> Http(i)
  BY <1>2 DEF Http
<1>5. 0 \notin Ids
  BY DEF Ids
<1>6. Whole'
  <2>1. \A i \in index, k \in 1 .. KeyCount : Written(i, k)' /\ Written(i, k)
    BY <1>2, <1>3, <1>5 DEF Written, TypeOK
  <2>2. ASSUME NEW i \in index, Http(i)
        PROVE  keys[i] = {k \in 1 .. KeyCount : Written(i, k)'}
    <3>1. keys[i] = {k \in 1 .. KeyCount : Written(i, k)}
      BY <2>2 DEF Whole
    <3> QED
      BY <3>1, <2>1
  <2> QED
    BY <1>2, <1>3, <1>4, <2>2 DEF Whole
<1>7. OneEach' /\ StatusThere' /\ RowsShow' /\ TorrentRows'
  BY <1>2, <1>4 DEF OneEach, InUse, StatusThere, RowsShow, TorrentRows
<1>8. OwnRows'
  BY <1>1, <1>2, <1>3, <1>4 DEF OwnRows
<1> QED
  BY <1>6, <1>7, <1>8

LEMMA KeptTorrent ==
  ASSUME Tidy, Kept, NEW id \in Ids, startTorrentDl(id)
  PROVE  Kept'
<1> USE DEF Tidy, Ordered, Kept
<1>1. /\ up /\ op = NoOp /\ UNCHANGED <<index, of, keys, stat, op, up>>
      /\ row' = [row EXCEPT ![id] = "Downloading"] /\ row[id] # "none"
  BY DEF startTorrentDl, Idle, db
<1>2. ~Http(id)
  BY DEF startTorrentDl, readTorrentItems, Readable
<1>3. /\ \A i \in Ids : Http(i) => row'[i] = row[i]
      /\ \A i \in Ids : i # id => row'[i] = row[i]
      /\ row'[id] = "Downloading"
  BY <1>1, <1>2 DEF TypeOK
<1>4. \A i : Http(i)' <=> Http(i)
  BY <1>1 DEF Http
<1>5. OneEach'
  BY <1>1, <1>3, <1>4 DEF OneEach, InUse
<1>6. Whole' /\ StatusThere'
  BY <1>1, <1>4 DEF Whole, Written, StatusThere
<1>7. RowsShow'
  BY <1>1, <1>3, <1>4 DEF RowsShow, TypeOK
<1>8. TorrentRows'
  BY <1>1, <1>3, <1>4 DEF TorrentRows
<1>9. OwnRows'
  BY <1>1 DEF OwnRows, NoOp
<1> QED
  BY <1>5, <1>6, <1>7, <1>8, <1>9

\* What a change of status does to the database and to the row.
LEMMA Changed ==
  ASSUME Tidy, Kept, NEW id \in Ids, QuietChange(id)
  PROVE  \E status \in Stored \ {"Unknown"} :
            /\ row' = [row EXCEPT ![id] = status]
            /\ stat' = IF id \in index THEN [stat EXCEPT ![id] = status] ELSE stat
            /\ UNCHANGED keys
<1> USE DEF Tidy, Ordered, Kept
<1>1. PICK status \in Successors(row[id]) :
         /\ \/ /\ determine_download_id(of[id]) # 0
               /\ stat' = [stat EXCEPT ![determine_download_id(of[id])] = status]
               /\ keys' = [keys EXCEPT ![determine_download_id(of[id])] = @ \cup {StatKey}]
            \/ /\ determine_download_id(of[id]) = 0
               /\ UNCHANGED <<stat, keys>>
         /\ row' = [row EXCEPT ![id] = status]
  BY DEF QuietChange
<1>2. status \in Stored \ {"Unknown"}
  BY DEF Successors, Stored
<1>3. determine_download_id(of[id]) = IF id \in index THEN id ELSE 0
  BY LookupOwn DEF QuietChange, InUse
<1>4. id # 0
  BY DEF Ids
<1>5. CASE id \in index
  <2>1. stat' = [stat EXCEPT ![id] = status] /\ keys' = [keys EXCEPT ![id] = @ \cup {StatKey}]
    BY <1>1, <1>3, <1>4, <1>5
  <2>2. StatKey \in keys[id]
    <3>1. op = NoOp /\ Http(id)
      BY DEF QuietChange, Idle
    <3>2. StatKey \in 1 .. KeyCount
      BY BoundsAssumption DEF StatKey
    <3>3. Written(id, StatKey)
      BY <3>1 DEF Written, NoOp
    <3> QED
      BY <1>5, <3>1, <3>2, <3>3 DEF Whole
  <2>3. UNCHANGED keys
    BY <2>1, <2>2 DEF TypeOK
  <2> QED
    BY <1>1, <1>2, <1>5, <2>1, <2>3
<1>6. CASE id \notin index
  BY <1>1, <1>2, <1>3, <1>6
<1> QED
  BY <1>5, <1>6

LEMMA KeptChange ==
  ASSUME Tidy, Kept, NEW id \in Ids, QuietChange(id)
  PROVE  Kept'
<1> USE DEF Tidy, Ordered, Kept
<1>1. PICK status \in Stored \ {"Unknown"} :
         /\ row' = [row EXCEPT ![id] = status]
         /\ stat' = IF id \in index THEN [stat EXCEPT ![id] = status] ELSE stat
         /\ UNCHANGED keys
  BY Changed
<1>2. up /\ op = NoOp /\ Http(id) /\ row[id] # "none" /\ UNCHANGED <<index, of, keys, op, up>>
  BY <1>1 DEF QuietChange, Idle
<1>3. \A i : Http(i)' <=> Http(i)
  BY <1>2 DEF Http
<1>4. status # "none"
  BY DEF Stored
<1>5. /\ \A i \in Ids : i # id => row'[i] = row[i] /\ stat'[i] = stat[i]
      /\ row'[id] = status
      /\ id \in index => stat'[id] = status
      /\ id \notin index => stat'[id] = stat[id]
  BY <1>1 DEF TypeOK
<1>6. id \notin index => keys[id] = {}
  BY <1>2 DEF NoStrayKeys
<1>7. id \in index => StatKey \in keys[id]
  <2>1. StatKey \in 1 .. KeyCount /\ Written(id, StatKey)
    BY <1>2, BoundsAssumption DEF Written, NoOp, StatKey
  <2> QED
    BY <2>1, <1>2 DEF Whole
<1>8. OneEach'
  BY <1>2, <1>3, <1>4, <1>5 DEF OneEach, InUse
<1>9. Whole'
  BY <1>2, <1>3 DEF Whole, Written
<1>10. StatusThere'
  BY <1>2, <1>3, <1>4, <1>5, <1>7, <1>6 DEF StatusThere
<1>11. RowsShow'
  <2>1. \A i \in index : Http(i) => row'[i] # "none"
    BY <1>2, <1>4, <1>5 DEF RowsShow, TypeOK
  <2>2. ASSUME NEW i \in Ids, Http(i), StatKey \in keys[i]
        PROVE  row'[i] = stat'[i] \/ (row'[i] = "Stopped" /\ stat'[i] = "Unknown")
    <3>1. CASE i = id
      BY <2>2, <3>1, <1>5, <1>6
    <3>2. CASE i # id
      BY <2>2, <3>2, <1>2, <1>5 DEF RowsShow
    <3> QED
      BY <3>1, <3>2
  <2> QED
    BY <1>2, <1>3, <2>1, <2>2 DEF RowsShow
<1>12. TorrentRows'
  BY <1>2, <1>3, <1>5 DEF TorrentRows
<1>13. OwnRows'
  BY <1>2 DEF OwnRows, NoOp
<1> QED
  BY <1>8, <1>9, <1>10, <1>11, <1>12, <1>13

\* The search that delCurlItem begins with.
LEMMA LookedUp ==
  ASSUME Tidy, Kept, QuietLookup
  PROVE  \E r \in op.todo :
            /\ r \in Ids /\ Http(r) /\ row[r] # "none"
            /\ op'.kind = "del" /\ op'.todo = op.todo \ {r} /\ op'.rows = op.rows
            /\ op'.id = IF r \in index THEN r ELSE 0
            /\ op'.key = IF r \in index THEN StatKey ELSE 0
<1> USE DEF Tidy, Ordered, Kept
<1>1. op.kind = "del"
  BY DEF QuietLookup
<1>2. PICK r \in op.todo :
         LET d == determine_download_id(of[r])
         IN op' = [op EXCEPT !.todo = @ \ {r}, !.id = d, !.key = IF d = 0 THEN 0 ELSE StatKey]
  BY DEF QuietLookup
<1>3. r \in Ids /\ Http(r) /\ row[r] # "none" /\ r # 0
  BY <1>1 DEF OwnRows, TypeOK, Ids
<1> DEFINE d == determine_download_id(of[r])
<1>4. d = IF r \in index THEN r ELSE 0
  BY <1>3, LookupOwn DEF InUse
<1>5. op' = [op EXCEPT !.todo = @ \ {r}, !.id = d, !.key = IF d = 0 THEN 0 ELSE StatKey]
  BY <1>2
<1> HIDE DEF d
<1>6. /\ op'.kind = "del" /\ op'.todo = op.todo \ {r} /\ op'.rows = op.rows
      /\ op'.id = d /\ op'.key = IF d = 0 THEN 0 ELSE StatKey
  BY <1>1, <1>5 DEF TypeOK
<1> QED
  BY <1>3, <1>4, <1>6

LEMMA KeptDelLookup ==
  ASSUME Tidy, Kept, QuietLookup
  PROVE  Kept'
<1> USE DEF Tidy, Ordered, Kept
<1>1. PICK r \in op.todo :
         /\ r \in Ids /\ Http(r) /\ row[r] # "none"
         /\ op'.kind = "del" /\ op'.todo = op.todo \ {r} /\ op'.rows = op.rows
         /\ op'.id = IF r \in index THEN r ELSE 0
         /\ op'.key = IF r \in index THEN StatKey ELSE 0
  BY LookedUp
<1>2. up /\ op.kind = "del" /\ op.id = 0 /\ UNCHANGED <<index, of, keys, stat, row, up>>
  BY DEF QuietLookup, db
<1>3. \A i : Http(i)' <=> Http(i)
  BY <1>2 DEF Http
<1>4. OneEach' /\ StatusThere' /\ RowsShow' /\ TorrentRows'
  BY <1>2, <1>3 DEF OneEach, InUse, StatusThere, RowsShow, TorrentRows
<1>5. Whole'
  <2>1. \A i \in index, k \in 1 .. KeyCount : Written(i, k)' /\ Written(i, k)
    BY <1>1, <1>2 DEF Written, TypeOK, StatKey, Ids
  <2>2. ASSUME NEW i \in index, Http(i)
        PROVE  keys[i] = {k \in 1 .. KeyCount : Written(i, k)'}
    <3>1. keys[i] = {k \in 1 .. KeyCount : Written(i, k)}
      BY <2>2 DEF Whole
    <3> QED
      BY <3>1, <2>1
  <2> QED
    BY <1>1, <1>2, <1>3, <2>2 DEF Whole
<1>6. OwnRows'
  <2>1. op.todo \subseteq op.rows
    BY <1>2 DEF OwnRows
  <2>2. op'.id # 0 => op'.id = r
    BY <1>1
  <2>3. \A i \in op'.rows \ op'.todo : Http(i) /\ i # op'.id => i \notin index
    <3> SUFFICES ASSUME NEW i \in op.rows, i \notin op.todo \ {r}, Http(i), i # op'.id
                 PROVE  i \notin index
      BY <1>1
    <3>1. CASE i = r
      BY <3>1, <1>1
    <3>2. CASE i # r
      BY <3>2, <1>2 DEF OwnRows, TypeOK, Ids
    <3> QED
      BY <3>1, <3>2
  <2> QED
    BY <1>1, <1>2, <1>3, <2>1, <2>2, <2>3 DEF OwnRows
<1> QED
  BY <1>4, <1>5, <1>6

LEMMA KeptDelKey ==
  ASSUME Tidy, Kept, DelKey
  PROVE  Kept'
<1> USE DEF Tidy, Ordered, Kept
<1> USE BoundsAssumption
<1> DEFINE id == op.id
           k  == op.key
<1>1. /\ up /\ op.kind = "del" /\ id \in index /\ id \in Ids /\ Http(id)
      /\ id \in op.rows \ op.todo /\ k \in 1 .. KeyCount
  BY DEF DelKey, LineLast, OwnRows, TypeOK
<1>2. /\ keys' = [keys EXCEPT ![id] = @ \ {k}]
      /\ stat' = IF k = StatKey THEN [stat EXCEPT ![id] = "none"] ELSE stat
      /\ UNCHANGED <<index, of, row, up>>
  BY DEF DelKey
<1>3. /\ op'.kind = "del" /\ op'.id = id /\ op'.key = k + 1
      /\ op'.todo = op.todo /\ op'.rows = op.rows
  BY <1>1 DEF DelKey, TypeOK
<1>4. \A i : Http(i)' <=> Http(i)
  BY <1>2 DEF Http
<1>5. keys[id] = {n \in 1 .. KeyCount : k <= n}
  BY <1>1 DEF Whole, Written
<1>6. keys'[id] = {n \in 1 .. KeyCount : k + 1 <= n} /\ StatKey \notin keys'[id] /\ stat'[id] = "none"
  <2>1. keys'[id] = keys[id] \ {k}
    BY <1>1, <1>2 DEF TypeOK
  <2>2. \A n \in 1 .. KeyCount : k + 1 <= n <=> k <= n /\ n # k
    BY <1>1
  <2>3. keys'[id] = {n \in 1 .. KeyCount : k + 1 <= n}
    BY <1>5, <2>1, <2>2
  <2>4. StatKey \notin keys'[id]
    BY <2>3, <1>1 DEF StatKey
  <2>5. CASE k = StatKey
    BY <2>3, <2>4, <2>5, <1>1, <1>2 DEF TypeOK
  <2>6. CASE k # StatKey
    <3>1. StatKey \notin keys[id]
      BY <1>1, <1>5, <2>6 DEF StatKey
    <3> QED
      BY <3>1, <2>3, <2>4, <2>6, <1>1, <1>2 DEF StatusThere
  <2> QED
    BY <2>5, <2>6
<1>7. \A i \in Ids : i # id => keys'[i] = keys[i] /\ stat'[i] = stat[i]
  BY <1>2 DEF TypeOK
<1> HIDE DEF id, k
<1>8. OneEach' /\ TorrentRows'
  BY <1>2, <1>4 DEF OneEach, InUse, TorrentRows
<1>9. Whole'
  <2>1. ASSUME NEW i \in index, Http(i)
        PROVE  keys'[i] = {n \in 1 .. KeyCount : Written(i, n)'}
    <3>1. CASE i = id
      <4>1. \A n \in 1 .. KeyCount : Written(i, n)' <=> k + 1 <= n
        BY <3>1, <1>3 DEF Written
      <4> QED
        BY <3>1, <4>1, <1>6
    <3>2. CASE i # id
      <4>1. \A n \in 1 .. KeyCount : Written(i, n)' /\ Written(i, n)
        BY <3>2, <1>1, <1>3 DEF Written, id
      <4>2. i \in Ids /\ keys'[i] = keys[i] /\ keys[i] = {n \in 1 .. KeyCount : Written(i, n)}
        BY <2>1, <3>2, <1>7 DEF Whole, TypeOK
      <4> QED
        BY <4>1, <4>2
    <3> QED
      BY <3>1, <3>2
  <2> QED
    BY <1>2, <1>3, <1>4, <2>1 DEF Whole
<1>10. StatusThere'
  <2> SUFFICES ASSUME NEW i \in Ids
               PROVE  /\ StatKey \notin keys'[i] => stat'[i] = "none"
                      /\ Http(i)' /\ StatKey \in keys'[i] => stat'[i] # "none"
    BY DEF StatusThere
  <2> QED
    BY <1>4, <1>6, <1>7 DEF StatusThere
<1>11. RowsShow'
  <2>1. \A i \in index' : Http(i)' => row'[i] # "none"
    BY <1>1, <1>2, <1>4 DEF RowsShow
  <2>2. ASSUME NEW i \in Ids, Http(i)', StatKey \in keys'[i]
        PROVE  row'[i] = stat'[i] \/ (row'[i] = "Stopped" /\ stat'[i] = "Unknown")
    <3>1. i # id
      BY <2>2, <1>6
    <3> QED
      BY <2>2, <3>1, <1>1, <1>2, <1>4, <1>7 DEF RowsShow
  <2> QED
    BY <1>1, <1>2, <2>1, <2>2 DEF RowsShow
<1>12. OwnRows'
  BY <1>1, <1>2, <1>3, <1>4 DEF OwnRows, id
<1> QED
  BY <1>8, <1>9, <1>10, <1>11, <1>12

LEMMA KeptDelLine ==
  ASSUME Tidy, Kept, QuietLine
  PROVE  Kept'
<1> USE DEF Tidy, Ordered, Kept
<1> USE BoundsAssumption
<1>1. /\ up /\ op.kind = "del" /\ op.id # 0 /\ op.id \in index /\ Http(op.id)
      /\ op.id \in op.rows \ op.todo /\ op.key = KeyCount + 1
  BY DEF QuietLine, LineLast, OwnRows
<1>2. /\ index' = {i \in index : Http(i)} \ {op.id}
      /\ UNCHANGED <<of, keys, stat, row, up>>
  BY DEF QuietLine
<1>3. /\ op'.kind = "del" /\ op'.id = 0 /\ op'.key = 0
      /\ op'.todo = op.todo /\ op'.rows = op.rows
  BY <1>1 DEF QuietLine, TypeOK
<1>4. \A i : Http(i)' <=> Http(i)
  BY <1>2 DEF Http
<1>5. index' \subseteq index /\ op.id \notin index'
  BY <1>2
<1>6. OneEach' /\ StatusThere' /\ RowsShow' /\ TorrentRows'
  <2>1. OneEach' /\ StatusThere' /\ TorrentRows'
    BY <1>2, <1>4, <1>5 DEF OneEach, InUse, StatusThere, TorrentRows
  <2>2. RowsShow'
    BY <1>1, <1>2, <1>4, <1>5 DEF RowsShow
  <2> QED
    BY <2>1, <2>2
<1>7. Whole'
  <2>1. ASSUME NEW i \in index', Http(i)
        PROVE  keys[i] = {n \in 1 .. KeyCount : Written(i, n)'}
    <3>1. \A n \in 1 .. KeyCount : Written(i, n)' /\ Written(i, n)
      BY <2>1, <1>1, <1>3, <1>5 DEF Written, TypeOK, Ids
    <3>2. keys[i] = {n \in 1 .. KeyCount : Written(i, n)}
      BY <2>1, <1>5 DEF Whole
    <3> QED
      BY <3>1, <3>2
  <2> QED
    BY <1>2, <1>3, <1>4, <2>1 DEF Whole
<1>8. OwnRows'
  <2>1. \A r \in op.rows \ op.todo : Http(r) => r \notin index'
    BY <1>1, <1>5 DEF OwnRows
  <2> QED
    BY <1>1, <1>2, <1>3, <1>4, <2>1 DEF OwnRows
<1> QED
  BY <1>6, <1>7, <1>8

LEMMA KeptDelReturns ==
  ASSUME Tidy, Kept, DelReturns
  PROVE  Kept'
<1> USE DEF Tidy, Ordered, Kept
<1>1. /\ up /\ op.kind = "del" /\ op.id = 0 /\ op.todo = {}
      /\ row' = [i \in Ids |-> IF i \in op.rows THEN "none" ELSE row[i]]
      /\ op' = NoOp /\ UNCHANGED <<index, of, keys, stat, up>>
  BY DEF DelReturns, db
<1>2. \A i : Http(i)' <=> Http(i)
  BY <1>1 DEF Http
<1>3. \A i \in Ids : /\ i \in op.rows => row'[i] = "none"
                     /\ i \notin op.rows => row'[i] = row[i]
  BY <1>1
<1>4. \A i \in Ids : Http(i) /\ i \in op.rows => i \notin index /\ keys[i] = {}
  <2> SUFFICES ASSUME NEW i \in Ids, Http(i), i \in op.rows
               PROVE  i \notin index /\ keys[i] = {}
    OBVIOUS
  <2>1. i # 0
    BY DEF Ids
  <2>2. i \notin index
    BY <2>1, <1>1 DEF OwnRows
  <2> QED
    BY <2>2 DEF NoStrayKeys
<1>5. OneEach'
  BY <1>1, <1>2, <1>3 DEF OneEach, InUse
<1>6. Whole'
  <2>1. ASSUME NEW i \in index, Http(i)
        PROVE  keys[i] = {n \in 1 .. KeyCount : Written(i, n)'}
    <3>1. \A n \in 1 .. KeyCount : Written(i, n)' /\ Written(i, n)
      BY <2>1, <1>1 DEF Written, NoOp, TypeOK, Ids
    <3>2. keys[i] = {n \in 1 .. KeyCount : Written(i, n)}
      BY <2>1 DEF Whole
    <3> QED
      BY <3>1, <3>2
  <2> QED
    BY <1>1, <1>2, <2>1 DEF Whole, NoOp
<1>7. StatusThere' /\ TorrentRows'
  BY <1>1, <1>2, <1>3 DEF StatusThere, TorrentRows
<1>8. RowsShow'
  <2>1. \A i \in index : Http(i) => row'[i] # "none"
    BY <1>1, <1>3, <1>4 DEF RowsShow, TypeOK
  <2>2. \A i \in Ids : Http(i) /\ StatKey \in keys[i] =>
           row'[i] = stat[i] \/ (row'[i] = "Stopped" /\ stat[i] = "Unknown")
    BY <1>1, <1>3, <1>4 DEF RowsShow
  <2> QED
    BY <1>1, <1>2, <2>1, <2>2 DEF RowsShow
<1>9. OwnRows'
  BY <1>1 DEF OwnRows, NoOp
<1> QED
  BY <1>5, <1>6, <1>7, <1>8, <1>9

LEMMA KeptEnd ==
  ASSUME Tidy, Kept, QuietEnd
  PROVE  Kept'
<1> USE DEF Tidy, Ordered, Kept
<1>1. /\ op = NoOp /\ op' = NoOp /\ up' = FALSE /\ row' = [i \in Ids |-> "none"]
      /\ UNCHANGED <<index, of, keys, stat>>
  BY DEF QuietEnd, db
<1>2. \A i : Http(i)' <=> Http(i)
  BY <1>1 DEF Http
<1>3. OneEach'
  BY <1>1, <1>2 DEF OneEach, InUse
<1>4. Whole' /\ StatusThere'
  BY <1>1, <1>2 DEF Whole, Written, StatusThere
<1>5. RowsShow' /\ TorrentRows'
  BY <1>1, <1>2 DEF RowsShow, TorrentRows
<1>6. OwnRows'
  BY <1>1 DEF OwnRows, NoOp
<1> QED
  BY <1>3, <1>4, <1>5, <1>6

\* What a session begins with: every item has its row.
LEMMA Started ==
  ASSUME Tidy, Kept, Unsized = {}, QuietStart
  PROVE  /\ \A i \in Ids : Http(i) /\ i \in index =>
               /\ stat[i] \in Stored /\ StatKey \in keys[i]
               /\ stat'[i] = IF stat[i] = "Downloading" THEN "Paused" ELSE stat[i]
               /\ row'[i] = stat'[i]
         /\ \A i \in Ids : Http(i) /\ i \notin index => row'[i] = "none" /\ stat'[i] = stat[i]
         /\ \A i \in Ids : ~Http(i) => row'[i] \in {"Stopped", "none"} /\ stat'[i] = stat[i]
         /\ op = NoOp
<1> USE DEF Tidy, Ordered, Kept
<1>1. op = NoOp /\ \A i \in Ids : row[i] = "none"
  BY DEF QuietStart, RowsShow
<1>2. \A i \in index : Http(i) => keys[i] = 1 .. KeyCount
  <2> SUFFICES ASSUME NEW i \in index, Http(i)
               PROVE  keys[i] = 1 .. KeyCount
    OBVIOUS
  <2>1. \A k \in 1 .. KeyCount : Written(i, k)
    BY <1>1 DEF Written, NoOp
  <2> QED
    BY <2>1 DEF Whole
<1>3. readCurlItems = {i \in index : Http(i)}
  BY <1>2 DEF readCurlItems, Readable, Complete
<1>4. ReadBack = {i \in index : Http(i)}
  BY <1>3 DEF ReadBack
<1>5. readTorrentItems \subseteq {i \in index : ~Http(i)}
  BY DEF readTorrentItems, Readable
<1>6. Stuck = {i \in index : Http(i) /\ stat[i] = "Downloading"}
  BY <1>4 DEF Stuck
<1>7. Reset = Stuck
  <2>1. \A i \in Stuck : determine_download_id(of[i]) = i
    BY <1>6, LookupOwn DEF InUse, TypeOK
  <2> QED
    BY <2>1 DEF Reset
<1>8. \A i \in Ids : /\ row'[i] = IF i \in Stuck THEN "Paused"
                                  ELSE IF i \in ReadBack THEN stat[i]
                                  ELSE IF i \in readTorrentItems THEN "Stopped" ELSE "none"
                     /\ stat'[i] = IF i \in Stuck THEN "Paused" ELSE stat[i]
  BY <1>7 DEF QuietStart
<1>9. ASSUME NEW i \in Ids, Http(i), i \in index
      PROVE  /\ stat[i] \in Stored /\ StatKey \in keys[i]
             /\ stat'[i] = IF stat[i] = "Downloading" THEN "Paused" ELSE stat[i]
             /\ row'[i] = stat'[i]
  <2>1. StatKey \in keys[i]
    BY <1>2, <1>9, BoundsAssumption DEF StatKey
  <2>2. stat[i] \in Stored
    BY <1>9, <2>1 DEF StatusThere, TypeOK
  <2>3. i \in ReadBack /\ (i \in Stuck <=> stat[i] = "Downloading")
    BY <1>4, <1>6, <1>9
  <2> QED
    BY <2>1, <2>2, <2>3, <1>8
<1>10. \A i \in Ids : Http(i) /\ i \notin index => row'[i] = "none" /\ stat'[i] = stat[i]
  BY <1>4, <1>5, <1>6, <1>8
<1>11. \A i \in Ids : ~Http(i) => row'[i] \in {"Stopped", "none"} /\ stat'[i] = stat[i]
  BY <1>4, <1>6, <1>8
<1> QED
  BY <1>1, <1>9, <1>10, <1>11

LEMMA KeptStart ==
  ASSUME Tidy, Kept, Unsized = {}, QuietStart
  PROVE  Kept'
<1> USE DEF Tidy, Ordered, Kept
<1>1. /\ \A i \in Ids : Http(i) /\ i \in index =>
            /\ stat[i] \in Stored /\ StatKey \in keys[i]
            /\ stat'[i] = IF stat[i] = "Downloading" THEN "Paused" ELSE stat[i]
            /\ row'[i] = stat'[i]
      /\ \A i \in Ids : Http(i) /\ i \notin index => row'[i] = "none" /\ stat'[i] = stat[i]
      /\ \A i \in Ids : ~Http(i) => row'[i] \in {"Stopped", "none"} /\ stat'[i] = stat[i]
      /\ op = NoOp
  BY Started
<1>2. up' = TRUE /\ UNCHANGED <<index, of, keys, op>>
  BY DEF QuietStart
<1>3. \A i : Http(i)' <=> Http(i)
  BY <1>2 DEF Http
<1>4. \A i \in Ids : Http(i) /\ i \in index => stat'[i] # "none" /\ row'[i] # "none"
  BY <1>1 DEF Stored
<1>5. \A i \in Ids : Http(i) /\ i \notin index => keys[i] = {}
  BY DEF NoStrayKeys
<1>6. OneEach'
  <2>1. \A i \in Ids : Http(i) /\ (i \in index' \/ row'[i] # "none") => InUse(i)
    BY <1>1, <1>2 DEF InUse
  <2> QED
    BY <2>1, <1>2 DEF OneEach, InUse, Http
<1>7. Whole'
  BY <1>2, <1>3 DEF Whole, Written
<1>8. StatusThere'
  <2> SUFFICES ASSUME NEW i \in Ids
               PROVE  /\ StatKey \notin keys[i] => stat'[i] = "none"
                      /\ Http(i) /\ StatKey \in keys[i] => stat'[i] # "none"
    BY <1>2, <1>3 DEF StatusThere
  <2> QED
    BY <1>1, <1>4, <1>5 DEF StatusThere
<1>9. RowsShow'
  <2>1. \A i \in index : Http(i) => row'[i] # "none"
    BY <1>4 DEF TypeOK
  <2>2. \A i \in Ids : Http(i) /\ StatKey \in keys[i] => row'[i] = stat'[i]
    BY <1>1, <1>5
  <2> QED
    BY <1>2, <1>3, <2>1, <2>2 DEF RowsShow
<1>10. TorrentRows'
  BY <1>1, <1>3 DEF TorrentRows
<1>11. OwnRows'
  BY <1>1, <1>2 DEF OwnRows, NoOp
<1> QED
  BY <1>6, <1>7, <1>8, <1>9, <1>10, <1>11

LEMMA KeptNext ==
  ASSUME Tidy, Kept, Unsized = {}, QuietNext
  PROVE  Kept'
  BY KeptAdd, KeptAddWrite, KeptDelBegin, KeptTorrent, KeptChange, KeptDelLookup, KeptDelKey,
     KeptDelLine, KeptDelReturns, KeptEnd, KeptStart DEF QuietNext

-----------------------------------------------------------------------------
(***************************************************************************)
(* What the user sees, identifier by identifier.                           *)
(***************************************************************************)
Has(id) == ~Gone(id) /\ IF up THEN row[id] # "none" ELSE id \in index

IsNew(id) ==
    \/ op.kind = "add" /\ op.id = id
    \/ row[id] = "Stopped" /\ stat[id] = "Unknown"

Status(id) == IF up THEN (IF IsNew(id) THEN "New" ELSE row[id]) ELSE stat[id]

Saves(id) == (id \in index \/ (op.kind = "add" /\ op.id = id)) /\ ~Gone(id)

Items == [f \in Files |-> HistItem(f)]

\* A file has the status of its identifier, and none if it has no identifier.
LEMMA ItemIs ==
  TypeOK /\ OneEach =>
     \A f \in Files :
        /\ \A id \in Ids : of[id] = f /\ Has(id) => HistItem(f) = Status(id)
        /\ (\A id \in Ids : of[id] = f => ~Has(id)) => HistItem(f) = "none"
<1> SUFFICES ASSUME TypeOK, OneEach, NEW f \in Files
             PROVE  /\ \A id \in Ids : of[id] = f /\ Has(id) => HistItem(f) = Status(id)
                    /\ (\A id \in Ids : of[id] = f => ~Has(id)) => HistItem(f) = "none"
  OBVIOUS
<1> DEFINE mine == {id \in Ids : of[id] = f /\ Has(id)}
<1>1. {id \in ShownAs(f) : ~Gone(id)} = mine \/ ~up
  BY DEF ShownAs, Has
<1>2. {id \in index : of[id] = f /\ ~Gone(id)} = mine \/ up
  BY DEF Has, TypeOK
<1>3. HistItem(f) = IF mine = {} THEN "none" ELSE Status(CHOOSE id \in mine : TRUE)
  <2>1. CASE up
    <3> DEFINE shown == {id \in ShownAs(f) : ~Gone(id)}
               one   == CHOOSE id \in shown : TRUE
    <3>1. HistItem(f) = IF shown = {} THEN "none"
                        ELSE IF op.kind = "add" /\ op.id = one THEN "New"
                        ELSE IF row[one] = "Stopped" /\ stat[one] = "Unknown" THEN "New"
                        ELSE row[one]
      BY <2>1, Zenon DEF HistItem
    <3>2. shown = mine
      BY <2>1, <1>1
    <3> HIDE DEF shown
    <3>3. Status(one) = IF op.kind = "add" /\ op.id = one THEN "New"
                        ELSE IF row[one] = "Stopped" /\ stat[one] = "Unknown" THEN "New"
                        ELSE row[one]
      BY <2>1 DEF Status, IsNew
    <3> HIDE DEF one, mine
    <3>4. HistItem(f) = IF shown = {} THEN "none" ELSE Status(one)
      BY <3>1, <3>3, Zenon
    <3> QED
      BY <3>2, <3>4, Zenon DEF one
  <2>2. CASE ~up
    <3> DEFINE kept == {id \in index : of[id] = f /\ ~Gone(id)}
    <3>1. HistItem(f) = IF kept = {} THEN "none" ELSE stat[CHOOSE id \in kept : TRUE]
      BY <2>2, Zenon DEF HistItem
    <3>2. kept = mine
      BY <2>2, <1>2
    <3> HIDE DEF kept, mine
    <3>3. HistItem(f) = IF mine = {} THEN "none" ELSE stat[CHOOSE id \in mine : TRUE]
      BY <3>1, <3>2, Zenon
    <3>4. \A id : Status(id) = stat[id]
      BY <2>2, Zenon DEF Status
    <3> QED
      BY <3>3, <3>4, Zenon
  <2> QED
    BY <2>1, <2>2, Zenon
<1>4. ASSUME NEW id \in Ids, of[id] = f, Has(id)
      PROVE  HistItem(f) = Status(id)
  <2>1. \A i \in mine : i = id
    BY <1>4 DEF OneEach, InUse, Has, Http
  <2>2. id \in mine
    BY <1>4
  <2> HIDE DEF mine
  <2>3. (CHOOSE i \in mine : TRUE) = id
    BY <2>1, <2>2
  <2> QED
    BY <1>3, <2>2, <2>3
<1>5. (\A id \in Ids : of[id] = f => ~Has(id)) => HistItem(f) = "none"
  BY <1>3
<1> QED
  BY <1>4, <1>5

LEMMA ItemIsNext ==
  ASSUME TypeOK', OneEach'
  PROVE  \A f \in Files :
            /\ \A id \in Ids : of'[id] = f /\ Has(id)' => HistItem(f)' = Status(id)'
            /\ (\A id \in Ids : of'[id] = f => ~Has(id)') => HistItem(f)' = "none"
<1>1. (TypeOK /\ OneEach =>
         \A f \in Files :
            /\ \A id \in Ids : of[id] = f /\ Has(id) => HistItem(f) = Status(id)
            /\ (\A id \in Ids : of[id] = f => ~Has(id)) => HistItem(f) = "none")'
  BY ItemIs, PTL
<1> QED
  BY <1>1

LEMMA SavedIs ==
  \A f : f \in HistSaved <=> f \in Files /\ \E id \in Ids : of[id] = f /\ Saves(id)
  BY DEF HistSaved, Saves, Http

LEMMA SavedIsNext ==
  \A f : f \in HistSaved' <=> f \in Files /\ \E id \in Ids : of'[id] = f /\ Saves(id)'
<1>1. (\A f : f \in HistSaved <=> f \in Files /\ \E id \in Ids : of[id] = f /\ Saves(id))'
  BY SavedIs, PTL
<1> QED
  BY <1>1

\* What a step means for a file whose identifiers it does not touch.
SeenAs(f) ==
    \A id \in Ids :
       /\ of[id] = f /\ Has(id) <=> of'[id] = f /\ Has(id)'
       /\ of[id] = f /\ Has(id) => Status(id)' = Status(id)
       /\ of[id] = f /\ Saves(id) <=> of'[id] = f /\ Saves(id)'

Unmoved(f) == HistItem(f)' = HistItem(f) /\ (f \in HistSaved' <=> f \in HistSaved)

LEMMA SeenUnmoved ==
  ASSUME TypeOK, OneEach, TypeOK', OneEach', NEW f \in Files, SeenAs(f)
  PROVE  Unmoved(f)
<1>1. /\ \A id \in Ids : of[id] = f /\ Has(id) => HistItem(f) = Status(id)
      /\ (\A id \in Ids : of[id] = f => ~Has(id)) => HistItem(f) = "none"
  BY ItemIs
<1>2. \A g \in Files :
         /\ \A i \in Ids : of'[i] = g /\ Has(i)' => HistItem(g)' = Status(i)'
         /\ (\A i \in Ids : of'[i] = g => ~Has(i)') => HistItem(g)' = "none"
  BY ItemIsNext
<1>3. /\ \A id \in Ids : of'[id] = f /\ Has(id)' => HistItem(f)' = Status(id)'
      /\ (\A id \in Ids : of'[id] = f => ~Has(id)') => HistItem(f)' = "none"
  BY <1>2
<1>4. HistItem(f)' = HistItem(f)
  BY <1>1, <1>3 DEF SeenAs
<1>5. \A g : g \in HistSaved' <=> g \in Files /\ \E i \in Ids : of'[i] = g /\ Saves(i)'
  BY SavedIsNext
<1>6. f \in HistSaved' <=> \E id \in Ids : of'[id] = f /\ Saves(id)'
  BY <1>5
<1>7. f \in HistSaved <=> \E id \in Ids : of[id] = f /\ Saves(id)
  BY SavedIs
<1>8. f \in HistSaved' <=> f \in HistSaved
  BY <1>6, <1>7 DEF SeenAs
<1> QED
  BY <1>4, <1>8 DEF Unmoved

\* A step that touches no file, and one that touches a single file.
LEMMA NoneMoved ==
  ASSUME \A f \in Files : Unmoved(f), up' = up
  PROVE  UNCHANGED <<[f \in Files |-> HistItem(f)], HistSaved, up>>
<1>1. [f \in Files |-> HistItem(f)]' = [f \in Files |-> HistItem(f)]
  BY DEF Unmoved
<1>2. HistSaved \subseteq Files
  BY SavedIs
<1>3. \A g : g \in HistSaved' <=> g \in Files /\ \E i \in Ids : of'[i] = g /\ Saves(i)'
  BY SavedIsNext
<1>4. HistSaved' \subseteq Files
  BY <1>3
<1>5. HistSaved' = HistSaved
  BY <1>2, <1>4 DEF Unmoved
<1> QED
  BY <1>1, <1>5

LEMMA OneMoved ==
  ASSUME NEW f \in Files, \A g \in Files \ {f} : Unmoved(g)
  PROVE  /\ Items' = [Items EXCEPT ![f] = HistItem(f)']
         /\ f \in HistSaved' => HistSaved' = HistSaved \cup {f}
         /\ f \notin HistSaved' => HistSaved' = HistSaved \ {f}
<1>1. Items' = [Items EXCEPT ![f] = HistItem(f)']
  BY DEF Unmoved, Items
<1>2. HistSaved \subseteq Files
  BY SavedIs
<1>3. \A g : g \in HistSaved' <=> g \in Files /\ \E i \in Ids : of'[i] = g /\ Saves(i)'
  BY SavedIsNext
<1>4. HistSaved' \subseteq Files
  BY <1>3
<1>5. \A g \in Files \ {f} : g \in HistSaved' <=> g \in HistSaved
  BY DEF Unmoved
<1> HIDE DEF Items
<1> QED
  BY <1>1, <1>2, <1>4, <1>5
-----------------------------------------------------------------------------
(***************************************************************************)
(* Each step without a fault is a step of History or changes nothing.      *)
(***************************************************************************)
Stutters == UNCHANGED <<[f \in Files |-> HistItem(f)], HistSaved, up>>

Good == Tidy /\ Kept

LEMMA NotGone == op.kind # "del" /\ Good => \A id : ~Gone(id)
  BY DEF Gone, Good, Kept, OwnRows

LEMMA NotGoneNext ==
  ASSUME Good', op'.kind # "del"
  PROVE  \A id : ~Gone(id)'
<1>1. (op.kind # "del" /\ Good => \A id : ~Gone(id))'
  BY NotGone, PTL
<1> QED
  BY <1>1

LEMMA Seen ==
  ASSUME Good, Good', up' = up, \A f \in Files : SeenAs(f)
  PROVE  Stutters
<1>1. \A f \in Files : Unmoved(f)
  BY SeenUnmoved DEF Good, Tidy, Ordered, Kept
<1> QED
  BY <1>1, NoneMoved DEF Stutters

\* One file changes and the others are seen as before.
LEMMA OneSeen ==
  ASSUME Good, Good', NEW f \in Files, \A g \in Files \ {f} : SeenAs(g)
  PROVE  /\ Items' = [Items EXCEPT ![f] = HistItem(f)']
         /\ f \in HistSaved' => HistSaved' = HistSaved \cup {f}
         /\ f \notin HistSaved' => HistSaved' = HistSaved \ {f}
<1>1. \A g \in Files \ {f} : Unmoved(g)
  BY SeenUnmoved DEF Good, Tidy, Ordered, Kept
<1> QED
  BY <1>1, OneMoved

LEMMA AddingAdds ==
  ASSUME Good, Good', NEW f \in Files, sendDetails(f)
  PROVE  H!Add(f)
<1> USE DEF Good, Tidy, Ordered, Kept
<1>1. PICK id \in Ids, s \in {"Stopped", "Unknown"}, ok \in BOOLEAN :
         /\ Unused(id)
         /\ ok => s = "Stopped"
         /\ of' = [of EXCEPT ![id] = f]
         /\ row' = [row EXCEPT ![id] = s]
         /\ op' = IF ok THEN Adding(id) ELSE NoOp
  BY DEF sendDetails
<1>2. up /\ up' /\ op = NoOp /\ ShownAs(f) = {} /\ UNCHANGED <<index, keys, stat, up>>
  BY DEF sendDetails, Idle, db, TypeOK
<1>3. id \notin index /\ row[id] = "none" /\ stat[id] = "none"
  BY <1>1 DEF Unused, StatusThere
<1>4. /\ \A i \in Ids : i # id => of'[i] = of[i] /\ row'[i] = row[i]
      /\ of'[id] = f /\ row'[id] = s
  BY <1>1 DEF TypeOK
<1>5. /\ op.kind = "none" /\ op'.kind # "del"
      /\ op'.kind = "add" <=> ok
      /\ op'.kind = "add" => op'.id = id
  BY <1>1, <1>2 DEF NoOp, Adding
<1>6. (\A i : ~Gone(i)) /\ \A i : ~Gone(i)'
  BY <1>5, NotGone, NotGoneNext DEF Good
<1>7. \A i \in Ids : of[i] = f => row[i] = "none" /\ i \notin index
  <2> SUFFICES ASSUME NEW i \in Ids, of[i] = f
               PROVE  row[i] = "none" /\ i \notin index
    OBVIOUS
  <2>1. row[i] = "none"
    BY <1>2 DEF ShownAs
  <2> QED
    BY <2>1, <1>2 DEF RowsShow, Http
<1>8. \A g \in Files \ {f} : SeenAs(g)
  BY <1>2, <1>3, <1>4, <1>5, <1>6 DEF SeenAs, Has, Saves, Status, IsNew
<1>9. HistItem(f) = "none" /\ f \notin HistSaved
  BY <1>2, <1>5, <1>7, ItemIs, SavedIs DEF Has, Saves
<1>10. Has(id)' /\ Status(id)' = (IF ok THEN "New" ELSE s)
  BY <1>1, <1>2, <1>3, <1>4, <1>5, <1>6 DEF Has, Status, IsNew
<1>11. HistItem(f)' = IF ok THEN "New" ELSE s
  <2>1. \A g \in Files :
           /\ \A i \in Ids : of'[i] = g /\ Has(i)' => HistItem(g)' = Status(i)'
           /\ (\A i \in Ids : of'[i] = g => ~Has(i)') => HistItem(g)' = "none"
    BY ItemIsNext DEF Good, Tidy, Ordered, Kept
  <2> QED
    BY <2>1, <1>4, <1>10
<1>12. f \in HistSaved' <=> ok
  <2>1. \A g : g \in HistSaved' <=> g \in Files /\ \E i \in Ids : of'[i] = g /\ Saves(i)'
    BY SavedIsNext
  <2>2. \A i \in Ids : of'[i] = f => (Saves(i)' <=> i = id /\ ok)
    BY <1>2, <1>3, <1>4, <1>5, <1>6, <1>7 DEF Saves
  <2> QED
    BY <2>1, <2>2, <1>4
<1>13. Items[f] = "none"
  BY <1>9 DEF Items
<1>14. /\ Items' = [Items EXCEPT ![f] = IF ok THEN "New" ELSE s]
       /\ HistSaved' = IF ok THEN HistSaved \cup {f} ELSE HistSaved
  BY <1>8, <1>9, <1>11, <1>12, OneSeen DEF Good
<1> QED
  BY <1>2, <1>13, <1>14, Zenon DEF H!Add, Items

LEMMA TorrentUnseen ==
  ASSUME Good, Good', NEW t \in Torrents, addTorrentItem(t)
  PROVE  Stutters
<1> USE DEF Good, Tidy, Ordered, Kept
<1>1. PICK id \in Ids : Unused(id) /\ of' = [of EXCEPT ![id] = t] /\ op' = Adding(id)
  BY DEF addTorrentItem
<1>2. up /\ up' /\ op = NoOp /\ UNCHANGED <<index, keys, stat, row, up>>
  BY DEF addTorrentItem, Idle, db, TypeOK
<1>3. id \notin index /\ row[id] = "none" /\ t \notin Files
  BY <1>1, ItemsAssumption DEF Unused
<1>4. (\A i \in Ids : i # id => of'[i] = of[i]) /\ of'[id] = t
  BY <1>1 DEF TypeOK
<1>5. op.kind = "none" /\ op'.kind = "add" /\ op'.id = id
  BY <1>1, <1>2 DEF NoOp, Adding
<1>6. (\A i : ~Gone(i)) /\ \A i : ~Gone(i)'
  BY <1>5, NotGone, NotGoneNext DEF Good
<1>7. \A f \in Files : SeenAs(f)
  BY <1>2, <1>3, <1>4, <1>5, <1>6 DEF SeenAs, Has, Saves, Status, IsNew
<1> QED
  BY <1>2, <1>7, Seen DEF Good

LEMMA WriteUnseen ==
  ASSUME Good, Good', QuietWrite
  PROVE  Stutters
<1> USE DEF Good, Tidy, Ordered, Kept
<1>1. up /\ up' /\ op.kind = "add" /\ op.id \in Ids /\ op.key \in 0 .. KeyCount /\ UNCHANGED <<of, up>>
  BY DEF QuietWrite, LineFirst, TypeOK
<1>2. op.id \in index' /\ (\A i \in Ids : i # op.id => (i \in index' <=> i \in index))
  BY <1>1 DEF QuietWrite, LineFirst
<1>3. \A i \in Ids : (i # op.id => stat'[i] = stat[i]) /\ (Http(i) => row'[i] = row[i])
  BY <1>1 DEF QuietWrite, AddReturns, TypeOK
<1>4. /\ op'.kind # "del" /\ (op'.kind = "add" => op'.id = op.id)
      /\ op'.kind # "add" => op.key = KeyCount
  <2>1. CASE op.key < KeyCount
    BY <2>1, <1>1 DEF QuietWrite, TypeOK
  <2>2. CASE ~(op.key < KeyCount)
    <3>1. op' = NoOp
      BY <2>2 DEF QuietWrite, AddReturns
    <3>2. op'.kind = "none"
      BY <3>1 DEF NoOp
    <3> QED
      BY <3>2, <2>2, <1>1, BoundsAssumption
  <2> QED
    BY <2>1, <2>2
<1>5. (\A i : ~Gone(i)) /\ \A i : ~Gone(i)'
  BY <1>1, <1>4, NotGone, NotGoneNext DEF Good
<1>6. Http(op.id) => row[op.id] = "Stopped" /\ stat[op.id] \in {"none", "Unknown"}
  BY <1>1 DEF OwnRows
<1>7. Http(op.id) => stat'[op.id] \in {"none", "Unknown"}
  BY <1>1, <1>6 DEF QuietWrite, TypeOK
<1>8. Http(op.id) /\ op'.kind # "add" => stat'[op.id] = "Unknown"
  <2> SUFFICES ASSUME Http(op.id), op'.kind # "add", NEW r \in Ids, r = op.id
               PROVE  stat'[r] = "Unknown"
    BY <1>1
  <2>1. op'.kind = "none"
    BY <1>1, <1>4 DEF TypeOK
  <2>2. StatKey \in 1 .. KeyCount /\ Written(r, StatKey)'
    BY <2>1, BoundsAssumption DEF Written, StatKey
  <2>3. Http(r)'
    BY <1>1 DEF Http
  <2>4. StatKey \in keys'[r]
    <3>1. keys'[r] = {k \in 1 .. KeyCount : Written(r, k)'}
      BY <1>1, <1>2, <1>4, <2>1, <2>3 DEF Whole, Http
    <3> QED
      BY <3>1, <2>2
  <2>5. stat'[r] # "none"
    BY <1>1, <2>3, <2>4 DEF StatusThere, Http
  <2> QED
    BY <1>7, <2>5
<1>9. ASSUME NEW f \in Files, NEW i \in Ids, of[i] = f
      PROVE  /\ Has(i) <=> Has(i)'
             /\ Status(i)' = Status(i)
             /\ Saves(i) <=> Saves(i)'
  <2>1. Http(i) /\ row'[i] = row[i]
    BY <1>3, <1>9 DEF Http
  <2>2. Has(i) <=> Has(i)'
    BY <1>1, <1>5, <2>1 DEF Has
  <2>3. CASE i # op.id
    BY <2>1, <2>2, <2>3, <1>1, <1>2, <1>3, <1>4, <1>5 DEF Status, IsNew, Saves
  <2>4. CASE i = op.id
    <3>1. IsNew(i) /\ IsNew(i)'
      BY <2>1, <2>4, <1>1, <1>4, <1>6, <1>8 DEF IsNew
    <3>2. Saves(i) /\ Saves(i)'
      BY <2>4, <1>1, <1>2, <1>5 DEF Saves
    <3> QED
      BY <2>2, <3>1, <3>2, <1>1 DEF Status
  <2> QED
    BY <2>3, <2>4
<1>10. \A f \in Files : SeenAs(f)
  BY <1>1, <1>9 DEF SeenAs
<1> QED
  BY <1>1, <1>10, Seen DEF Good

LEMMA DelBeginUnseen ==
  ASSUME Good, Good', \/ QuietClear
                      \/ \E id \in Ids : removeSelRows(id)
  PROVE  Stutters
<1> USE DEF Good, Tidy, Ordered, Kept
<1>1. PICK todo \in SUBSET Ids, gone \in SUBSET Ids :
         /\ op' = Deleting(todo, gone)
         /\ \A r \in gone : Http(r) => r \in todo
  <2>1. CASE QuietClear
    BY <2>1 DEF QuietClear, Completed
  <2>2. CASE \E id \in Ids : removeSelRows(id)
    <3>1. PICK id \in Ids : removeSelRows(id)
      BY <2>2
    <3> DEFINE todo == IF Http(id) THEN {id} ELSE {}
    <3>2. op' = Deleting(todo, {id})
      BY <3>1 DEF removeSelRows
    <3>3. todo \in SUBSET Ids /\ \A r \in {id} : Http(r) => r \in todo
      OBVIOUS
    <3> HIDE DEF todo
    <3> QED
      BY <3>2, <3>3
  <2> QED
    BY <2>1, <2>2
<1>2. up /\ up' /\ op = NoOp /\ UNCHANGED <<index, of, keys, stat, row, up>>
  BY DEF QuietClear, removeSelRows, Idle, db, TypeOK
<1>3. op.kind = "none" /\ op'.kind = "del" /\ op'.todo = todo /\ op'.rows = gone
  BY <1>1, <1>2 DEF Deleting, NoOp
<1>4. \A i : ~Gone(i)
  BY <1>3, NotGone DEF Good
<1>5. \A i : Http(i) => ~Gone(i)'
  BY <1>1, <1>3 DEF Gone
<1>6. \A f \in Files : SeenAs(f)
  BY <1>2, <1>3, <1>4, <1>5 DEF SeenAs, Has, Saves, Status, IsNew, Http
<1> QED
  BY <1>2, <1>6, Seen DEF Good

LEMMA StartTorrentUnseen ==
  ASSUME Good, Good', NEW id \in Ids, startTorrentDl(id)
  PROVE  Stutters
<1> USE DEF Good, Tidy, Ordered, Kept
<1>1. /\ up /\ up' /\ op = NoOp /\ UNCHANGED <<index, of, keys, stat, op, up>>
      /\ row' = [row EXCEPT ![id] = "Downloading"]
  BY DEF startTorrentDl, Idle, db, TypeOK
<1>2. ~Http(id)
  BY DEF startTorrentDl, readTorrentItems, Readable
<1>3. \A i \in Ids : Http(i) => row'[i] = row[i]
  BY <1>1, <1>2 DEF TypeOK
<1>4. \A i : Gone(i)' <=> Gone(i)
  BY <1>1 DEF Gone
<1>5. \A f \in Files : SeenAs(f)
  BY <1>1, <1>3, <1>4 DEF SeenAs, Has, Saves, Status, IsNew, Http
<1> QED
  BY <1>1, <1>5, Seen DEF Good

LEMMA ChangeChanges ==
  ASSUME Good, Good', NEW id \in Ids, QuietChange(id)
  PROVE  H!Change(of[id])
<1> USE DEF Good, Tidy, Ordered, Kept
<1> DEFINE f == of[id]
<1>1. PICK status \in Stored \ {"Unknown"} :
         /\ row' = [row EXCEPT ![id] = status]
         /\ stat' = IF id \in index THEN [stat EXCEPT ![id] = status] ELSE stat
         /\ UNCHANGED keys
  BY Changed
<1>2. up /\ up' /\ op = NoOp /\ Http(id) /\ row[id] # "none" /\ UNCHANGED <<index, of, op, up>>
  BY DEF QuietChange, Idle, TypeOK
<1>3. f \in Files
  BY <1>2 DEF Http
<1>4. /\ \A i \in Ids : i # id => row'[i] = row[i] /\ stat'[i] = stat[i]
      /\ row'[id] = status /\ status # "none"
      /\ id \in index => stat'[id] = status
      /\ id \notin index => stat'[id] = stat[id]
  BY <1>1 DEF TypeOK, Stored
<1>5. id \notin index => stat[id] = "none"
  BY <1>2 DEF NoStrayKeys, StatusThere
<1>6. op.kind = "none"
  BY <1>2 DEF NoOp
<1>7. (\A i : ~Gone(i)) /\ \A i : ~Gone(i)'
  BY <1>2, <1>6, NotGone, NotGoneNext DEF Good
<1>8. \A g \in Files \ {f} : SeenAs(g)
  BY <1>2, <1>4, <1>6, <1>7 DEF SeenAs, Has, Saves, Status, IsNew
<1>9. Has(id) /\ Status(id) # "none"
  BY <1>2, <1>7 DEF Has, Status
<1>10. Has(id)' /\ Status(id)' = status
  BY <1>2, <1>4, <1>5, <1>6, <1>7 DEF Has, Status, IsNew
<1>11. HistItem(f) # "none"
  BY <1>3, <1>9, ItemIs
<1>12. HistItem(f)' = status
  <2>1. \A g \in Files :
           /\ \A i \in Ids : of'[i] = g /\ Has(i)' => HistItem(g)' = Status(i)'
           /\ (\A i \in Ids : of'[i] = g => ~Has(i)') => HistItem(g)' = "none"
    BY ItemIsNext DEF Good, Tidy, Ordered, Kept
  <2> QED
    BY <2>1, <1>2, <1>3, <1>10
<1>13. f \in HistSaved' <=> f \in HistSaved
  <2>1. \A g : g \in HistSaved' <=> g \in Files /\ \E i \in Ids : of'[i] = g /\ Saves(i)'
    BY SavedIsNext
  <2>2. \A i \in Ids : Saves(i)' <=> Saves(i)
    BY <1>2, <1>7 DEF Saves
  <2> QED
    BY <2>1, <2>2, <1>2, SavedIs
<1> HIDE DEF f
<1>14. Items[f] # "none"
  BY <1>3, <1>11 DEF Items
<1>15. Items' = [Items EXCEPT ![f] = status] /\ HistSaved' = HistSaved
  BY <1>3, <1>8, <1>12, <1>13, OneSeen DEF Good
<1>16. status \in {"Downloading", "Paused", "Stopped", "Completed"}
  BY DEF Stored
<1>17. H!Change(f)
  BY <1>2, <1>14, <1>15, <1>16, Zenon DEF H!Change, Items
<1> QED
  BY <1>17 DEF f

\* A step after which the item of one identifier is gone.
LEMMA Leaves ==
  ASSUME Good, Good', NEW r \in Ids, Http(r), up, up' = up, UNCHANGED of,
         row[r] # "none", ~Gone(r), Gone(r)', UNCHANGED row,
         \A i \in Ids : i # r => /\ Has(i) <=> Has(i)'
                                 /\ Status(i)' = Status(i)
                                 /\ Saves(i) <=> Saves(i)'
  PROVE  H!Remove(of[r])
<1> USE DEF Good, Tidy, Ordered, Kept
<1>1. PICK f \in Files : f = of[r] /\ of'[r] = f
  BY DEF Http
<1>2. \A g \in Files \ {f} : SeenAs(g)
  BY <1>1 DEF SeenAs
<1>3. Has(r) /\ Status(r) # "none"
  BY DEF Has, Status
<1>4. HistItem(f) # "none"
  BY <1>1, <1>3, ItemIs
<1>5. ~Has(r)' /\ ~Saves(r)'
  BY DEF Has, Saves
<1>6. \A i \in Ids : of[i] = f /\ i # r => ~Has(i) /\ ~InUse(i)
  BY <1>1 DEF OneEach, InUse, Has
<1>7. HistItem(f)' = "none"
  <2>1. \A g \in Files :
           /\ \A i \in Ids : of'[i] = g /\ Has(i)' => HistItem(g)' = Status(i)'
           /\ (\A i \in Ids : of'[i] = g => ~Has(i)') => HistItem(g)' = "none"
    BY ItemIsNext DEF Good, Tidy, Ordered, Kept
  <2> QED
    BY <2>1, <1>1, <1>5, <1>6
<1>8. \A i \in Ids : of[i] = f /\ i # r => ~Saves(i)
  <2> SUFFICES ASSUME NEW i \in Ids, of[i] = f, i # r
               PROVE  ~Saves(i)
    OBVIOUS
  <2>1. i \notin index /\ row[i] = "none"
    BY <1>6 DEF InUse
  <2>2. Http(i)
    BY <1>1 DEF Http
  <2>3. ~(op.kind = "add" /\ op.id = i)
    BY <2>1, <2>2 DEF OwnRows
  <2> QED
    BY <2>1, <2>3 DEF Saves
<1>9. f \notin HistSaved'
  <2>1. \A g : g \in HistSaved' <=> g \in Files /\ \E i \in Ids : of'[i] = g /\ Saves(i)'
    BY SavedIsNext
  <2> QED
    BY <2>1, <1>5, <1>8
<1>10. Items[f] # "none"
  BY <1>1, <1>4 DEF Items
<1>11. Items' = [Items EXCEPT ![f] = "none"] /\ HistSaved' = HistSaved \ {f}
  BY <1>1, <1>2, <1>7, <1>9, OneSeen DEF Good
<1>12. H!Remove(f)
  BY <1>10, <1>11, Zenon DEF H!Remove, Items
<1> QED
  BY <1>1, <1>12

LEMMA LookupSeen ==
  ASSUME Good, Good', QuietLookup
  PROVE  Stutters \/ \E f \in Files : H!Remove(f)
<1> USE DEF Good, Tidy, Ordered, Kept
<1>1. PICK r \in op.todo :
         /\ r \in Ids /\ Http(r) /\ row[r] # "none"
         /\ op'.kind = "del" /\ op'.todo = op.todo \ {r} /\ op'.rows = op.rows
         /\ op'.id = IF r \in index THEN r ELSE 0
         /\ op'.key = IF r \in index THEN StatKey ELSE 0
  BY LookedUp
<1>2. up /\ up' /\ op.kind = "del" /\ op.id = 0 /\ UNCHANGED <<index, of, keys, stat, row, up>>
  BY DEF QuietLookup, db, TypeOK
<1>3. \A i \in Ids : i # r => (Gone(i)' <=> Gone(i))
  BY <1>1, <1>2 DEF Gone
<1>4. ~Gone(r)
  BY <1>1 DEF Gone
<1>5. \A i \in Ids : i # r => /\ Has(i) <=> Has(i)'
                              /\ Status(i)' = Status(i)
                              /\ Saves(i) <=> Saves(i)'
  BY <1>1, <1>2, <1>3 DEF Has, Saves, Status, IsNew
<1>6. CASE r \in index
  <2>1. StatKey \in keys[r]
    <3>1. StatKey \in 1 .. KeyCount /\ Written(r, StatKey)
      BY <1>2, <1>6, BoundsAssumption DEF Written, StatKey, TypeOK, Ids
    <3> QED
      BY <3>1, <1>1, <1>6 DEF Whole
  <2>2. ~Gone(r)'
    BY <2>1, <1>2 DEF Gone
  <2>3. /\ Has(r) <=> Has(r)'
        /\ Status(r)' = Status(r)
        /\ Saves(r) <=> Saves(r)'
    BY <2>2, <1>1, <1>2, <1>4 DEF Has, Saves, Status, IsNew
  <2>4. \A f \in Files : SeenAs(f)
    BY <1>2, <1>5, <2>3 DEF SeenAs
  <2> QED
    BY <1>2, <2>4, Seen DEF Good
<1>7. CASE r \notin index
  <2>1. keys[r] = {}
    BY <1>1, <1>7 DEF NoStrayKeys
  <2>2. Gone(r)'
    BY <2>1, <1>1, <1>2 DEF Gone, OwnRows
  <2>3. H!Remove(of[r])
    BY <1>1, <1>2, <1>4, <1>5, <2>2, Leaves DEF Good
  <2> QED
    BY <2>3, <1>1 DEF Http
<1> QED
  BY <1>6, <1>7

LEMMA DelKeySeen ==
  ASSUME Good, Good', DelKey
  PROVE  Stutters \/ \E f \in Files : H!Remove(f)
<1> USE DEF Good, Tidy, Ordered, Kept
<1>1. /\ up /\ up' /\ op.kind = "del" /\ op.id \in index /\ op.id \in Ids /\ Http(op.id)
      /\ op.id \in op.rows \ op.todo /\ op.key \in 1 .. KeyCount /\ row[op.id] # "none"
  BY DEF DelKey, LineLast, OwnRows, TypeOK
<1>2. /\ keys' = [keys EXCEPT ![op.id] = @ \ {op.key}]
      /\ stat' = IF op.key = StatKey THEN [stat EXCEPT ![op.id] = "none"] ELSE stat
      /\ UNCHANGED <<index, of, row, up>>
  BY DEF DelKey
<1>3. /\ op'.kind = "del" /\ op'.id = op.id /\ op'.todo = op.todo /\ op'.rows = op.rows
  BY <1>1 DEF DelKey, TypeOK
<1>4. \A i \in Ids : i # op.id => keys'[i] = keys[i] /\ stat'[i] = stat[i]
  BY <1>2 DEF TypeOK
<1>5. \A i \in Ids : i # op.id => (Gone(i)' <=> Gone(i))
  BY <1>3, <1>4 DEF Gone
<1>6. \A i \in Ids : i # op.id => /\ Has(i) <=> Has(i)'
                                  /\ Status(i)' = Status(i)
                                  /\ Saves(i) <=> Saves(i)'
  BY <1>1, <1>2, <1>3, <1>4, <1>5 DEF Has, Saves, Status, IsNew
<1>7. keys[op.id] = {k \in 1 .. KeyCount : op.key <= k} /\ keys'[op.id] = keys[op.id] \ {op.key}
  BY <1>1, <1>2 DEF Whole, Written, TypeOK
<1>8. CASE op.key = StatKey
  <2>0. PICK r \in Ids : r = op.id
    BY <1>1
  <2>1. ~Gone(r)
    BY <2>0, <1>1, <1>7, <1>8, BoundsAssumption DEF Gone
  <2>2. Gone(r)'
    BY <2>0, <1>1, <1>3, <1>7, <1>8 DEF Gone
  <2>3. Http(r) /\ row[r] # "none"
    BY <2>0, <1>1
  <2>4. \A i \in Ids : i # r => /\ Has(i) <=> Has(i)'
                                /\ Status(i)' = Status(i)
                                /\ Saves(i) <=> Saves(i)'
    BY <2>0, <1>6
  <2>5. H!Remove(of[r])
    BY <1>1, <1>2, <2>1, <2>2, <2>3, <2>4, Leaves DEF Good
  <2> QED
    BY <2>3, <2>5 DEF Http
<1>9. CASE op.key # StatKey
  <2>1. StatKey \notin keys[op.id]
    BY <1>1, <1>7, <1>9 DEF StatKey
  <2>2. Gone(op.id) /\ Gone(op.id)'
    BY <1>1, <1>3, <1>7, <2>1 DEF Gone
  <2>3. ~Has(op.id) /\ ~Has(op.id)' /\ ~Saves(op.id) /\ ~Saves(op.id)'
    BY <2>2 DEF Has, Saves
  <2>4. \A i \in Ids : /\ Has(i) <=> Has(i)'
                       /\ Has(i) => Status(i)' = Status(i)
                       /\ Saves(i) <=> Saves(i)'
    <3> SUFFICES ASSUME NEW i \in Ids
                 PROVE  /\ Has(i) <=> Has(i)'
                        /\ Has(i) => Status(i)' = Status(i)
                        /\ Saves(i) <=> Saves(i)'
      OBVIOUS
    <3>1. CASE i = op.id
      BY <1>3, <2>3, <3>1
    <3>2. CASE i # op.id
      BY <3>2, <1>6
    <3> QED
      BY <3>1, <3>2
  <2>5. \A f \in Files : SeenAs(f)
    BY <1>2, <2>4 DEF SeenAs
  <2> QED
    BY <1>1, <1>2, <2>5, Seen DEF Good
<1> QED
  BY <1>8, <1>9

LEMMA DelLineUnseen ==
  ASSUME Good, Good', QuietLine
  PROVE  Stutters
<1> USE DEF Good, Tidy, Ordered, Kept
<1> USE BoundsAssumption
<1>1. /\ up /\ up' /\ op.kind = "del" /\ op.id \in index /\ op.id \in Ids
      /\ op.id \in op.rows \ op.todo /\ op.key = KeyCount + 1
      /\ \A k \in 1 .. KeyCount : k < op.key => k \notin keys[op.id]
  BY DEF QuietLine, LineLast, OwnRows, TypeOK
<1>2. /\ index' = {i \in index : Http(i)} \ {op.id}
      /\ UNCHANGED <<of, keys, stat, row, up>>
  BY DEF QuietLine
<1>3. op'.kind = "del" /\ op'.todo = op.todo /\ op'.rows = op.rows
  BY <1>1 DEF QuietLine, TypeOK
<1>4. \A i : Gone(i)' <=> Gone(i)
  BY <1>2, <1>3 DEF Gone
<1>5. StatKey \notin keys[op.id]
  BY <1>1 DEF StatKey
<1>6. Gone(op.id)
  BY <1>1, <1>5 DEF Gone
<1>7. \A i \in Ids : Http(i) => /\ Has(i) <=> Has(i)'
                                /\ Status(i)' = Status(i)
                                /\ Saves(i) <=> Saves(i)'
  BY <1>1, <1>2, <1>3, <1>4, <1>6 DEF Has, Saves, Status, IsNew
<1>8. \A f \in Files : SeenAs(f)
  BY <1>2, <1>7 DEF SeenAs, Http
<1> QED
  BY <1>1, <1>2, <1>8, Seen DEF Good

LEMMA DelReturnsUnseen ==
  ASSUME Good, Good', DelReturns
  PROVE  Stutters
<1> USE DEF Good, Tidy, Ordered, Kept
<1>1. /\ up /\ up' /\ op.kind = "del" /\ op.id = 0 /\ op.todo = {}
      /\ row' = [i \in Ids |-> IF i \in op.rows THEN "none" ELSE row[i]]
      /\ op'.kind = "none" /\ UNCHANGED <<index, of, keys, stat, up>>
  BY DEF DelReturns, db, NoOp, TypeOK
<1>2. \A i : ~Gone(i)'
  BY <1>1, NotGoneNext DEF Good
<1>3. ASSUME NEW i \in Ids, Http(i)
      PROVE  /\ Has(i) <=> Has(i)'
             /\ Has(i) => Status(i)' = Status(i)
             /\ Saves(i) <=> Saves(i)'
  <2>1. CASE i \in op.rows
    <3>1. i # 0
      BY DEF Ids
    <3>2. i \notin index
      BY <1>1, <1>3, <2>1, <3>1 DEF OwnRows
    <3>3. keys[i] = {}
      BY <1>3, <3>2 DEF NoStrayKeys
    <3>4. Gone(i)
      BY <1>1, <2>1, <3>3 DEF Gone
    <3>5. ~Has(i) /\ ~Saves(i)
      BY <3>4 DEF Has, Saves
    <3>6. ~Has(i)' /\ ~Saves(i)'
      BY <1>1, <2>1, <3>2 DEF Has, Saves
    <3> QED
      BY <3>5, <3>6
  <2>2. CASE i \notin op.rows
    <3>1. ~Gone(i)
      BY <2>2 DEF Gone
    <3> QED
      BY <1>1, <1>2, <2>2, <3>1 DEF Has, Saves, Status, IsNew
  <2> QED
    BY <2>1, <2>2
<1>4. \A f \in Files : SeenAs(f)
  BY <1>1, <1>3 DEF SeenAs, Http
<1> QED
  BY <1>1, <1>4, Seen DEF Good

LEMMA EndEnds ==
  ASSUME Good, Good', QuietEnd
  PROVE  H!EndSession
<1> USE DEF Good, Tidy, Ordered, Kept
<1>1. /\ up /\ up' = FALSE /\ op.kind = "none" /\ op'.kind = "none" /\ op = NoOp
      /\ UNCHANGED <<index, of, keys, stat>>
  BY DEF QuietEnd, db, NoOp
<1>2. (\A i : ~Gone(i)) /\ \A i : ~Gone(i)'
  BY <1>1, NotGone, NotGoneNext DEF Good
<1>3. \A g : g \in HistSaved' <=> g \in Files /\ \E i \in Ids : of'[i] = g /\ Saves(i)'
  BY SavedIsNext
<1>4. HistSaved' = HistSaved
  <2>1. \A i \in Ids : Saves(i)' <=> Saves(i)
    BY <1>1, <1>2 DEF Saves
  <2> QED
    BY <1>1, <1>3, <2>1, SavedIs
<1>5. \A g \in Files :
         /\ \A i \in Ids : of'[i] = g /\ Has(i)' => HistItem(g)' = Status(i)'
         /\ (\A i \in Ids : of'[i] = g => ~Has(i)') => HistItem(g)' = "none"
  BY ItemIsNext DEF Good, Tidy, Ordered, Kept
<1>6. ASSUME NEW f \in Files
      PROVE  HistItem(f)' = IF f \notin HistSaved THEN "none"
                            ELSE IF HistItem(f) = "New" THEN "Unknown" ELSE HistItem(f)
  <2>1. CASE f \notin HistSaved
    <3>1. \A i \in Ids : of[i] = f => i \notin index
      BY <2>1, <1>1, <1>2, SavedIs DEF Saves
    <3>2. \A i \in Ids : of'[i] = f => ~Has(i)'
      BY <3>1, <1>1 DEF Has
    <3> QED
      BY <2>1, <3>2, <1>5
  <2>2. CASE f \in HistSaved
    <3>1. PICK i \in Ids : of[i] = f /\ i \in index
      BY <2>2, <1>1, SavedIs DEF Saves
    <3>2. Http(i)
      BY <3>1 DEF Http
    <3>3. HistItem(f)' = stat[i]
      <4>1. Has(i)' /\ Status(i)' = stat[i]
        BY <3>1, <1>1, <1>2 DEF Has, Status
      <4> QED
        BY <4>1, <3>1, <1>1, <1>5
    <3>4. row[i] # "none"
      BY <3>1, <3>2, <1>1 DEF RowsShow
    <3>5. HistItem(f) = IF row[i] = "Stopped" /\ stat[i] = "Unknown" THEN "New" ELSE row[i]
      <4>1. Has(i) /\ Status(i) = IF row[i] = "Stopped" /\ stat[i] = "Unknown" THEN "New" ELSE row[i]
        BY <3>4, <1>1, <1>2 DEF Has, Status, IsNew
      <4> QED
        BY <4>1, <3>1, ItemIs
    <3>6. StatKey \in keys[i]
      <4>1. StatKey \in 1 .. KeyCount /\ Written(i, StatKey)
        BY <1>1, BoundsAssumption DEF Written, StatKey
      <4> QED
        BY <4>1, <3>1, <3>2 DEF Whole
    <3>7. row[i] = stat[i] \/ (row[i] = "Stopped" /\ stat[i] = "Unknown")
      BY <3>2, <3>6, <1>1 DEF RowsShow
    <3>8. row[i] # "New"
      BY DEF TypeOK, Stored
    <3> QED
      BY <2>2, <3>3, <3>5, <3>7, <3>8
  <2> QED
    BY <2>1, <2>2
<1>7. Items' = [f \in Files |-> IF f \notin HistSaved THEN "none"
                                ELSE IF Items[f] = "New" THEN "Unknown" ELSE Items[f]]
  <2>1. \A f \in Files : Items[f] = HistItem(f)
    BY DEF Items
  <2>2. Items' = [f \in Files |-> HistItem(f)']
    BY DEF Items
  <2>3. \A f \in Files : HistItem(f)' = IF f \notin HistSaved THEN "none"
                                        ELSE IF Items[f] = "New" THEN "Unknown" ELSE Items[f]
    BY <2>1, <1>6
  <2> HIDE DEF Items
  <2> QED
    BY <2>2, <2>3
<1> QED
  BY <1>1, <1>4, <1>7, Zenon DEF H!EndSession, Items

LEMMA StartStarts ==
  ASSUME Good, Good', Unsized = {}, QuietStart
  PROVE  H!StartSession
<1> USE DEF Good, Tidy, Ordered, Kept
<1>1. /\ \A i \in Ids : Http(i) /\ i \in index =>
            /\ stat[i] \in Stored /\ StatKey \in keys[i]
            /\ stat'[i] = IF stat[i] = "Downloading" THEN "Paused" ELSE stat[i]
            /\ row'[i] = stat'[i]
      /\ \A i \in Ids : Http(i) /\ i \notin index => row'[i] = "none" /\ stat'[i] = stat[i]
      /\ op = NoOp
  BY Started
<1>2. up = FALSE /\ up' = TRUE /\ op.kind = "none" /\ op'.kind = "none" /\ UNCHANGED <<index, of, keys>>
  BY <1>1 DEF QuietStart, NoOp, TypeOK
<1>3. (\A i : ~Gone(i)) /\ \A i : ~Gone(i)'
  BY <1>2, NotGone, NotGoneNext DEF Good
<1>4. \A g : g \in HistSaved' <=> g \in Files /\ \E i \in Ids : of'[i] = g /\ Saves(i)'
  BY SavedIsNext
<1>5. HistSaved' = HistSaved
  <2>1. \A i \in Ids : Saves(i)' <=> Saves(i)
    BY <1>2, <1>3 DEF Saves
  <2> QED
    BY <1>2, <1>4, <2>1, SavedIs
<1>6. \A g \in Files :
         /\ \A i \in Ids : of'[i] = g /\ Has(i)' => HistItem(g)' = Status(i)'
         /\ (\A i \in Ids : of'[i] = g => ~Has(i)') => HistItem(g)' = "none"
  BY ItemIsNext DEF Good, Tidy, Ordered, Kept
<1>7. ASSUME NEW f \in Files
      PROVE  HistItem(f)' = IF HistItem(f) = "Downloading" THEN "Paused" ELSE HistItem(f)
  <2>1. CASE \A i \in Ids : of[i] = f => i \notin index
    <3>1. \A i \in Ids : of[i] = f => ~Has(i)
      BY <2>1, <1>2 DEF Has
    <3>2. \A i \in Ids : of[i] = f => row'[i] = "none"
      BY <2>1, <1>1 DEF Http
    <3>3. \A i \in Ids : of'[i] = f => ~Has(i)'
      BY <3>2, <1>2 DEF Has
    <3> QED
      BY <3>1, <3>3, <1>6, ItemIs
  <2>2. CASE \E i \in Ids : of[i] = f /\ i \in index
    <3>1. PICK i \in Ids : of[i] = f /\ i \in index
      BY <2>2
    <3>2. /\ stat[i] \in Stored
          /\ stat'[i] = IF stat[i] = "Downloading" THEN "Paused" ELSE stat[i]
          /\ row'[i] = stat'[i]
      BY <3>1, <1>1 DEF Http
    <3>3. row'[i] # "none"
      BY <3>2 DEF Stored
    <3>4. HistItem(f) = stat[i]
      <4>1. Has(i) /\ Status(i) = stat[i]
        BY <3>1, <1>2, <1>3 DEF Has, Status
      <4> QED
        BY <4>1, <3>1, ItemIs
    <3>5. HistItem(f)' = row'[i]
      <4>1. Has(i)'
        BY <3>3, <1>2, <1>3 DEF Has
      <4>2. Status(i)' = row'[i]
        BY <3>2, <1>2 DEF Status, IsNew
      <4> QED
        BY <4>1, <4>2, <3>1, <1>2, <1>6
    <3> QED
      BY <3>2, <3>4, <3>5
  <2> QED
    BY <2>1, <2>2
<1>8. Items' = [f \in Files |-> IF Items[f] = "Downloading" THEN "Paused" ELSE Items[f]]
  <2>1. \A f \in Files : Items[f] = HistItem(f)
    BY DEF Items
  <2>2. Items' = [f \in Files |-> HistItem(f)']
    BY DEF Items
  <2>3. \A f \in Files : HistItem(f)' = IF Items[f] = "Downloading" THEN "Paused" ELSE Items[f]
    BY <2>1, <1>7
  <2> HIDE DEF Items
  <2> QED
    BY <2>2, <2>3
<1> QED
  BY <1>2, <1>5, <1>8, Zenon DEF H!StartSession, Items

LEMMA QuietRefines ==
  ASSUME Good, Good', Unsized = {}, QuietNext
  PROVE  H!HistNext \/ Stutters
<1>1. ASSUME NEW f \in Files, sendDetails(f)
      PROVE  \E g \in Files : H!Add(g)
  BY <1>1, AddingAdds
<1>2. ASSUME NEW id \in Ids, QuietChange(id)
      PROVE  \E g \in Files : H!Change(g)
  <2>1. of[id] \in Files
    BY <1>2 DEF QuietChange, Http
  <2> QED
    BY <1>2, <2>1, ChangeChanges
<1> QED
  BY <1>1, <1>2, TorrentUnseen, WriteUnseen, DelBeginUnseen, StartTorrentUnseen, LookupSeen, DelKeySeen,
     DelLineUnseen, DelReturnsUnseen, EndEnds, StartStarts, Zenon DEF QuietNext, H!HistNext

LEMMA InitRefines == Init => H!HistInit
<1> SUFFICES ASSUME Init
             PROVE  H!HistInit
  OBVIOUS
<1>1. \A i \in Ids : ~Has(i) /\ ~Saves(i)
  BY DEF Init, Has, Saves, NoOp
<1>2. \A f \in Files : HistItem(f) = "none"
  BY <1>1, InitOrdered, KeptInit, ItemIs DEF Ordered, Kept
<1>3. HistSaved = {}
  BY <1>1, SavedIs
<1>4. up = FALSE
  BY DEF Init
<1> QED
  BY <1>2, <1>3, <1>4 DEF H!HistInit

-----------------------------------------------------------------------------
\* What holds until the first fault, and the promise kept until then: whatever
\* the user adds, changes and removes, in every session each saved item is
\* there with its status (addCurlItem, delCurlItem, modifyCurlItem,
\* readCurlItems and the rows that MainWindow keeps beside them).
KeptTillFault == Ordered /\ (clean => lost = {} /\ Kept)

LEMMA QuietLosesNone ==
  ASSUME lost = {}, QuietNext
  PROVE  lost' = {}
<1>1. lost' \subseteq lost
  BY DEF QuietNext, sendDetails, addTorrentItem, QuietWrite, removeSelRows, QuietChange,
     startTorrentDl, QuietClear, QuietLookup, DelKey, QuietLine, DelReturns, QuietEnd, QuietStart, db
<1> QED
  BY <1>1

LEMMA FaultOrdered ==
  ASSUME Unsized = {}
  PROVE  FaultSpec => []KeptTillFault
<1>1. FaultInit => KeptTillFault
  BY InitOrdered, KeptInit DEF FaultInit, KeptTillFault, Init
<1>2. KeptTillFault /\ [FaultNext]_faultVars => KeptTillFault'
  <2> SUFFICES ASSUME KeptTillFault, [FaultNext]_faultVars
               PROVE  KeptTillFault'
    OBVIOUS
  <2>1. CASE FaultNext
    <3>1. Ordered'
      BY <2>1, NextOrdered DEF FaultNext, KeptTillFault
    <3>2. clean' => clean /\ QuietNext
      BY <2>1, CalmIsQuiet DEF FaultNext
    <3>3. lost = {} /\ QuietNext => lost' = {}
      BY QuietLosesNone
    <3> QED
      BY <3>1, <3>2, <3>3, KeptNext DEF KeptTillFault, Tidy
  <2>2. CASE UNCHANGED faultVars
    <3>1. UNCHANGED allVars /\ lost' = lost /\ clean' = clean
      BY <2>2 DEF faultVars, allVars
    <3>2. Ordered'
      BY <3>1, NextOrdered DEF KeptTillFault
    <3>3. Kept => Kept'
      BY <2>2, Zenon DEF faultVars, Kept, OneEach, InUse, Whole, Written, StatusThere, RowsShow,
         TorrentRows, OwnRows, Http
    <3> QED
      BY <3>1, <3>2, <3>3 DEF KeptTillFault
  <2> QED
    BY <2>1, <2>2
<1> QED
  BY <1>1, <1>2, PTL DEF FaultSpec

THEOREM HistoryKept ==
  ASSUME Unsized = {}
  PROVE  FaultSpec => KeepsHistory
<1>1. FaultSpec => []KeptTillFault
  BY FaultOrdered
<1>2. FaultInit => H!HistInit
  BY InitRefines DEF FaultInit
<1>3. ASSUME KeptTillFault, KeptTillFault', [FaultNext]_faultVars
      PROVE  [clean' => \/ H!HistNext
                        \/ UNCHANGED <<[f \in Files |-> HistItem(f)], HistSaved, up>>]_faultVars
  <2>1. CASE UNCHANGED faultVars
    BY <2>1
  <2>2. CASE FaultNext
    <3>1. clean' => QuietNext /\ Good /\ Good'
      BY <1>3, <2>2, CalmIsQuiet DEF FaultNext, KeptTillFault, Good, Tidy
    <3>2. clean' => H!HistNext \/ Stutters
      BY <3>1, QuietRefines
    <3> QED
      BY <3>2, Zenon DEF Stutters
  <2> QED
    BY <1>3, <2>1, <2>2
<1> QED
  BY <1>1, <1>2, <1>3, PTL DEF FaultSpec, KeepsHistory
=============================================================================
