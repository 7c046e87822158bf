--------------------------- MODULE HistoryDbProofs ---------------------------
(***************************************************************************)
(* Proofs about HistoryDb for every set of items, every number of keys and *)
(* whatever faults are allowed: the type invariant, that no key is left in *)
(* the database that the index does not lead to, and that an operation     *)
(* leaves the items of other files alone.                                  *)
(***************************************************************************)
EXTENDS HistoryDb, TLAPS, WellFoundedInduction

\* addCurlItem and addTorrentItem write the index line before any key.
LineFirst ==
    op.kind = "add" =>
        /\ op.id \in Ids
        /\ op.key \in 0 .. KeyCount
        /\ op.key > 0 => op.id \in index

\* delCurlItem takes the index line out after every key.
LineLast ==
    op.kind = "del" =>
        IF op.id = 0 THEN op.key = 0
        ELSE /\ op.id \in index
             /\ op.key \in 1 .. KeyCount + 1
             /\ \A k \in 1 .. KeyCount : k < op.key => k \notin keys[op.id]

\* The inductive invariant.  NoStrayKeys is not inductive alone: that a key
\* is written below an index line, and that the line goes when no key is
\* left, is known only from how far the operation under way has come.
Ordered == TypeOK /\ NoStrayKeys /\ LineFirst /\ LineLast

-----------------------------------------------------------------------------
\* determine_download_id returns an identifier of the index with this path,
\* or 0: QMap's order is a total one, so a first one exists.
LEMMA LookupInIndex ==
    ASSUME index \in SUBSET Ids, NEW x
    PROVE  LET d == determine_download_id(x)
           IN /\ d \in index \cup {0}
              /\ d # 0 => of[d] = x
              /\ d = 0 => \A id \in index : of[id] # x
<1> DEFINE ids == {id \in index : of[id] = x}
<1> USE BoundsAssumption
<1>1. CASE ids = {}
    BY <1>1 DEF determine_download_id
<1>2. CASE ids # {}
    <2>1. ids \subseteq Nat
        <3>1. \A n \in Ids : n \in Nat
            BY DEF Ids
        <3>2. \A n \in ids : n \in Ids
            OBVIOUS
        <3> QED BY <3>1, <3>2
    <2>2. IsWellFoundedOn({ss \in Nat \X Nat : ss[1] < ss[2]}, Nat)
        BY NatLessThanWellFounded DEF OpToRel
    <2>3. PICK m \in ids : \A y \in ids : <<y, m>> \notin {ss \in Nat \X Nat : ss[1] < ss[2]}
        <3> HIDE DEF ids
        <3> QED BY <2>1, <2>2, <1>2, WFMin
    <2>4. \A y \in ids : m <= y
        <3> HIDE DEF ids
        <3>1. \A y, n \in Nat :
                 <<y, n>> \notin {ss \in Nat \X Nat : ss[1] < ss[2]} => n <= y
            OBVIOUS
        <3>2. m \in Nat /\ \A y \in ids : y \in Nat
            BY <2>1
        <3> QED BY <2>3, <3>1, <3>2
    <2> HIDE DEF ids
    <2>5. (CHOOSE id \in ids : \A j \in ids : id <= j) \in ids
        BY <2>4
    <2>6. 0 \notin ids
        BY DEF ids, Ids
    <2> QED
        BY <1>2, <2>5, <2>6 DEF determine_download_id, ids
<1> QED BY <1>1, <1>2

Operations ==
    [kind : {"none", "add", "del"}, id : 0 .. MaxItems,
     key : 0 .. KeyCount + 1, todo : SUBSET Ids, rows : SUBSET Ids]

LEMMA OperationTypes ==
    /\ NoOp \in Operations
    /\ \A id \in Ids : Adding(id) \in Operations
    /\ \A todo, rows \in SUBSET Ids : Deleting(todo, rows) \in Operations
    /\ \A o \in Operations : [o EXCEPT !.id = 0, !.key = 0] \in Operations
<1>1. 0 \in 0 .. MaxItems /\ 0 \in 0 .. KeyCount + 1 /\ Ids \subseteq 0 .. MaxItems
    BY BoundsAssumption DEF Ids
<1>2. NoOp \in Operations
    BY <1>1 DEF NoOp, Operations
<1>3. ASSUME NEW id \in Ids
      PROVE  Adding(id) \in Operations
    BY <1>1 DEF Adding, NoOp, Operations
<1>4. ASSUME NEW todo \in SUBSET Ids, NEW rows \in SUBSET Ids
      PROVE  Deleting(todo, rows) \in Operations
    BY <1>1 DEF Deleting, NoOp, Operations
<1>5. ASSUME NEW o \in Operations
      PROVE  [o EXCEPT !.id = 0, !.key = 0] \in Operations
    BY <1>1 DEF Operations
<1> QED BY <1>2, <1>3, <1>4, <1>5

\* What modifyCurlItem may do to the database.
LEMMA ModifyKeeps ==
    ASSUME TypeOK, NEW x, NEW s \in Stored, modifyCurlItem(x, s)
    PROVE  /\ keys' \in [Ids -> SUBSET (1 .. KeyCount)]
           /\ stat' \in [Ids -> Stored \cup {"none"}]
           /\ \A id \in Ids : id \notin index => keys'[id] = keys[id]
           /\ \A id \in Ids : keys[id] \subseteq keys'[id]
<1> USE BoundsAssumption
<1> DEFINE d == determine_download_id(x)
<1>1. index \in SUBSET Ids
    BY DEF TypeOK
<1>2. d \in index \cup {0}
    BY <1>1, LookupInIndex
<1>3. StatKey \in 1 .. KeyCount
    BY DEF StatKey
<1>4. CASE UNCHANGED <<stat, keys>>
    BY <1>4 DEF TypeOK
<1>5. CASE /\ d # 0
           /\ stat' = [stat EXCEPT ![d] = s]
           /\ keys' = [keys EXCEPT ![d] = @ \cup {StatKey}]
    <2>1. d \in index
        BY <1>2, <1>5
    <2> HIDE DEF d
    <2> QED
        BY <2>1, <1>1, <1>3, <1>5 DEF TypeOK
<1> QED
    BY <1>4, <1>5 DEF modifyCurlItem

-----------------------------------------------------------------------------
LEMMA InitOrdered == Init => Ordered
<1> SUFFICES ASSUME Init
             PROVE  Ordered
    OBVIOUS
<1>1. TypeOK
    BY OperationTypes DEF Init, TypeOK, Operations
<1>2. NoStrayKeys /\ LineFirst /\ LineLast
    BY DEF Init, NoStrayKeys, LineFirst, LineLast, NoOp
<1> QED BY <1>1, <1>2 DEF Ordered

LEMMA NextOrdered == Ordered /\ [Next]_allVars => Ordered'
<1> SUFFICES ASSUME Ordered, [Next]_allVars
             PROVE  Ordered'
    OBVIOUS
<1> USE BoundsAssumption
<1> USE DEF Ordered
<1>0. 0 \notin Ids /\ Ids \subseteq Nat /\ Ids \subseteq 0 .. MaxItems
    BY DEF Ids
<1>1. ASSUME NEW f \in Files, sendDetails(f)
      PROVE  Ordered'
    <2>1. PICK id \in Ids, s \in {"Stopped", "Unknown"}, ok \in BOOLEAN :
             /\ Unused(id)
             /\ of' = [of EXCEPT ![id] = f]
             /\ row' = [row EXCEPT ![id] = s]
             /\ op' = IF ok THEN Adding(id) ELSE NoOp
        BY <1>1 DEF sendDetails
    <2>2. UNCHANGED <<index, lost, keys, stat, up>>
        BY <1>1 DEF sendDetails, db
    <2>3. keys[id] = {}
        BY <2>1 DEF Unused
    <2>4. TypeOK'
        BY <2>1, <2>2, <1>0, OperationTypes DEF TypeOK, Stored, Operations
    <2>5. NoStrayKeys'
        BY <2>1, <2>2, <2>3 DEF NoStrayKeys, Http, TypeOK
    <2>6. LineFirst' /\ LineLast'
        BY <2>1, <2>2 DEF LineFirst, LineLast, Adding, NoOp
    <2> QED BY <2>4, <2>5, <2>6
<1>2. ASSUME NEW t \in Torrents, addTorrentItem(t)
      PROVE  Ordered'
    <2>1. PICK id \in Ids : /\ Unused(id)
                            /\ of' = [of EXCEPT ![id] = t]
                            /\ op' = Adding(id)
        BY <1>2 DEF addTorrentItem
    <2>2. UNCHANGED <<index, lost, keys, stat, row, up>>
        BY <1>2 DEF addTorrentItem, db
    <2>3. keys[id] = {}
        BY <2>1 DEF Unused
    <2>4. TypeOK'
        BY <2>1, <2>2, <1>0, OperationTypes DEF TypeOK, Operations
    <2>5. NoStrayKeys'
        BY <2>1, <2>2, <2>3 DEF NoStrayKeys, Http, TypeOK
    <2>6. LineFirst' /\ LineLast'
        BY <2>1, <2>2 DEF LineFirst, LineLast, Adding, NoOp
    <2> QED BY <2>4, <2>5, <2>6
<1>3. ASSUME AddWrite
      PROVE  Ordered'
    <2>1. op.kind = "add" /\ op.id \in Ids /\ op.key \in 0 .. KeyCount
        BY <1>3 DEF AddWrite, LineFirst
    <2>2. \/ op' = [op EXCEPT !.key = @ + 1] /\ op.key < KeyCount /\ row' = row
          \/ AddReturns
        BY <1>3 DEF AddWrite
    <2>3. row' \in [Ids -> Stored \cup {"none"}] /\ op' \in
             [kind : {"none", "add", "del"}, id : 0 .. MaxItems,
              key : 0 .. KeyCount + 1, todo : SUBSET Ids, rows : SUBSET Ids]
        <3>1. CASE AddReturns
            BY <2>1, <3>1, <1>0 DEF AddReturns, NoOp, TypeOK, Stored
        <3>2. CASE op' = [op EXCEPT !.key = @ + 1] /\ op.key < KeyCount /\ row' = row
            BY <2>1, <3>2 DEF TypeOK
        <3> QED BY <2>2, <3>1, <3>2
    <2>4. CASE op.key = 0
        <3>1. PICK read \in MayRead(index) :
                 /\ index' = read \cup {op.id}
                 /\ lost' = (lost \cup (index \ read)) \ {op.id}
            BY <1>3, <2>4 DEF AddWrite
        <3> HIDE DEF MayRead
        <3>a. UNCHANGED <<keys, stat, of, up>>
            BY <1>3, <2>4 DEF AddWrite
        <3>b. read \subseteq index
            BY DEF MayRead
        <3>2. TypeOK'
            BY <3>1, <3>a, <3>b, <2>1, <2>3 DEF TypeOK
        <3>3. NoStrayKeys'
            BY <3>1, <3>a, <3>b DEF NoStrayKeys, Http
        <3>4. LineFirst' /\ LineLast'
            BY <3>1, <3>a, <2>1, <2>2, <2>4 DEF AddReturns, NoOp, TypeOK, LineFirst, LineLast
        <3> QED BY <3>2, <3>3, <3>4
    <2>5. CASE op.key # 0
        <3>1. op.key \in 1 .. KeyCount /\ op.id \in index
            BY <2>1, <2>5 DEF LineFirst
        <3>2. /\ keys' = [keys EXCEPT ![op.id] = @ \cup {op.key}]
              /\ stat' = IF op.key = StatKey /\ Http(op.id)
                         THEN [stat EXCEPT ![op.id] = "Unknown"] ELSE stat
              /\ UNCHANGED <<index, lost, of, up>>
            BY <1>3, <2>5 DEF AddWrite
        <3>3. stat' \in [Ids -> Stored \cup {"none"}]
            BY <3>2, <2>1 DEF TypeOK, Stored
        <3>4. TypeOK'
            BY <3>1, <3>2, <3>3, <2>3 DEF TypeOK
        <3>5. NoStrayKeys'
            BY <3>1, <3>2 DEF NoStrayKeys, Http, TypeOK
        <3>6. LineFirst' /\ LineLast'
            BY <3>1, <3>2, <2>1, <2>2 DEF AddReturns, NoOp, TypeOK, LineFirst, LineLast
        <3> QED BY <3>4, <3>5, <3>6
    <2> QED BY <2>4, <2>5
<1>4. ASSUME AddFails
      PROVE  Ordered'
    <2>1. op.kind = "add" /\ op.id \in Ids
        BY <1>4 DEF AddFails, LineFirst
    <2>2. AddReturns /\ UNCHANGED <<index, lost, keys, stat, of, up>>
        BY <1>4 DEF AddFails, db
    <2>3. TypeOK'
        BY <2>1, <2>2, <1>0 DEF AddReturns, NoOp, TypeOK, Stored
    <2>4. NoStrayKeys'
        BY <2>2 DEF NoStrayKeys, Http
    <2>5. LineFirst' /\ LineLast'
        BY <2>2 DEF AddReturns, NoOp, LineFirst, LineLast
    <2> QED BY <2>3, <2>4, <2>5
<1>5. ASSUME NEW id \in Ids, removeSelRows(id) \/ startTorrentDl(id)
      PROVE  Ordered'
    <2>1. UNCHANGED <<index, lost, of, keys, stat, up>>
        BY <1>5 DEF removeSelRows, startTorrentDl, db
    <2>2. op' = op \/ op' = Deleting(IF Http(id) THEN {id} ELSE {}, {id})
        BY <1>5 DEF removeSelRows, startTorrentDl
    <2>3. row' = row \/ row' = [row EXCEPT ![id] = "Downloading"]
        BY <1>5 DEF removeSelRows, startTorrentDl
    <2>4. TypeOK'
        <3>1. op' \in Operations
            <4>1. CASE op' = op
                BY <4>1 DEF TypeOK, Operations
            <4>2. CASE op' = Deleting(IF Http(id) THEN {id} ELSE {}, {id})
                <5>1. (IF Http(id) THEN {id} ELSE {}) \in SUBSET Ids /\ {id} \in SUBSET Ids
                    BY <1>5
                <5> QED BY <4>2, <5>1, OperationTypes
            <4> QED BY <2>2, <4>1, <4>2
        <3>2. row' \in [Ids -> Stored \cup {"none"}]
            BY <2>3 DEF TypeOK, Stored
        <3> QED BY <2>1, <3>1, <3>2 DEF TypeOK, Operations
    <2>5. NoStrayKeys'
        BY <2>1 DEF NoStrayKeys, Http
    <2>6. LineFirst' /\ LineLast'
        BY <2>1, <2>2 DEF LineFirst, LineLast, Deleting, NoOp
    <2> QED BY <2>4, <2>5, <2>6
<1>6. ASSUME NEW id \in Ids, ChangeStatus(id)
      PROVE  Ordered'
    <2>1. PICK s \in Successors(row[id]) :
             modifyCurlItem(of[id], s) /\ row' = [row EXCEPT ![id] = s]
        BY <1>6 DEF ChangeStatus
    <2>2. s \in Stored
        BY <2>1 DEF Successors, Stored
    <2>3. /\ keys' \in [Ids -> SUBSET (1 .. KeyCount)]
          /\ stat' \in [Ids -> Stored \cup {"none"}]
          /\ \A i \in Ids : i \notin index => keys'[i] = keys[i]
        BY <2>1, <2>2, ModifyKeeps
    <2>4. UNCHANGED <<index, lost, of, op, up>> /\ op = NoOp
        BY <1>6 DEF ChangeStatus, Idle
    <2>5. TypeOK'
        BY <2>1, <2>2, <2>3, <2>4 DEF TypeOK
    <2>6. NoStrayKeys'
        BY <2>3, <2>4 DEF NoStrayKeys, Http
    <2>7. LineFirst' /\ LineLast'
        BY <2>4 DEF LineFirst, LineLast, NoOp
    <2> QED BY <2>5, <2>6, <2>7
<1>7. ASSUME clearOldHistory
      PROVE  Ordered'
    <2>1. PICK todo \in SUBSET Ids, rows \in SUBSET Ids : op' = Deleting(todo, rows)
        BY <1>7 DEF clearOldHistory
    <2>2. UNCHANGED <<index, lost, of, keys, stat, row, up>>
        BY <1>7 DEF clearOldHistory, db
    <2>3. TypeOK'
        BY <2>1, <2>2, OperationTypes DEF TypeOK, Operations
    <2>4. NoStrayKeys'
        BY <2>2 DEF NoStrayKeys, Http
    <2>5. LineFirst' /\ LineLast'
        BY <2>1 DEF LineFirst, LineLast, Deleting, NoOp
    <2> QED BY <2>3, <2>4, <2>5
<1>8. ASSUME DelLookup
      PROVE  Ordered'
    <2>1. PICK r \in op.todo :
             \E d \in {determine_download_id(of[r])} \cup {0} :
                 op' = [op EXCEPT !.todo = @ \ {r}, !.id = d,
                                  !.key = IF d = 0 THEN 0 ELSE StatKey]
        BY <1>8 DEF DelLookup
    <2>a. PICK d \in {determine_download_id(of[r])} \cup {0} :
              op' = [op EXCEPT !.todo = @ \ {r}, !.id = d,
                               !.key = IF d = 0 THEN 0 ELSE StatKey]
        BY <2>1
    <2>2. d \in index \cup {0} /\ d \in 0 .. MaxItems
        <3>1. index \in SUBSET Ids
            BY DEF TypeOK
        <3>2. d \in index \cup {0}
            BY <3>1, LookupInIndex
        <3> QED BY <3>1, <3>2, <1>0
    <2>3. UNCHANGED <<index, lost, of, keys, stat, row, up>> /\ op.kind = "del"
        BY <1>8 DEF DelLookup, db
    <2>4. op' = [op EXCEPT !.todo = @ \ {r}, !.id = d,
                           !.key = IF d = 0 THEN 0 ELSE StatKey]
        BY <2>a
    <2>5. TypeOK'
        <3>1. (IF d = 0 THEN 0 ELSE StatKey) \in 0 .. KeyCount + 1
            BY DEF StatKey
        <3> QED BY <2>2, <2>3, <2>4, <3>1 DEF TypeOK
    <2>6. NoStrayKeys'
        BY <2>3 DEF NoStrayKeys, Http
    <2>7. LineFirst' /\ LineLast'
        BY <2>2, <2>3, <2>4 DEF TypeOK, LineFirst, LineLast, StatKey
    <2> QED BY <2>5, <2>6, <2>7
<1>9. ASSUME DelKey
      PROVE  Ordered'
    <2>1. op.kind = "del" /\ op.id \in index /\ op.key \in 1 .. KeyCount
        BY <1>9 DEF DelKey, LineLast
    <2>2. /\ keys' = [keys EXCEPT ![op.id] = @ \ {op.key}]
          /\ stat' = IF op.key = StatKey THEN [stat EXCEPT ![op.id] = "none"] ELSE stat
          /\ op' = [op EXCEPT !.key = @ + 1]
          /\ UNCHANGED <<index, lost, of, row, up>>
        BY <1>9 DEF DelKey
    <2>3. TypeOK'
        BY <2>1, <2>2 DEF TypeOK
    <2>4. NoStrayKeys'
        BY <2>1, <2>2 DEF TypeOK, NoStrayKeys, Http
    <2>5. LineFirst'
        BY <2>1, <2>2 DEF TypeOK, LineFirst
    <2>6. \A k \in 1 .. KeyCount : k < op.key + 1 => k \notin keys'[op.id]
        BY <2>1, <2>2 DEF TypeOK, LineLast
    <2>7. LineLast'
        BY <1>0, <2>1, <2>2, <2>6 DEF TypeOK, LineLast
    <2> QED BY <2>3, <2>4, <2>5, <2>7
<1>10. ASSUME del_download_id
       PROVE  Ordered'
    <2>1. op.kind = "del" /\ op.id \in index /\ op.key = KeyCount + 1
        BY <1>10 DEF del_download_id, LineLast
    <2>a. PICK read \in MayRead(index) :
             /\ index' = {id \in read : Http(id)} \ {op.id}
             /\ lost' = lost \cup ((index \ read) \ {op.id})
        BY <1>10 DEF del_download_id
    <2>b. read \subseteq index
        BY DEF MayRead
    <2>2. /\ op' = [op EXCEPT !.id = 0, !.key = 0]
          /\ UNCHANGED <<of, keys, stat, row, up>>
        BY <1>10 DEF del_download_id
    <2>3. keys[op.id] = {}
        BY <2>1, <1>0 DEF TypeOK, LineLast
    <2>4. TypeOK'
        BY <2>a, <2>b, <2>2, OperationTypes DEF TypeOK, Operations
    <2>5. NoStrayKeys'
        BY <2>a, <2>b, <2>2, <2>3 DEF NoStrayKeys, Http
    <2>6. LineFirst' /\ LineLast'
        BY <2>1, <2>2 DEF TypeOK, LineFirst, LineLast
    <2> QED BY <2>4, <2>5, <2>6
<1>11. ASSUME DelFails
       PROVE  Ordered'
    <2>1. op.kind = "del" /\ op' = [op EXCEPT !.id = 0, !.key = 0]
        BY <1>11 DEF DelFails
    <2>2. UNCHANGED <<index, lost, of, keys, stat, row, up>>
        BY <1>11 DEF DelFails, db
    <2>3. TypeOK'
        BY <2>1, <2>2, OperationTypes DEF TypeOK, Operations
    <2>4. NoStrayKeys'
        BY <2>2 DEF NoStrayKeys, Http
    <2>5. LineFirst' /\ LineLast'
        BY <2>1 DEF TypeOK, LineFirst, LineLast
    <2> QED BY <2>3, <2>4, <2>5
<1>12. ASSUME DelReturns \/ EndSession
       PROVE  Ordered'
    <2>1. op' = NoOp /\ UNCHANGED <<index, lost, of, keys, stat>>
        BY <1>12 DEF DelReturns, EndSession, db
    <2>2. row' \in [Ids -> Stored \cup {"none"}] /\ up' \in BOOLEAN
        BY <1>12 DEF DelReturns, EndSession, TypeOK
    <2>3. TypeOK'
        BY <2>1, <2>2 DEF TypeOK, NoOp
    <2>4. NoStrayKeys'
        BY <2>1 DEF NoStrayKeys, Http
    <2>5. LineFirst' /\ LineLast'
        BY <2>1 DEF LineFirst, LineLast, NoOp
    <2> QED BY <2>3, <2>4, <2>5
<1>13. ASSUME StartSession
       PROVE  Ordered'
    <2>1. UNCHANGED <<index, lost, of, keys, op>> /\ up' = TRUE
        BY <1>13 DEF StartSession
    <2>2. row' \in [Ids -> Stored \cup {"none"}]
        BY <1>13 DEF StartSession, TypeOK, Stored
    <2>3. stat' \in [Ids -> Stored \cup {"none"}]
        BY <1>13 DEF StartSession, TypeOK, Stored
    <2>4. TypeOK'
        BY <2>1, <2>2, <2>3 DEF TypeOK
    <2>5. NoStrayKeys'
        BY <2>1 DEF NoStrayKeys, Http
    <2>6. LineFirst' /\ LineLast'
        BY <2>1 DEF LineFirst, LineLast
    <2> QED BY <2>4, <2>5, <2>6
<1>14. CASE UNCHANGED allVars
    BY <1>14 DEF allVars, TypeOK, NoStrayKeys, Http, LineFirst, LineLast
<1> QED
    BY <1>1, <1>2, <1>3, <1>4, <1>5, <1>6, <1>7, <1>8, <1>9, <1>10, <1>11,
       <1>12, <1>13, <1>14 DEF Next

LEMMA SpecOrdered == Spec => []Ordered
BY InitOrdered, NextOrdered, PTL DEF Spec

\* The database, the rows and the operation under way keep their types, for
\* every number of items and keys and every combination of faults.
THEOREM TypesHold == Spec => []TypeOK
<1>1. Ordered => TypeOK
    BY DEF Ordered
<1> QED BY <1>1, SpecOrdered, PTL

\* addCurlItem writes the index before the keys and delCurlItem takes the
\* keys out before the index line, so neither a crash nor a failed write
\* leaves a key of an HTTP item that the index does not lead to.
THEOREM KeysReachable == Spec => []NoStrayKeys
<1>1. Ordered => NoStrayKeys
    BY DEF Ordered
<1> QED BY <1>1, SpecOrdered, PTL

-----------------------------------------------------------------------------
\* delCurlItem works on the rows it was called for: the rows still to do are
\* some of them, and the identifier found is one of their files.
OwnFiles ==
    op.kind = "del" =>
        /\ op.todo \subseteq op.rows
        /\ op.id # 0 => of[op.id] \in {of[r] : r \in op.rows}

LEMMA NextOwnFiles == Ordered /\ OwnFiles /\ [Next]_allVars => OwnFiles'
<1> SUFFICES ASSUME Ordered, OwnFiles, [Next]_allVars, op'.kind = "del"
             PROVE  /\ op'.todo \subseteq op'.rows
                    /\ op'.id # 0 => of'[op'.id] \in {of'[r] : r \in op'.rows}
    BY DEF OwnFiles
<1> USE DEF Ordered
<1>1. CASE \/ \E f \in Files : sendDetails(f)
           \/ \E t \in Torrents : addTorrentItem(t)
           \/ AddFails \/ DelReturns \/ EndSession
    <2>1. op' = NoOp \/ \E id \in Ids : op' = Adding(id)
        BY <1>1 DEF sendDetails, addTorrentItem, AddFails, AddReturns,
                    DelReturns, EndSession
    <2>2. NoOp.kind # "del" /\ \A id \in Ids : Adding(id).kind # "del"
        BY DEF NoOp, Adding
    <2>3. op'.kind # "del"
        BY <2>1, <2>2
    <2> QED BY <2>3
<1>2. CASE AddWrite
    BY <1>2 DEF AddWrite, AddReturns, NoOp, TypeOK
<1>3. CASE \E id \in Ids : removeSelRows(id)
    BY <1>3 DEF removeSelRows, Deleting, NoOp
<1>4. CASE clearOldHistory
    BY <1>4 DEF clearOldHistory, Deleting, NoOp
<1>5. CASE \/ \E id \in Ids : ChangeStatus(id) \/ startTorrentDl(id)
           \/ StartSession \/ UNCHANGED allVars
    <2>1. UNCHANGED <<of, op>>
        BY <1>5 DEF ChangeStatus, startTorrentDl, StartSession, allVars
    <2> QED BY <2>1 DEF OwnFiles
<1>6. CASE DelLookup
    <2>1. PICK r \in op.todo :
             \E d \in {determine_download_id(of[r])} \cup {0} :
                 op' = [op EXCEPT !.todo = @ \ {r}, !.id = d,
                                  !.key = IF d = 0 THEN 0 ELSE StatKey]
        BY <1>6 DEF DelLookup
    <2>a. PICK d \in {determine_download_id(of[r])} \cup {0} :
              op' = [op EXCEPT !.todo = @ \ {r}, !.id = d,
                               !.key = IF d = 0 THEN 0 ELSE StatKey]
        BY <2>1
    <2>2. d # 0 => of[d] = of[r]
        BY LookupInIndex DEF TypeOK
    <2>3. UNCHANGED of /\ op.kind = "del"
        BY <1>6 DEF DelLookup
    <2>4. op' = [op EXCEPT !.todo = @ \ {r}, !.id = d,
                           !.key = IF d = 0 THEN 0 ELSE StatKey]
        BY <2>a
    <2>5. r \in op.rows /\ op.todo \subseteq op.rows
        BY <2>3 DEF OwnFiles
    <2>6. op'.todo \subseteq op.rows /\ op'.id = d /\ op'.rows = op.rows
        BY <2>4, <2>5 DEF TypeOK
    <2> QED BY <2>2, <2>3, <2>5, <2>6
<1>7. CASE DelKey \/ del_download_id \/ DelFails
    <2>1. /\ UNCHANGED of /\ op.kind = "del"
          /\ \/ op' = [op EXCEPT !.key = @ + 1]
             \/ op' = [op EXCEPT !.id = 0, !.key = 0]
        BY <1>7 DEF DelKey, del_download_id, DelFails
    <2>2. /\ op'.todo = op.todo /\ op'.rows = op.rows
          /\ op'.id = op.id \/ op'.id = 0
        BY <2>1 DEF TypeOK
    <2> QED BY <2>1, <2>2 DEF OwnFiles
<1> QED BY <1>1, <1>2, <1>3, <1>4, <1>5, <1>6, <1>7 DEF Next

\* What SparesOthers says of one step.
LEMMA StepSpares ==
    ASSUME Ordered, OwnFiles, [Next]_allVars,
           NEW id \in index, Http(id), of[id] \notin {of[r] : r \in op.rows}
    PROVE  id \in index' \cup lost' /\ keys[id] \subseteq keys'[id]
<1> USE DEF Ordered
<1>1. CASE UNCHANGED <<index, lost, keys>>
    BY <1>1
<1>2. CASE AddWrite
    <2>1. \/ /\ index \subseteq index' \cup lost'
             /\ UNCHANGED keys
          \/ UNCHANGED index /\ keys' = [keys EXCEPT ![op.id] = @ \cup {op.key}]
        BY <1>2 DEF AddWrite
    <2> QED BY <2>1 DEF TypeOK
<1>3. CASE DelKey \/ del_download_id
    <2>1. op.kind = "del" /\ op.id # 0
        BY <1>3, BoundsAssumption DEF DelKey, del_download_id, LineLast
    <2>2. id # op.id
        BY <2>1 DEF OwnFiles
    <2>3. \/ UNCHANGED index /\ keys' = [keys EXCEPT ![op.id] = @ \ {op.key}]
          \/ /\ {i \in index : Http(i)} \ {op.id} \subseteq index' \cup lost'
             /\ UNCHANGED keys
        BY <1>3 DEF DelKey, del_download_id
    <2> QED BY <2>2, <2>3 DEF TypeOK
<1>4. CASE \E i \in Ids : ChangeStatus(i)
    <2>1. PICK i \in Ids : \E s \in Successors(row[i]) : modifyCurlItem(of[i], s)
        BY <1>4 DEF ChangeStatus
    <2>2. PICK s \in Successors(row[i]) : modifyCurlItem(of[i], s)
        BY <2>1
    <2>3. s \in Stored
        BY DEF Successors, Stored
    <2>4. UNCHANGED index
        BY <1>4 DEF ChangeStatus
    <2> QED BY <2>2, <2>3, <2>4, ModifyKeeps DEF TypeOK
<1> QED
    BY <1>1, <1>2, <1>3, <1>4
    DEF Next, sendDetails, addTorrentItem, AddFails, removeSelRows,
        startTorrentDl, clearOldHistory, DelLookup, DelFails, DelReturns,
        EndSession, StartSession, allVars, db

\* Whatever crashed or failed before, deleting some rows takes neither the
\* line nor a key from an item of any other file: the search by path leads
\* to the rows' own files, and the rewritten index keeps the other lines that
\* were read.  The lines that a failed read left out are in lost, and by
\* LostOnlyByReads there are none when no read fails.
THEOREM OthersSpared == Spec => SparesOthers
<1>1. Init => OwnFiles
    BY DEF Init, OwnFiles, NoOp
<1>2. Ordered /\ OwnFiles /\ [Next]_allVars =>
          [\A id \in index : Http(id) /\ of[id] \notin {of[r] : r \in op.rows}
               => id \in index' \cup lost' /\ keys[id] \subseteq keys'[id]]_allVars
    BY StepSpares
<1> QED
    BY <1>1, <1>2, SpecOrdered, NextOwnFiles, PTL DEF Spec, SparesOthers

\* add_download_id and del_download_id write back every line that they should
\* unless their read of the index fails; nothing else drops a line silently.
THEOREM LostOnlyByReads == Spec => []LostByReadOnly
<1>1. Init => LostByReadOnly
    BY DEF Init, LostByReadOnly
<1>2. LostByReadOnly /\ [Next]_allVars => LostByReadOnly'
    <2> SUFFICES ASSUME ~ReadFails, lost = {}, [Next]_allVars
                 PROVE  lost' = {}
        BY DEF LostByReadOnly
    <2>1. MayRead(index) = {index}
        BY DEF MayRead
    <2>2. CASE AddWrite
        BY <2>1, <2>2 DEF AddWrite
    <2>3. CASE del_download_id
        BY <2>1, <2>3 DEF del_download_id
    <2>4. CASE UNCHANGED lost
        BY <2>4
    <2> QED
        BY <2>2, <2>3, <2>4
        DEF Next, sendDetails, addTorrentItem, AddFails, removeSelRows,
            ChangeStatus, startTorrentDl, clearOldHistory, DelLookup, DelKey,
            DelFails, DelReturns, EndSession, StartSession, allVars, db
<1> QED BY <1>1, <1>2, PTL DEF Spec
=============================================================================
