------------------------------ MODULE HistoryDb ------------------------------
(***************************************************************************)
(* The download history: the LevelDB database behind CmnRoutines           *)
(* (cmnroutines.cpp) and the rows that MainWindow keeps in step with it    *)
(* (gui/mainwindow.cpp), over any number of sessions.                      *)
(*                                                                         *)
(* The database holds one index value, with a line per item, and a number  *)
(* of keys for each item.  Adding or deleting an item takes one synchronous*)
(* write for the index and one for each key, and each of them is a step    *)
(* here: the program may die between two of them, or one may fail.  All of *)
(* it runs in the GUI thread, so no two operations overlap.                *)
(***************************************************************************)
EXTENDS Naturals, FiniteSets

CONSTANTS
    Files,       \* destinations of HTTP(S)/FTP(S) items
    Torrents,    \* BitTorrent items
    NoItem,      \* neither
    MaxItems,    \* bound: items in the view or the database at one time
    KeyCount,    \* bound: keys that hold one item (11 for HTTP in the code)
    Unsized,     \* files for which the server tells no length
    Crashes,     \* whether the program may die in the middle of an operation
    WriteFails,  \* whether a write to the database may fail
    ReadFails,   \* whether a read of it may (all ask for verified checksums)
    FilesVanish  \* whether a downloaded file may be moved or deleted

ASSUME ItemsAssumption == NoItem \notin Files \cup Torrents /\ Files \cap Torrents = {}
ASSUME BoundsAssumption == MaxItems \in Nat /\ KeyCount \in Nat \ {0}
ASSUME UnsizedAssumption == Unsized \subseteq Files
ASSUME FaultsAssumption == {Crashes, WriteFails, ReadFails, FilesVanish} \subseteq BOOLEAN

\* The unique identifiers.  They are random strings, so a new one may come
\* anywhere in their order; it is the order of determine_download_id's QMap.
Ids == 1 .. MaxItems

\* The first key written, and the first deleted: LEVELDB_KEY_CURL_STAT.
StatKey == 1

VARIABLES
    index, \* identifiers with a line in the index value
    lost,  \* those whose line a rewrite of the index dropped because its read
           \* had failed: no part of the program, kept for the properties
    of,    \* the item each identifier is for
    keys,  \* which keys of each identifier are in the database
    stat,  \* the value of StatKey of an HTTP item, "none" if it is not there
    row,   \* status of the row with each identifier, "none" if there is none
    op,    \* the operation under way
    up     \* a session is under way

db      == <<index, lost, keys, stat>>
allVars == <<index, lost, of, keys, stat, row, op, up>>

Stored == {"Unknown", "Downloading", "Paused", "Stopped", "Completed"}

Http(id)     == of[id] \in Files
Complete(id) == keys[id] = 1 .. KeyCount
Unused(id)   == id \notin index /\ keys[id] = {} /\ row[id] = "none"
ShownAs(x)   == {id \in Ids : row[id] # "none" /\ of[id] = x}

\* determine_download_id: the first identifier with the path, 0 for none.
determine_download_id(x) ==
    LET ids == {id \in index : of[id] = x}
    IN IF ids = {} THEN 0 ELSE CHOOSE id \in ids : \A j \in ids : id <= j

\* What a read gives its caller when it should give s: nothing if it fails.
\* add_download_id and extract_download_ids ignore the status of their Get of
\* the index, and the readers of items return no item.
MayRead(s) == {s} \cup (IF ReadFails THEN {{}} ELSE {})

NoOp == [kind |-> "none", id |-> 0, key |-> 0, todo |-> {}, rows |-> {}]
Idle == up /\ op = NoOp

-----------------------------------------------------------------------------
(***************************************************************************)
(* Adding an item: addCurlItem and addTorrentItem.                         *)
(***************************************************************************)

\* The operation writes the index line (key 0) and then key after key.
Adding(id) == [NoOp EXCEPT !.kind = "add", !.id = id]

\* MainWindow::sendDetails for an HTTP item: the row comes first.  An item
\* whose server did not answer well (status_ok false) is not saved; one that
\* shows Invalid, which commands read as Unknown, never is.
sendDetails(f) ==
    /\ Idle
    /\ ShownAs(f) = {}
    /\ \E id \in Ids, s \in {"Stopped", "Unknown"}, ok \in BOOLEAN :
         /\ Unused(id)
         /\ ok => s = "Stopped"
         /\ of'  = [of EXCEPT ![id] = f]
         /\ row' = [row EXCEPT ![id] = s]
         /\ op'  = IF ok THEN Adding(id) ELSE NoOp
    /\ UNCHANGED <<db, up>>

\* The Add URL window saves a torrent before it sends the details.
addTorrentItem(t) ==
    /\ Idle
    /\ \E id \in Ids :
         /\ Unused(id)
         /\ of' = [of EXCEPT ![id] = t]
         /\ op' = Adding(id)
    /\ UNCHANGED <<db, row, up>>

\* addCurlItem returned, to sendDetails; or addTorrentItem did, whatever its
\* result, and sendDetails inserts the row unless the torrent has one.
AddReturns ==
    /\ op' = NoOp
    /\ row' = IF Http(op.id) \/ ShownAs(of[op.id]) # {}
              THEN row ELSE [row EXCEPT ![op.id] = "Stopped"]

\* add_download_id keeps every line that it has read; add_item_db writes one
\* key.
AddWrite ==
    /\ up
    /\ op.kind = "add"
    /\ IF op.key = 0
       THEN /\ \E read \in MayRead(index) :
                 /\ index' = read \cup {op.id}
                 /\ lost' = (lost \cup (index \ read)) \ {op.id}
            /\ UNCHANGED <<keys, stat>>
       ELSE /\ keys' = [keys EXCEPT ![op.id] = @ \cup {op.key}]
            /\ stat' = IF op.key = StatKey /\ Http(op.id)
                       THEN [stat EXCEPT ![op.id] = "Unknown"] ELSE stat
            /\ UNCHANGED <<index, lost>>
    /\ IF op.key < KeyCount
       THEN op' = [op EXCEPT !.key = @ + 1] /\ UNCHANGED row
       ELSE AddReturns
    /\ UNCHANGED <<of, up>>

\* The exception is caught and what has been written stays.
AddFails ==
    /\ WriteFails
    /\ up
    /\ op.kind = "add"
    /\ AddReturns
    /\ UNCHANGED <<db, of, up>>

-----------------------------------------------------------------------------
(***************************************************************************)
(* Deleting items: delCurlItem, for each of the rows "todo"; then the rows *)
(* themselves go.  delTorrentItem does nothing.                            *)
(***************************************************************************)
Deleting(todo, rows) == [NoOp EXCEPT !.kind = "del", !.todo = todo, !.rows = rows]

removeSelRows(id) ==
    /\ Idle
    /\ row[id] # "none"
    /\ op' = Deleting(IF Http(id) THEN {id} ELSE {}, {id})
    /\ UNCHANGED <<db, of, row, up>>

\* Only a Completed item whose file is there is deleted as an HTTP item; any
\* other is taken for a torrent.
clearOldHistory ==
    /\ Idle
    /\ LET completed == {id \in Ids : row[id] = "Completed"}
       IN \E gone \in SUBSET completed :
            /\ FilesVanish \/ gone = {}
            /\ op' = Deleting(completed \ gone, completed)
    /\ UNCHANGED <<db, of, row, up>>

\* delCurlItem finds the identifier by the row's path, and gives up if there
\* is none, or if determine_download_id throws because its read failed.
DelLookup ==
    /\ up
    /\ op.kind = "del" /\ op.id = 0
    /\ \E r \in op.todo :
         \E id \in {determine_download_id(of[r])} \cup (IF ReadFails THEN {0} ELSE {}) :
             op' = [op EXCEPT !.todo = @ \ {r}, !.id = id,
                              !.key = IF id = 0 THEN 0 ELSE StatKey]
    /\ UNCHANGED <<db, of, row, up>>

\* del_item_db, key by key.
DelKeyLineFirst ==       \* mutant: the index line is taken out first
    /\ up
    /\ op.kind = "del" /\ op.id # 0 /\ op.key <= KeyCount
    /\ index' = index \ {op.id}
    /\ keys' = [keys EXCEPT ![op.id] = @ \ {op.key}]
    /\ stat' = IF op.key = StatKey THEN [stat EXCEPT ![op.id] = "none"] ELSE stat
    /\ op' = [op EXCEPT !.key = @ + 1]
    /\ UNCHANGED <<lost, of, row, up>>

DelKey ==
    /\ up
    /\ op.kind = "del" /\ op.id # 0 /\ op.key <= KeyCount
    /\ keys' = [keys EXCEPT ![op.id] = @ \ {op.key}]
    /\ stat' = IF op.key = StatKey THEN [stat EXCEPT ![op.id] = "none"] ELSE stat
    /\ op' = [op EXCEPT !.key = @ + 1]
    /\ UNCHANGED <<index, lost, of, row, up>>

\* del_download_id(.., is_torrent = false) writes back the lines that
\* extract_download_ids(.., torrentsOnly = false) returns: none of them when
\* its read fails.
del_download_idTorrents ==   \* mutant: torrentsOnly is passed as true
    /\ up
    /\ op.kind = "del" /\ op.key = KeyCount + 1
    /\ index' = {id \in index : ~Http(id)} \ {op.id}
    /\ op' = [op EXCEPT !.id = 0, !.key = 0]
    /\ UNCHANGED <<lost, of, keys, stat, row, up>>

del_download_id ==
    /\ up
    /\ op.kind = "del" /\ op.key = KeyCount + 1
    /\ \E read \in MayRead(index) :
         /\ index' = {id \in read : Http(id)} \ {op.id}
         /\ lost' = lost \cup ((index \ read) \ {op.id})
    /\ op' = [op EXCEPT !.id = 0, !.key = 0]
    /\ UNCHANGED <<of, keys, stat, row, up>>

\* delCurlItem catches the exception, or del_download_id returns false.
DelFails ==
    /\ WriteFails
    /\ up
    /\ op.kind = "del" /\ op.id # 0
    /\ op' = [op EXCEPT !.id = 0, !.key = 0]
    /\ UNCHANGED <<db, of, row, up>>

\* The rows are removed, whatever became of their items.
DelReturns ==
    /\ up
    /\ op.kind = "del" /\ op.id = 0 /\ op.todo = {}
    /\ row' = [id \in Ids |-> IF id \in op.rows THEN "none" ELSE row[id]]
    /\ op' = NoOp
    /\ UNCHANGED <<db, of, up>>

-----------------------------------------------------------------------------
(***************************************************************************)
(* Changes of status, and sessions.                                        *)
(***************************************************************************)

\* readCurlItems: one item that lacks a key, and no item is returned; and
\* the same for readTorrentItems.
Readable(ids) == IF \A id \in ids : Complete(id) THEN ids ELSE {}

readCurlItems    == Readable({id \in index : Http(id)})
readTorrentItems == Readable({id \in index : ~Http(id)})

\* modifyCurlItem: nothing but an error message if the path has no line in
\* the index, or the read or the write fails.
modifyCurlItem(x, status) ==
    LET id == determine_download_id(x)
    IN \/ /\ id # 0
          /\ stat' = [stat EXCEPT ![id] = status]
          /\ keys' = [keys EXCEPT ![id] = @ \cup {StatKey}]
       \/ /\ id = 0 \/ ReadFails \/ WriteFails
          /\ UNCHANGED <<stat, keys>>

\* The status a command or a finish signal may give a row that has this one.
Successors(status) ==
    (IF status = "Downloading" THEN {"Completed"} ELSE {"Downloading"})
        \cup (IF status \in {"Downloading", "Unknown"} THEN {"Paused"} ELSE {})
        \cup (IF status \in {"Downloading", "Paused", "Unknown"} THEN {"Stopped"} ELSE {})

\* startHttpDownload, pauseDownload, haltDownload and recvDlFinished: the
\* database first, then the row, whatever the database did.
ChangeStatus(id) ==
    /\ Idle
    /\ row[id] # "none"
    /\ Http(id)
    /\ \E status \in Successors(row[id]) :
         /\ modifyCurlItem(of[id], status)
         /\ row' = [row EXCEPT ![id] = status]
    /\ UNCHANGED <<index, lost, of, op, up>>

\* startTorrentDl looks the torrent up in the database, which it does not
\* change: modifyTorrentItem does nothing.  When it does not find it, be it
\* that the read failed, nothing happens.
startTorrentDl(id) ==
    /\ Idle
    /\ row[id] # "none"
    /\ id \in readTorrentItems
    /\ row' = [row EXCEPT ![id] = "Downloading"]
    /\ UNCHANGED <<db, of, op, up>>

\* The session ends, between two operations or, by a crash, within one.
EndSession ==
    /\ up
    /\ op = NoOp \/ Crashes
    /\ up' = FALSE
    /\ op' = NoOp
    /\ row' = [id \in Ids |-> "none"]
    /\ UNCHANGED <<db, of>>

\* readFromHistoryFile inserts a row for every item whose length is known;
\* resetDlStateStartup changes those that show Downloading, in the database
\* too for an HTTP item.  A torrent's stored status reads as Downloading.
StartForgets ==          \* mutant: the reset does not reach the database
    /\ ~up
    /\ up' = TRUE
    /\ LET shown == {id \in readCurlItems : of[id] \notin Unsized}
       IN /\ row' = [id \in Ids |->
                       IF id \in shown
                       THEN IF stat[id] = "Downloading" THEN "Paused" ELSE stat[id]
                       ELSE IF id \in readTorrentItems THEN "Stopped" ELSE "none"]
          /\ UNCHANGED stat
    /\ UNCHANGED <<index, lost, of, keys, op>>

StartSession ==
    /\ ~up
    /\ up' = TRUE
    /\ \E http \in MayRead(readCurlItems), torrents \in MayRead(readTorrentItems) :
       LET shown == {id \in http : of[id] \notin Unsized}
           stuck == {id \in shown : stat[id] = "Downloading"}
           reset == {determine_download_id(of[id]) : id \in stuck}
       IN /\ row' = [id \in Ids |->
                       IF id \in stuck THEN "Paused"
                       ELSE IF id \in shown THEN stat[id]
                       ELSE IF id \in torrents THEN "Stopped" ELSE "none"]
          /\ \E failed \in SUBSET reset :
               /\ ReadFails \/ WriteFails \/ failed = {}
               /\ stat' = [id \in Ids |->
                             IF id \in reset \ failed THEN "Paused" ELSE stat[id]]
    /\ UNCHANGED <<index, lost, of, keys, op>>

Init ==
    /\ index = {} /\ lost = {}
    /\ of   = [id \in Ids |-> NoItem]
    /\ keys = [id \in Ids |-> {}]
    /\ stat = [id \in Ids |-> "none"]
    /\ row  = [id \in Ids |-> "none"]
    /\ op = NoOp
    /\ up = FALSE

Next ==
    \/ \E f \in Files : sendDetails(f)
    \/ \E t \in Torrents : addTorrentItem(t)
    \/ AddWrite \/ AddFails
    \/ \E id \in Ids : removeSelRows(id) \/ ChangeStatus(id) \/ startTorrentDl(id)
    \/ clearOldHistory
    \/ DelLookup \/ DelKey \/ del_download_id \/ DelFails \/ DelReturns
    \/ EndSession \/ StartSession

Spec == Init /\ [][Next]_allVars
-----------------------------------------------------------------------------
(***************************************************************************)
(* Properties.                                                             *)
(***************************************************************************)

\* Every variable has its type; an operation under way names an identifier
\* and a key that exist.
TypeOK ==
    /\ index \in SUBSET Ids
    /\ lost \in SUBSET Ids
    /\ of \in [Ids -> Files \cup Torrents \cup {NoItem}]
    /\ keys \in [Ids -> SUBSET (1 .. KeyCount)]
    /\ stat \in [Ids -> Stored \cup {"none"}]
    /\ row \in [Ids -> Stored \cup {"none"}]
    /\ op \in [kind : {"none", "add", "del"}, id : 0 .. MaxItems,
               key : 0 .. KeyCount + 1, todo : SUBSET Ids, rows : SUBSET Ids]
    /\ up \in BOOLEAN

\* Every key of an HTTP item in the database belongs to an item that the index
\* names, whatever crashes and failed writes came between the writes of an add
\* or a delete: nothing else finds a key, so a stray one stays for ever.  The
\* items whose line went with a failed read of the index are excepted; their
\* keys are such strays.
NoStrayKeys ==
    \A id \in Ids : keys[id] # {} => id \in index \cup lost \/ ~Http(id)

\* An operation on some rows leaves the items of all other files whole: their
\* lines stay in the index that is rewritten from a filtered read, their keys
\* stay, and the search by path never leads to one of them.  This holds even
\* when crashes and failed writes have left lines without keys, or two lines
\* for one file.  It does not hold of lines when the read of the index fails
\* in the very step that rewrites it: these are gone, and lost has them; the
\* keys stay even then.
SparesOthers ==
    [][\A id \in index : Http(id) /\ of[id] \notin {of[r] : r \in op.rows}
            => id \in index' \cup lost' /\ keys[id] \subseteq keys'[id]]_allVars

\* A line is lost in no other way: as long as no read fails, none is, and the
\* two properties above speak of every line there is.
LostByReadOnly == ~ReadFails => lost = {}

\* The history the user sees.  An item counts as saved from the moment its
\* row is inserted, and as removed when its first key is deleted; one that
\* was never saved, when the search for its line fails.
Gone(id) == id \in op.rows \ op.todo /\ StatKey \notin keys[id]

HistItem(f) ==
    LET shown == {id \in ShownAs(f) : ~Gone(id)}
        kept  == {id \in index : of[id] = f /\ ~Gone(id)}
        one(s) == CHOOSE id \in s : TRUE
    IN IF up
       THEN IF shown = {} THEN "none"
            ELSE LET id == one(shown)
                 IN IF op.kind = "add" /\ op.id = id THEN "New"
                    ELSE IF row[id] = "Stopped" /\ stat[id] = "Unknown" THEN "New"
                    ELSE row[id]
       ELSE IF kept = {} THEN "none" ELSE stat[one(kept)]

HistSaved ==
    {of[id] : id \in {i \in Ids : /\ Http(i)
                                  /\ i \in index \/ (op.kind = "add" /\ i = op.id)
                                  /\ ~Gone(i)}}

H == INSTANCE History WITH
        item <- [f \in Files |-> HistItem(f)], saved <- HistSaved
=============================================================================
