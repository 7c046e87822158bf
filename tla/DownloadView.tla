---------------------------- MODULE DownloadView ----------------------------
(***************************************************************************)
(* What the window keeps of its downloads (gui/mainwindow.cpp): the rows of*)
(* the table (dl_view.cpp), found by position, and beside them             *)
(* gk_dl_info_cache, found by identifier or by destination, which collects *)
(* the figures that the transfers report.  Downloads come from the Add URL *)
(* window (gui/addurl.cpp), one at a time, from a list or as a torrent, and*)
(* at the start of a session from the database.                            *)
(*                                                                         *)
(* Everything here is the GUI thread's.  The transfers are those of the    *)
(* curl thread, which sends its reports in order over queued connections;  *)
(* the database is a set of items, written at once: HistoryDb has it write *)
(* by write, with the calls that fail, and Downloads has the commands step *)
(* by step.                                                                *)
(***************************************************************************)
EXTENDS Hashes, SequencesExt

CONSTANTS
    Names,    \* file names, each the destination of an item in the dialog's folder
    Folder,   \* the destination there of an item whose name is not known
    Torrents, \* torrents, each with the folder it is saved in
    Unsized,  \* those of which the server tells no length
    Lists,    \* files of URLs the user may import: a record of "lines", "dest", "dir"
    Chosen,   \* of the names the user gives one by one, the "type" of hash, a text,
              \* and the value "given" with it
    MaxItems, \* bound: items added over all sessions
    MaxMail   \* bound: reports of transfers on their way to the GUI thread

ASSUME NamesAssumption == Folder \notin Names /\ Torrents \cap (Names \cup {Folder}) = {}
ASSUME UnsizedAssumption == Unsized \subseteq Names
ASSUME ChosenAssumption == DOMAIN Chosen \subseteq Names
ASSUME BoundAssumption == MaxItems \in Nat /\ MaxMail \in Nat \ {0}

Dests == Names \cup {Folder}

ASSUME ListsAssumption ==
    \A list \in Lists :
       /\ {list.dest, list.dir} \subseteq BOOLEAN
       /\ Len(list.lines) \in Nat \ {0} /\ DOMAIN list.lines = 1 .. Len(list.lines)
       /\ \A k \in DOMAIN list.lines : LET line == list.lines[k]
                                      IN line.found \in BOOLEAN /\ {line.name, line.dest} \subseteq Dests

VARIABLES
    rows,   \* the table: id, dest, kind, status text, figures shown
    cache,  \* gk_dl_info_cache: id, dest, kind, info (read from the database), samples
    saved,  \* the items in the database: id, dest, kind, status as a number, hash
    made,   \* identifiers made so far
    live,   \* destinations the curl thread is transferring to
    mail,   \* its queued reports: "stats" or "fin", and the destination
    import, \* the list being imported, how far, and what its loop carries over
    handles,\* GkTorrentClient: identifier recorded for each torrent's folder
    alerts, \* torrents whose add_torrent_alert has not been read
    up,     \* a session is under way
    leaving,\* the event loop has been told to exit
    cleared \* destinations that clearOldHistory took a row of

vars == <<rows, cache, saved, made, live, mail, import, handles, alerts, up, leaving, cleared>>
session == <<up, leaving>>
torrentVars == <<handles, alerts>>

-----------------------------------------------------------------------------
(***************************************************************************)
(* Numbers and texts of a status.                                          *)
(***************************************************************************)
DownloadStatus == <<"Downloading", "Completed", "Failed", "Paused", "Stopped",
                    "Unknown", "Invalid">>

convDlStat_toInt(s) == (CHOOSE n \in DOMAIN DownloadStatus : DownloadStatus[n] = s) - 1

convDlStat_IntToEnum(n) == IF n + 1 \in DOMAIN DownloadStatus
                           THEN DownloadStatus[n + 1] ELSE "Unknown"

\* The text of a status is its name; Invalid has no way back.
convDlStat_StringToEnum(text) == IF text = "Invalid" THEN "Unknown" ELSE text

-----------------------------------------------------------------------------
(***************************************************************************)
(* The table (dl_view.cpp), by position, from 1 here.                      *)
(***************************************************************************)

\* insertRows at position 0, and a setData for each column.
insertRow(table, r) == <<r>> \o table

removeRow(table, i) == RemoveAt(table, i)

updateCol(table, i, text) == [table EXCEPT ![i].status = text]

RowsOf(d) == {i \in DOMAIN rows : rows[i].dest = d}

-----------------------------------------------------------------------------
(***************************************************************************)
(* The cache, and the figures that the rows show.                          *)
(***************************************************************************)
IsHttp(kind) == kind = "HTTP"

\* initCharts looks the item up in the database, which has not got a new HTTP
\* item yet; without it the entry's content length stays uninitialized.  What
\* is kept of the item ("info") is the hash here.
initCharts(entries, r, db) ==
    Append(entries, [id |-> r.id, dest |-> r.dest, kind |-> r.kind, samples |-> 1,
                     info |-> {x.hash : x \in {y \in db : y.id = r.id}}])

\* manageDlStats: each row with the figures of the entry with its identifier,
\* once there are any; of an unknown length the percentage is anything.
manageDlStats(entries) ==
    [i \in DOMAIN rows |->
        LET own == {j \in DOMAIN entries : entries[j].id = rows[i].id
                                           /\ entries[j].samples > 1}
        IN IF own = {} THEN rows[i]
           ELSE [rows[i] EXCEPT !.shown =
                    IF entries[CHOOSE j \in own : TRUE].info # {} THEN "figures" ELSE "junk"]]

\* recvCurl_XferStats gives the figures to the first HTTP entry with the
\* destination, and none if there is no such entry.
recvCurl_XferStats(d) ==
    LET fit == {j \in DOMAIN cache : IsHttp(cache[j].kind) /\ cache[j].dest = d}
    IN IF fit = {} THEN UNCHANGED <<rows, cache>>
       ELSE LET first == CHOOSE j \in fit : \A k \in fit : j <= k
                entries == [cache EXCEPT ![first].samples = 2]
            IN cache' = entries /\ rows' = manageDlStats(entries)

-----------------------------------------------------------------------------
(***************************************************************************)
(* Adding downloads.                                                       *)
(***************************************************************************)
Row(id, d, kind, status) ==
    [id |-> id, dest |-> d, kind |-> kind, status |-> status, shown |-> "none"]

\* The keys of an item's hash: its type as a number, the value the user gave,
\* the one that was computed, and the verdict.
Hash(type, given, returned, succ) ==
    [type |-> type, given |-> given, returned |-> returned, succ |-> succ]

\* addCurlItem writes the bare value of the enumeration for the type, and of
\* the verdict, which nothing has set, whatever was in memory.
NotSet == 9
GivenHash(type, given) == Hash(Raw(HashType, type), given, NoSum, NotSet)
NoHash == GivenHash("None", NoSum)

Item(id, d, kind, status, hash) ==
    [id |-> id, dest |-> d, kind |-> kind, stat |-> convDlStat_toInt(status), hash |-> hash]

\* insertNewRow, as sendDetails and readFromHistoryFile call it.
insertNewRow(table, entries, r, db) ==
    [table |-> insertRow(table, r), entries |-> initCharts(entries, r, db)]

Refused(d) == RowsOf(d) # {}

\* sendDetails: a destination (for a torrent, a magnet link) that is in the
\* table is refused with a message.  Otherwise the row comes first, with its
\* cache entry, and then addCurlItem, which saves only what answered well.
SaveFirst(d, kind, status, hash, ok, db) ==    \* mutant: saved before the search
    LET id  == made + 1
        all == IF IsHttp(kind) /\ ok THEN db \cup {Item(id, d, kind, "Unknown", hash)} ELSE db
        new == insertNewRow(rows, cache, Row(id, d, kind, status), all)
    IN /\ saved' = all
       /\ IF Refused(d) THEN UNCHANGED <<rows, cache>>
          ELSE rows' = new.table /\ cache' = new.entries

sendDetails(d, kind, status, hash, ok, db) ==
    IF Refused(d)
    THEN saved' = db /\ UNCHANGED <<rows, cache>>
    ELSE LET new == insertNewRow(rows, cache, Row(made + 1, d, kind, status), db)
         IN /\ rows' = new.table
            /\ cache' = new.entries
            /\ saved' = IF IsHttp(kind) /\ ok
                        THEN db \cup {Item(made + 1, d, kind, "Unknown", hash)} ELSE db

NoImport == [lines |-> <<>>, dest |-> FALSE, dir |-> FALSE, at |-> 1, name |-> Folder,
             first |-> 1, boxed |-> FALSE]
Importing == import # NoImport

\* The user's commands: the slot that imports a list does not let any in.
Command == up /\ ~leaving /\ ~Importing

\* The hash of one URL, without a type if it has no value; of a line of a list
\* the type is never known.
DialogHash(n) ==
    IF Chosen[n].given = NoSum THEN NoHash
    ELSE GivenHash(convHashType_StringToEnum(Chosen[n].type), Chosen[n].given)

LineHash(sum) == IF sum = NoSum THEN NoHash ELSE GivenHash("CannotDetermine", sum)

\* on_buttonBox_accepted for one URL that answers verifyFileExists with 200 (of
\* any other it only tells the user).  When curlGrabInfo then fails there is no
\* name to put after the folder, and a status that is not ok.
AddUrl(n) ==
    /\ Command
    /\ made < MaxItems
    /\ \E ok \in BOOLEAN :
          sendDetails(IF ok THEN n ELSE Folder, "HTTP", "Stopped", DialogHash(n), ok, saved)
    /\ made' = made + 1
    /\ UNCHANGED <<live, mail, import, torrentVars, session, cleared>>

\* .. for a torrent, which is saved before the table is searched for it, with
\* its status as a text that reads back as the number of Downloading.
AddTorrent(t) ==
    /\ Command
    /\ made < MaxItems
    /\ sendDetails(t, "Torrent", "Stopped", NoHash, TRUE,
                   saved \cup {Item(made + 1, t, "Torrent", "Downloading", NoHash)})
    /\ made' = made + 1
    /\ UNCHANGED <<live, mail, import, torrentVars, session, cleared>>

\* .. for a list, which has been read whole.  "dest" says whether it has a
\* column of destinations, "dir" whether the dialog names a folder.
BeginImport(list) ==
    /\ Command
    /\ made + Len(list.lines) <= MaxItems
    /\ list.dest \/ list.dir
    /\ import' = [NoImport EXCEPT !.lines = list.lines, !.dest = list.dest,
                                  !.dir = list.dir, !.first = made + 1]
    /\ UNCHANGED <<rows, cache, saved, made, live, mail, torrentVars, session, cleared>>

\* The destination of a line: of one that was found, the list's before the
\* dialog's; of one that was not, the dialog's before the list's, with the
\* name of the last one found, since info_ext is not reset.
FoundDest(line, name) == IF import.dest THEN line.dest ELSE name
LostDest(line, name)  == IF import.dir THEN name ELSE line.dest

NextLine(line, name) ==
    import' = IF import.at = Len(import.lines) THEN NoImport
              ELSE [import EXCEPT !.at = @ + 1, !.name = name, !.boxed = ~leaving /\ rows' = rows]

ImportLineAsksFirst ==   \* mutant: every line is asked for its name first
    /\ up
    /\ Importing
    /\ made < MaxItems
    /\ LET line == import.lines[import.at]
       IN /\ IF line.found
             THEN sendDetails(FoundDest(line, line.name), "HTTP", "Stopped", LineHash(line.sum),
                              line.name # Folder, saved)
             ELSE sendDetails(LostDest(line, line.name), "HTTP", "Invalid", LineHash(line.sum),
                              FALSE, saved)
          /\ NextLine(line, line.name)
    /\ made' = made + 1
    /\ UNCHANGED <<live, mail, torrentVars, session, cleared>>

ImportLine ==
    /\ up
    /\ Importing
    /\ made < MaxItems
    /\ LET line == import.lines[import.at]
       IN \/ /\ line.found
             /\ sendDetails(FoundDest(line, line.name), "HTTP", "Stopped", LineHash(line.sum),
                            line.name # Folder, saved)
             /\ NextLine(line, line.name)
          \/ /\ ~line.found
             /\ sendDetails(LostDest(line, import.name), "HTTP", "Invalid", LineHash(line.sum),
                            FALSE, saved)
             /\ NextLine(line, import.name)
    /\ made' = made + 1
    /\ UNCHANGED <<live, mail, torrentVars, session, cleared>>

-----------------------------------------------------------------------------
(***************************************************************************)
(* Commands on a row, and the reports of its transfer.                     *)
(***************************************************************************)

\* determine_download_id: of the items with the path, the first identifier.
SavedAs(d) == {x \in saved : x.dest = d /\ \A y \in saved : y.dest = d => x.id <= y.id}

\* The keys of the hash are written with a verdict only.
modifyCurlItem(d, status, given, type, returned, verif) ==
    saved' = (saved \ SavedAs(d)) \cup
             {[x EXCEPT !.stat = convDlStat_toInt(status),
                        !.hash = IF verif = "NotApplicable" THEN @
                                 ELSE Hash(convHashType_toInt(type), given, returned,
                                           convHashVerif_toInt(verif))] : x \in SavedAs(d)}

\* .. as the commands call it, with the arguments it has by default.
SetStatus(d, status) == modifyCurlItem(d, status, NoSum, "None", NoSum, "NotApplicable")

EntryOf(r) == {j \in DOMAIN cache : cache[j].id = r.id}

\* startHttpDownload, from resumeDownload or restartDownload.
startHttpDownload(i) ==
    /\ Command
    /\ IsHttp(rows[i].kind)
    /\ EntryOf(rows[i]) # {}
    /\ convDlStat_StringToEnum(rows[i].status) # "Downloading"
    /\ SetStatus(rows[i].dest, "Downloading")
    /\ rows' = updateCol(rows, i, "Downloading")
    /\ live' = live \cup {rows[i].dest}
    /\ UNCHANGED <<cache, made, mail, import, torrentVars, session, cleared>>

\* pauseDownload and haltDownload.
stopDownload(i, status) ==
    /\ Command
    /\ IsHttp(rows[i].kind)
    /\ convDlStat_StringToEnum(rows[i].status) \in {"Downloading", "Paused", "Unknown"} \ {status}
    /\ SetStatus(rows[i].dest, status)
    /\ rows' = updateCol(rows, i, status)
    /\ live' = live \ {rows[i].dest}
    /\ UNCHANGED <<cache, made, mail, import, torrentVars, session, cleared>>

\* The curl thread: a transfer reports, ends and says so, or goes away
\* without a word.
Report(d) ==
    /\ up
    /\ d \in live
    /\ Len(mail) < MaxMail
    /\ \/ mail' = Append(mail, <<"stats", d>>) /\ UNCHANGED live
       \/ mail' = Append(mail, <<"fin", d>>) /\ live' = live \ {d}
    /\ UNCHANGED <<rows, cache, saved, made, import, torrentVars, session, cleared>>

TransferLost(d) ==
    /\ up
    /\ d \in live
    /\ live' = live \ {d}
    /\ UNCHANGED <<rows, cache, saved, made, mail, import, torrentVars, session, cleared>>

\* The checksum that recvDlFinished has made of a file: of the type and against
\* the value that readCurlItems makes of the keys.
FileHash(hash, content) ==
    LET type == convHashType_IntToEnum(hash.type)
    IN IF type \in {"CannotDetermine", "None"} THEN cryptoFileHash(content, "SHA1", NoSum)
       ELSE cryptoFileHash(content, type, hash.given)

\* recvDlFinished: the first row with the destination that shows Downloading.
\* The checksum goes where modifyCurlItem takes the value that the user gave,
\* and there is no verdict.  A file that cannot be opened is an error: a message,
\* and the program exits.
recvDlFinished(d) ==
    LET fit == {i \in RowsOf(d) : rows[i].status = "Downloading"}
    IN \/ /\ fit = {}
          /\ UNCHANGED <<rows, saved, leaving>>
       \/ /\ fit # {}
          /\ \E content \in {d, Missing}, x \in {y \in saved : y.dest = d} :
                LET file_hash == FileHash(x.hash, content)
                IN modifyCurlItem(d, "Completed", file_hash.checksum, file_hash.hash_type,
                                  NoSum, "NotApplicable")
          /\ rows' = updateCol(rows, CHOOSE i \in fit : \A k \in fit : i <= k, "Completed")
          /\ UNCHANGED leaving
       \/ /\ fit # {}
          /\ SavedAs(d) = {}
          /\ rows' = updateCol(rows, CHOOSE i \in fit : \A k \in fit : i <= k, "Completed")
          /\ UNCHANGED <<saved, leaving>>
       \/ /\ fit # {}
          /\ SavedAs(d) # {}
          /\ leaving' = TRUE
          /\ UNCHANGED <<rows, saved>>

\* A queued report reaches the GUI thread, in the event loop or in that of the
\* message box about a line that was refused, which does not open once the
\* program has been told to exit.
Deliver ==
    /\ up
    /\ mail # <<>>
    /\ Importing => import.boxed
    /\ mail' = Tail(mail)
    /\ IF Head(mail)[1] = "stats"
       THEN recvCurl_XferStats(Head(mail)[2]) /\ UNCHANGED <<saved, leaving>>
       ELSE recvDlFinished(Head(mail)[2]) /\ UNCHANGED cache
    /\ UNCHANGED <<made, live, import, torrentVars, up, cleared>>

\* removeSelRows: the item, the entry with the row's identifier, the row.  A
\* torrent stays in the database: delTorrentItem does nothing.
RemoveKeepsEntry(i) ==   \* mutant: the entry stays
    /\ Command
    /\ saved' = IF IsHttp(rows[i].kind) /\ EntryOf(rows[i]) # {}
                THEN saved \ SavedAs(rows[i].dest) ELSE saved
    /\ rows' = removeRow(rows, i)
    /\ UNCHANGED <<cache, made, live, mail, import, torrentVars, session, cleared>>

removeSelRows(i) ==
    /\ Command
    /\ saved' = IF IsHttp(rows[i].kind) /\ EntryOf(rows[i]) # {}
                THEN saved \ SavedAs(rows[i].dest) ELSE saved
    /\ cache' = LET own == EntryOf(rows[i])
                IN IF own = {} THEN cache ELSE RemoveAt(cache, Min(own))
    /\ rows' = removeRow(rows, i)
    /\ UNCHANGED <<made, live, mail, import, torrentVars, session, cleared>>

\* The rows at these positions, taken out one at a time, the last of them first.
RemoveUpwards(table, at) ==    \* mutant: from the first to the last
    FoldLeft(LAMBDA t, i : IF i \in at /\ i \in DOMAIN t THEN removeRow(t, i) ELSE t, table,
             [k \in DOMAIN table |-> k])

removeRows(table, at) ==
    FoldLeft(LAMBDA t, i : IF i \in at THEN removeRow(t, i) ELSE t, table,
             [k \in DOMAIN table |-> Len(table) + 1 - k])

\* clearOldHistory: the rows that show Completed, the last of them first, and
\* the items of those whose file is there; the cache keeps its entries.
clearOldHistory ==
    /\ Command
    /\ LET done == {i \in DOMAIN rows : rows[i].status = "Completed"}
       IN \E gone \in SUBSET done :
            /\ done # {}
            /\ saved' = saved \ UNION {SavedAs(rows[i].dest) : i \in done \ gone}
            /\ rows' = removeRows(rows, done)
            /\ cleared' = cleared \cup {rows[i].dest : i \in done}
    /\ UNCHANGED <<cache, made, live, mail, import, torrentVars, session>>

\* resumeDownload of a torrent, and GkTorrentClient::startTorrentDl: the
\* torrent is added in the background, and whatever alerts have come by then,
\* of this torrent or of earlier ones, are recorded under this identifier.
startTorrentDl(i) ==
    /\ Command
    /\ ~IsHttp(rows[i].kind)
    /\ \E x \in saved : x.id = rows[i].id
    /\ \/ \E come \in SUBSET (alerts \cup {rows[i].dest}) :
            /\ handles' = [t \in Torrents |->
                             IF t \in come /\ handles[t] = 0 THEN rows[i].id ELSE handles[t]]
            /\ alerts' = (alerts \cup {rows[i].dest}) \ come
       \/ UNCHANGED torrentVars   \* no folder could be made
    /\ rows' = updateCol(rows, i, "Downloading")
    /\ UNCHANGED <<cache, saved, made, live, mail, import, session, cleared>>

\* The buttons of the tool bar, and their menu entries, for the selected row.
RowCommand(i) ==
    \/ startHttpDownload(i)
    \/ startTorrentDl(i)
    \/ stopDownload(i, "Paused")
    \/ stopDownload(i, "Stopped")
    \/ removeSelRows(i)

\* general_extraDetails, of the selected row: what is known of the hash by the
\* row's identifier, and the figures of the first entry with its destination.
Details(i) ==
    LET info  == UNION {cache[j].info : j \in EntryOf(rows[i])}
        same  == {j \in DOMAIN cache : cache[j].dest = rows[i].dest}
        first == CHOOSE j \in same : \A k \in same : j <= k
    IN [type    |-> {IF IsHttp(rows[i].kind)
                     THEN convHashType_toString(convHashType_IntToEnum(h.type))
                     ELSE "Unknown" : h \in info},
        given   |-> {h.given : h \in info} \ {NoSum},
        figures |-> same # {} /\ cache[first].samples > 1]

-----------------------------------------------------------------------------
(***************************************************************************)
(* Sessions.                                                               *)
(***************************************************************************)
EndSession ==
    /\ up /\ ~Importing
    /\ up' = FALSE /\ leaving' = FALSE
    /\ rows' = <<>> /\ cache' = <<>>
    /\ live' = {} /\ mail' = <<>>
    /\ handles' = [t \in Torrents |-> 0] /\ alerts' = {}
    /\ UNCHANGED <<saved, made, import, cleared>>

\* The items, in whatever order the hash table of their identifiers gives them;
\* of those without a length the window only tells the user.
readCurlItems == SetToSeqs({x \in saved : IsHttp(x.kind) /\ x.dest \notin Unsized})
readTorrentItems == SetToSeqs({x \in saved : ~IsHttp(x.kind)})

\* readFromHistoryFile, of both, torrents last: a row for each item, above those before it.
readFromHistoryFile(history) ==
    FoldLeft(LAMBDA w, x : insertNewRow(w.table, w.entries,
                 Row(x.id, x.dest, x.kind, convDlStat_IntToEnum(x.stat)), saved),
             [table |-> <<>>, entries |-> <<>>], history)

\* resetDlStateStartup, for the rows left Downloading.
resetDlState(table) ==
    [i \in DOMAIN table |->
        IF table[i].status = "Downloading"
        THEN [table[i] EXCEPT !.status = IF IsHttp(table[i].kind) THEN "Paused" ELSE "Stopped"]
        ELSE table[i]]

StartSession ==
    /\ ~up
    /\ up' = TRUE
    /\ \E curl \in readCurlItems, torrent \in readTorrentItems :
       LET read  == readFromHistoryFile(curl \o torrent)
           stuck == {read.table[i].dest : i \in {k \in DOMAIN read.table :
                        read.table[k].status = "Downloading" /\ IsHttp(read.table[k].kind)}}
       IN /\ rows' = resetDlState(read.table)
          /\ cache' = read.entries
          /\ saved' = LET reset == UNION {SavedAs(d) : d \in stuck}
                      IN (saved \ reset) \cup
                         {[x EXCEPT !.stat = convDlStat_toInt("Paused")] : x \in reset}
    /\ UNCHANGED <<made, live, mail, import, torrentVars, leaving, cleared>>

Init ==
    /\ rows = <<>> /\ cache = <<>> /\ saved = {} /\ made = 0
    /\ live = {} /\ mail = <<>> /\ import = NoImport
    /\ handles = [t \in Torrents |-> 0] /\ alerts = {}
    /\ up = FALSE /\ leaving = FALSE /\ cleared = {}

Next ==
    \/ \E n \in DOMAIN Chosen : AddUrl(n)
    \/ \E t \in Torrents : AddTorrent(t)
    \/ \E list \in Lists : BeginImport(list)
    \/ ImportLine
    \/ \E i \in DOMAIN rows : RowCommand(i)
    \/ \E d \in Dests : Report(d) \/ TransferLost(d)
    \/ Deliver
    \/ clearOldHistory
    \/ EndSession
    \/ StartSession

Spec == Init /\ [][Next]_vars

-----------------------------------------------------------------------------
(***************************************************************************)
(* Properties.                                                             *)
(***************************************************************************)
Kinds == {"HTTP", "Torrent"}

\* The table and gk_dl_info_cache stay in step, although rows are found by
\* position and entries by identifier: every row has one entry, its own, and an
\* entry without a row is one that clearOldHistory left behind.
EntryPerRow ==
    /\ \A i \in DOMAIN rows :
         \E j \in DOMAIN cache :
            /\ EntryOf(rows[i]) = {j}
            /\ cache[j].dest = rows[i].dest /\ cache[j].kind = rows[i].kind
    /\ \A j \in DOMAIN cache :
         cache[j].dest \in cleared \/ \E i \in DOMAIN rows : rows[i].id = cache[j].id

\* sendDetails, the commands and the finish signals keep table and database in
\* step: a saved download of known length has one row, which shows what the
\* database says of it, unless its row was cleared and the file had gone.  (A
\* new item shows Stopped and is saved as Unknown.)
RowsSaved ==
    up => \A x \in saved :
            IsHttp(x.kind) /\ x.dest \notin Unsized \cup cleared =>
              \E i \in DOMAIN rows :
                 /\ RowsOf(x.dest) = {i}
                 /\ rows[i].id = x.id
                 /\ \/ convDlStat_StringToEnum(rows[i].status) = convDlStat_IntToEnum(x.stat)
                    \/ rows[i].status = "Stopped" /\ convDlStat_IntToEnum(x.stat) = "Unknown"

\* A report of recvCurl_XferStats shows in the row of the download that it is
\* about, and in its details, whatever was removed and added again meanwhile; a
\* row that clearOldHistory took leaves an entry that keeps the figures to itself.
StatsReachRow ==
    [][\A i \in DOMAIN rows :
          /\ up' /\ mail # <<>> /\ mail' = Tail(mail)
          /\ Head(mail) = <<"stats", rows[i].dest>>
          /\ rows[i].dest \notin cleared
          => rows'[i].shown # "none" /\ Details(i)'.figures]_vars

\* Importing a list into the dialog's folder: a URL that answers with its file's
\* name has a row with its own destination, and not the row of a dead URL of the
\* same list with the same file name.
ImportKeepsLive ==
    [][\A k \in DOMAIN import.lines :
          /\ k = import.at /\ made' = made + 1
          /\ import.lines[k].found /\ import.lines[k].name # Folder /\ ~import.dest
          => \E i \in DOMAIN rows' :
                /\ rows'[i].dest = import.lines[k].name
                /\ rows'[i].status # "Invalid" \/ rows'[i].id < import.first]_vars
=============================================================================
