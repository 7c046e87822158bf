------------------------------- MODULE Torrents -------------------------------
(***************************************************************************)
(* BitTorrent items in the download history: what torrentFileInfo takes    *)
(* from a .torrent file, the keys that addTorrentItem writes for it behind *)
(* its line in the index, what readTorrentItems makes of them again (both  *)
(* in cmnroutines.cpp), and the tree of files that MainWindow shows of it. *)
(*                                                                         *)
(* A torrent takes many writes, and the program may die, or a write fail,  *)
(* between any two of them.  Nothing ever deletes a torrent's keys.  Reads *)
(* of the database succeed here; HistoryDb has those that fail.            *)
(***************************************************************************)
EXTENDS DownloadIndex, TLC

CONSTANTS
    Metainfo,   \* what the .torrent file of each of TorrentPaths says
    MaxTorrents, \* bound: torrents in the index
    ItemLimit,  \* the most files a torrent may have
    Components, \* what a path consists of (boost::filesystem), split at its /
    Extended    \* the names that have an extension

ASSUME MetainfoAssumption ==
    \A p \in TorrentPaths :
        /\ \A f \in ToSet(Metainfo[p].files) :
             f.path \in Seq(STRING) /\ f.sha1 \in Seq(STRING) /\ f.pieces \in STRING \X STRING
        /\ Metainfo[p].trackers \in Seq(STRING)
        /\ Metainfo[p].decodes \in BOOLEAN

VARIABLES
    db,    \* the values of the keys that belong to torrents
    adding \* the torrent being written and its next write, or Nothing

torrentVars == <<vars, db, adding>>

Nothing == [id |-> "", n |-> 0]

-----------------------------------------------------------------------------
(***************************************************************************)
(* From the .torrent file to the database.                                 *)
(***************************************************************************)

\* load_file and bdecode: a file that is too large, cannot be read or is not
\* a torrent.
Loads(p) == Metainfo[p].decodes

\* torrentFileInfo also throws when a tracker has no address, or when there
\* are too many files.  (What it throws when libtorrent refuses a file that
\* did decode is a std::string, which no handler catches: the program ends,
\* with nothing written.  Metainfo has no such file.)
Refused(p) ==
    \/ ~Loads(p)
    \/ "" \in ToSet(Metainfo[p].trackers)
    \/ Len(Metainfo[p].files) > ItemLimit

torrentFileInfo(p) ==
    [num_files    |-> Len(Metainfo[p].files),
     num_trackers |-> Len(Metainfo[p].trackers),
     files_vec    |-> Metainfo[p].files,
     trackers     |-> Metainfo[p].trackers]

\* multipart_key.
FileKey(id, n)    == id \o ".file." \o ToString(n)
TrackerKey(id, n) == id \o ".tracker." \o ToString(n)
GeneralKey(id, k) == id \o "." \o k

MapKeySame(id, n) == id \o ".mapflepce"    \* mutant: the counter is left out
MapKey(id, n)     == id \o ".mapflepce." \o ToString(n)

\* The twelve keys of the general information: the two whose values matter
\* stand also for the ten written before and behind them.
GeneralKeys == <<"num_files", "num_trackers">>

GeneralValue(info, k) == info[k]

\* write_torrent_files_addendum: two keys in one batch for each file.
FileHeads == <<"path", "length", "sha1", "offset", "mtime", "mapflepce", "dled", "flags">>

FileBatch(id, n, f) ==
    FileKey(id, n) :> <<FileHeads, f.path \o <<"length">> \o f.sha1 \o
                        <<"offset", "mtime", MapKey(id, n), "0", "0">>>>
    @@ MapKey(id, n) :> <<<<"first", "last">>, f.pieces>>

\* write_torrent_trkrs_addendum: one key for each tracker.
TrackerBatch(id, n, url) ==
    TrackerKey(id, n) :> <<<<"url", "tier", "enabled">>, <<url, "0", "1">>>>

\* The writes of one torrent, one after another.
LastGeneral    == Len(GeneralKeys)
LastFile(info) == LastGeneral + info.num_files
LastWrite(info) == LastFile(info) + info.num_trackers

Batch(id, info, n) ==
    IF n <= LastGeneral
    THEN GeneralKey(id, GeneralKeys[n]) :> GeneralValue(info, GeneralKeys[n])
    ELSE IF n <= LastFile(info)
    THEN FileBatch(id, n - LastGeneral, info.files_vec[n - LastGeneral])
    ELSE TrackerBatch(id, n - LastFile(info), info.trackers[n - LastFile(info)])

\* The next write after the n-th, or the end.
Following(id, info, n) ==
    IF n >= LastWrite(info) THEN Nothing ELSE [id |-> id, n |-> n + 1]

\* The Add URL window: torrentFileInfo, then addTorrentItem with the line in
\* the index.  createId draws an identifier that has no key yet.
addTorrentItem(id) ==
    /\ adding = Nothing
    /\ GeneralKey(id, GeneralKeys[1]) \notin DOMAIN db
    /\ Cardinality({i \in Ids : path[i] \in TorrentPaths}) < MaxTorrents
    /\ add_download_id(id, {p \in TorrentPaths : ~Refused(p)})
    /\ adding' = [id |-> id, n |-> 1]
    /\ UNCHANGED db

AddWrite ==
    /\ adding # Nothing
    /\ LET info == torrentFileInfo(path[adding.id])
       IN /\ db' = Batch(adding.id, info, adding.n) @@ db
          /\ adding' = Following(adding.id, info, adding.n)
    /\ UNCHANGED vars

\* add_item_db throws and addTorrentItem catches.  A file's write that fails
\* ends the files, not the trackers: both results are looked at afterwards.
AddFails ==
    /\ adding # Nothing
    /\ LET info == torrentFileInfo(path[adding.id])
       IN adding' = IF adding.n \in LastGeneral + 1 .. LastFile(info)
                    THEN Following(adding.id, info, LastFile(info)) ELSE Nothing
    /\ UNCHANGED <<vars, db>>

Crash ==
    /\ adding # Nothing
    /\ adding' = Nothing
    /\ UNCHANGED <<vars, db>>

-----------------------------------------------------------------------------
(***************************************************************************)
(* Back from the database.                                                 *)
(***************************************************************************)

\* The rows of one file's value.  For each row a second reader is made, of
\* the pieces; it shares the static counters of the first, which goes on with
\* what the second has left in them.  A key that is not there throws.
RECURSIVE FileRows(_)
FileRows(reader) ==
    LET r == read_row(reader, 1)
    IN IF r.hung \/ ~r.ok THEN [items |-> <<>>, throws |-> FALSE, hung |-> r.hung]
       ELSE IF r.args[6] \notin DOMAIN db
       THEN [items |-> <<>>, throws |-> TRUE, hung |-> FALSE]
       ELSE LET m == read_row(GkCsvReader(2, FALSE, db[r.args[6]]), 1)
                item == [path |-> r.args[1], sha1 |-> r.args[3], pieces |-> m.args]
                rest == FileRows([r EXCEPT !.rows_parsed = m.rows_parsed,
                                           !.ret = m.ret, !.proc = m.proc])
            IN [rest EXCEPT !.items = <<item>> \o @, !.hung = @ \/ m.hung]

\* read_torrent_files_addendum: the rows of file after file, and nothing when
\* a file's key is missing.
AllRows(rows) ==
    FoldLeft(LAMBDA all, r : [items  |-> all.items \o r.items,
                              throws |-> all.throws \/ r.throws,
                              hung   |-> all.hung \/ r.hung],
             [items |-> <<>>, throws |-> FALSE, hung |-> FALSE], rows)

read_torrent_files_addendum(id, num_files) ==
    IF \E n \in 1 .. num_files : FileKey(id, n) \notin DOMAIN db
    THEN AllRows(<<>>)
    ELSE AllRows([n \in 1 .. num_files |-> FileRows(GkCsvReader(8, FALSE, db[FileKey(id, n)]))])

\* read_torrent_trkrs_addendum: the loop counts down from num_trackers + 1
\* "while (counter > num_trackers)", so it reads the last tracker only.
TrackerAbove(id, num_trackers) ==   \* mutant: the counter is not lowered first
    IF num_trackers = 0 \/ TrackerKey(id, num_trackers + 1) \notin DOMAIN db THEN <<>>
    ELSE <<Last(Rows(GkCsvReader(3, FALSE, db[TrackerKey(id, num_trackers + 1)])).rows)[1]>>

read_torrent_trkrs_addendum(id, num_trackers) ==
    IF num_trackers = 0 \/ TrackerKey(id, num_trackers) \notin DOMAIN db THEN <<>>
    ELSE <<Last(Rows(GkCsvReader(3, FALSE, db[TrackerKey(id, num_trackers)])).rows)[1]>>

\* One item of readTorrentItems(false): any key missing, no file or no
\* tracker, and it throws; or one of its readers does not return.
ItemOf(files, urls) ==
    [files_vec |-> files.items,
     returns |-> ~(files.throws \/ files.hung \/ files.items = <<>> \/ urls = <<>>)]

ReadItem(id) ==
    IF \E k \in ToSet(GeneralKeys) : GeneralKey(id, k) \notin DOMAIN db
    THEN [files_vec |-> <<>>, returns |-> FALSE]
    ELSE ItemOf(read_torrent_files_addendum(id, db[GeneralKey(id, "num_files")]),
                read_torrent_trkrs_addendum(id, db[GeneralKey(id, "num_trackers")]))

\* readTorrentItems: the files of each item that the index lists as a
\* torrent.  One item that throws, and there is none.
TorrentIds(read) == {row[1] : row \in extract_download_ids(read.rows, TRUE)}

Returned(read, items) ==
    IF read.hung \/ \E id \in DOMAIN items : ~items[id].returns
    THEN <<>> ELSE [id \in DOMAIN items |-> items[id].files_vec]

readTorrentItems ==
    LET read == Read
    IN Returned(read, [id \in TorrentIds(read) |-> ReadItem(id)])

-----------------------------------------------------------------------------
(***************************************************************************)
(* The contents view.                                                      *)
(***************************************************************************)

\* The parts of a path that contentsView_update takes for files, each behind
\* the parent directory of the whole path: those with an extension, but not
\* the one that has the name of that directory.
ShownParts(p) ==   \* mutant: the name of the directory is not looked at
    {Append(Front(Components[p]), part) : part \in ToSet(Components[p]) \cap Extended}

ShownFiles(p) ==
    LET parent == Front(Components[p])
    IN {Append(parent, part) :
          part \in {part \in ToSet(Components[p]) \cap Extended :
                      parent = <<>> \/ Last(parent) # part}}

\* cV_addItems adds what is not there yet of the path to a file.
cV_addItems(parts) == {SubSeq(parts, 1, n) : n \in DOMAIN parts}

contentsView_update(files_vec) ==
    UNION {cV_addItems(parts) : parts \in UNION {ShownFiles(f.path) : f \in ToSet(files_vec)}}

-----------------------------------------------------------------------------
TorrentsInit ==
    /\ Init
    /\ db = <<>>
    /\ adding = Nothing

addCurlItem(id) ==
    /\ adding = Nothing
    /\ add_download_id(id, FilePaths)
    /\ UNCHANGED <<db, adding>>

\* Deleting an HTTP item takes every torrent out of the index.  Their keys
\* stay behind for good; no identifier is drawn twice, so nothing reads them
\* again, and the model forgets them.
DeleteItem(id) ==
    /\ adding = Nothing
    /\ delCurlItem(id)
    /\ db' = IF text' = text THEN db ELSE <<>>
    /\ UNCHANGED adding

TorrentsNext ==
    \/ \E id \in Ids : addCurlItem(id) \/ DeleteItem(id) \/ addTorrentItem(id)
    \/ AddWrite
    \/ AddFails
    \/ Crash

TorrentsSpec == TorrentsInit /\ [][TorrentsNext]_torrentVars
-----------------------------------------------------------------------------
(***************************************************************************)
(* Properties.                                                             *)
(***************************************************************************)

\* A value that CSV can carry.
Plain(p) ==
    LET info == torrentFileInfo(p)
    IN info.trackers # <<>> /\ info.files_vec # <<>>
         /\ \A f \in ToSet(info.files_vec) : Len(f.path) = 1 /\ Len(f.sha1) = 1

SameFiles(items, files) ==
    /\ Len(items) = Len(files)
    /\ \A n \in DOMAIN files :
         /\ <<items[n].path>> = files[n].path
         /\ <<items[n].sha1>> = files[n].sha1
         /\ items[n].pieces = files[n].pieces

\* A torrent is read whole or not at all.  Whatever crashes and failed writes
\* came between its keys, whatever commas its names have, and with the static
\* counters of one reader changed by the other for every file: the files that
\* readTorrentItems returns are those of the .torrent file, in their order
\* and each with its own pieces.
FilesComeBack ==
    LET read == readTorrentItems
    IN \A id \in DOMAIN read : SameFiles(read[id], torrentFileInfo(path[id]).files_vec)

\* When all that the index lists as torrents are plain and were written to
\* their last key, every one of them is read, as long as the index can be.
\* (One that was not, or has no tracker, or an HTTP item that reads as a
\* torrent, and none is.)
Whole(id) ==
    /\ path[id] \in TorrentPaths
    /\ adding.id # id
    /\ Plain(path[id])
    /\ \A n \in 1 .. LastWrite(torrentFileInfo(path[id])) :
         DOMAIN Batch(id, torrentFileInfo(path[id]), n) \subseteq DOMAIN db

WholeAreRead ==
    LET read == Read
        listed == TorrentIds(read)
    IN ~read.hung /\ (\A id \in listed : Whole(id)) => DOMAIN readTorrentItems = listed

\* The contents view shows each file of a torrent in its directory, and no
\* file that is not there: so it is when the files have extensions, their
\* own, and no directory but the last has one.
Regular(p) ==
    LET parts == Components[p]
    IN /\ Len(parts) > 1
       /\ Last(parts) \in Extended \ ToSet(Front(parts))
       /\ \A i \in 1 .. Len(parts) - 2 : parts[i] \notin Extended

Leaves(tree) == {parts \in tree : ~ \E longer \in tree : IsStrictPrefix(parts, longer)}

FilesShown ==
    LET read == readTorrentItems
    IN \A id \in DOMAIN read :
         LET files == {f.path[1] : f \in ToSet(torrentFileInfo(path[id]).files_vec)}
         IN (\A p \in files : Regular(p)) =>
              Leaves(contentsView_update(read[id])) = {Components[p] : p \in files}
=============================================================================
