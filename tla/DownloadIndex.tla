---------------------------- MODULE DownloadIndex ----------------------------
(***************************************************************************)
(* The index of the download history (LEVELDB_STORE_UNIQUE_ID in           *)
(* cmnroutines.cpp) as the text it is: a line "identifier,path,type" for   *)
(* each item, read with GkCsvReader and written again as a whole whenever  *)
(* an item comes or goes.  HistoryDb takes the index for a set; this       *)
(* module shows when that is so, and what commas in a path do.             *)
(***************************************************************************)
EXTENDS CsvReader, FiniteSets

CONSTANTS
    Order,        \* the unique identifiers, as a sequence in QMap's order
    FilePaths,    \* paths of HTTP(S)/FTP(S) items, split at their commas
    TorrentPaths  \* paths of BitTorrent items, likewise

ASSUME OrderAssumption == Order \in Seq(STRING \ {""}) /\ IsInjective(Order)
ASSUME PathsAssumption ==
    /\ \A p \in FilePaths \cup TorrentPaths : p \in Seq(STRING) /\ p # <<>> /\ p[1] # ""
    /\ FilePaths \cap TorrentPaths = {}

Ids == ToSet(Order)

VARIABLES
    text,  \* the lines of the index value
    path,  \* the path each identifier in use was made for, or <<>>
    wanted \* HTTP items that were added and not asked to be removed

vars == <<text, path, wanted>>

Read     == Rows(GkCsvReader(3, TRUE, text))
Listed   == {text[i][1] : i \in DOMAIN text}

\* convertBool_fromInt(std::atoi(..)), for the values that occur: only a
\* value that starts with 1 is true.
is_torrent(row) == row[3] = "1"
Flag(p) == IF p \in TorrentPaths THEN "1" ELSE "0"

\* determine_download_id: the first identifier, in QMap's order, whose path
\* reads as this one.  A value that was read has no comma.
determine_download_id(rows, p) ==
    LET ids == {row[1] : row \in {row \in ToSet(rows) : p = <<row[2]>>}}
    IN IF ids = {} THEN "" ELSE Order[Min({n \in DOMAIN Order : Order[n] \in ids})]

extract_download_ids(rows, torrentsOnly) ==
    {row \in ToSet(rows) : is_torrent(row) = torrentsOnly}

\* add_download_id: the lines read, as they were read, and the new one, for
\* one of the paths.  sendDetails looks for the path among the rows first; in
\* a later session a row shows what was read, and that is never a path with
\* commas.
Line(id, p) == <<id>> \o p \o <<Flag(p)>>

add_download_id(id, paths) ==
    /\ id \notin Listed \cup wanted
    /\ \E read \in {Read} :
         /\ ~read.hung
         /\ \E p \in paths :
              /\ Len(p) = 1 => \A i \in wanted : path[i] # p
              /\ text' = Append(SelectSeq(read.rows, LAMBDA row : row[1] # "" /\ row[2] # ""),
                                Line(id, p))
              /\ path' = [path EXCEPT ![id] = p]
              /\ wanted' = IF p \in FilePaths THEN wanted \cup {id} ELSE wanted

\* del_download_id(id, db, false): an unordered_map of the HTTP items gives
\* the new lines, in any order; their type is written as the bool it is now.
Rewritten(rows, id, type) == {<<row[1], row[2], type>> : row \in {row \in rows : row[1] # id}}

del_download_idTorrents(id, rows) ==   \* mutant: torrentsOnly is passed as true
    \E lines \in SetToSeqs(Rewritten(extract_download_ids(rows, TRUE), id, "1")) :
        text' = lines

del_download_id(id, rows) ==
    \E lines \in SetToSeqs(Rewritten(extract_download_ids(rows, FALSE), id, "0")) :
        text' = lines

\* delCurlItem for the row of item i, which shows its path or, in a later
\* session, what was read for it.  An identifier that is not found throws.
delCurlItem(i) ==
    /\ i \in wanted
    /\ \E read \in {Read} :
         /\ ~read.hung
         /\ \E p \in {path[i]} \cup {<<row[2]>> : row \in {row \in ToSet(read.rows) : row[1] = i}} :
              LET id == determine_download_id(read.rows, p)
              IN IF id = "" THEN UNCHANGED text ELSE del_download_id(id, read.rows)
    /\ wanted' = wanted \ {i}
    /\ path' = [id \in Ids |-> IF id \in Listed' \cup wanted' THEN path[id] ELSE <<>>]

Init ==
    /\ text = <<>>
    /\ path = [id \in Ids |-> <<>>]
    /\ wanted = {}

Next ==
    \E id \in Ids :
        \/ add_download_id(id, FilePaths \cup TorrentPaths)
        \/ delCurlItem(id)

Spec == Init /\ [][Next]_vars
-----------------------------------------------------------------------------
(***************************************************************************)
(* Properties.                                                             *)
(***************************************************************************)

\* A path with two commas in a row, or one at its end.
Gap(p) == "" \in ToSet(p)

\* However often lines with commas have been read and written again, no line
\* is lost, merged or moved by it, and each gives its own identifier and the
\* beginning of its own path: the static counters and the wrap of values into
\* columns never carry either from one line to the next.  (They do carry the
\* type: a line with a gap takes that of the line before it.)
\* read_row is "intended to be used with a while() loop" and returns "when to
\* abort or repeat the while() loop" (csv.hpp), yet the loop need not end: the
\* first line, when it has a gap, is written again by add_download_id without
\* its third value, and the next read_csv_helper to look for that value never
\* returns.  It ends when no path has a gap, and what it has read until it
\* does not end is in order too.
LinesInOrder ==
    LET read == Read
    IN /\ read.hung => \E i \in DOMAIN text : Gap(path[text[i][1]])
       /\ ~read.hung => Len(read.rows) = Len(text)
       /\ \A i \in DOMAIN read.rows :
            /\ read.rows[i][1] = text[i][1]
            /\ read.rows[i][2] = path[text[i][1]][1]

\* An HTTP item whose path has no comma is found by it, with its type, until
\* it is removed, as long as the index can be read: neither adding and removing
\* others, whatever their paths, nor the torrents lead to the loss of it or to
\* another item in its place.  (Not so if another path is the same up to its
\* first comma.)
FindsPlain ==
    LET read == Read
        rows == read.rows
    IN \A id \in wanted :
         /\ ~read.hung
         /\ Len(path[id]) = 1
         /\ \A other \in Listed \ {id} : path[other][1] # path[id][1]
         => /\ determine_download_id(rows, path[id]) = id
            /\ \E row \in extract_download_ids(rows, FALSE) : row[1] = id
=============================================================================
