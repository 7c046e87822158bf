------------------------- MODULE DownloadViewProofs -------------------------
(***************************************************************************)
(* Proofs about the window and its database, for any names, torrents and   *)
(* lists: every row has its own entry of the cache; a saved download has   *)
(* one row, with its status; the figures that a transfer reports show in   *)
(* its row; and importing a list keeps the rows of the URLs that answer.   *)
(*                                                                         *)
(* The loops over rows and items are folds: a fold is a recursive function *)
(* on the positions that are left, and sets of numbers give the induction. *)
(***************************************************************************)
EXTENDS DownloadView, FiniteSetTheorems, SequenceTheorems, WellFoundedInduction, TLAPS

\* An item has the fields that Item gives it.
IsItem(x) == x = [id |-> x.id, dest |-> x.dest, kind |-> x.kind, stat |-> x.stat,
                  hash |-> x.hash]

\* Items are told apart by their identifiers, which are never used again.
Identified ==
    /\ made \in Nat
    /\ \A x \in saved : IsItem(x) /\ x.id \in 1 .. made
    /\ \A x, y \in saved : x.id = y.id => x = y

LEMMA IdentifiedInit == Init => Identified
  BY DEF Init, Identified

\* What EXCEPT makes of an item.
LEMMA Updated ==
  ASSUME NEW x, IsItem(x), NEW s, NEW h, NEW y, y = [x EXCEPT !.stat = s, !.hash = h]
  PROVE  y = [id |-> x.id, dest |-> x.dest, kind |-> x.kind, stat |-> s, hash |-> h]
  BY DEF IsItem

\* modifyCurlItem, called without a verdict, writes the status and nothing of
\* the hash.
LEMMA Modified ==
  ASSUME NEW x, IsItem(x), NEW s, NEW h
  PROVE  [x EXCEPT !.stat = s, !.hash = IF "NotApplicable" = "NotApplicable" THEN @ ELSE h]
            = [id |-> x.id, dest |-> x.dest, kind |-> x.kind, stat |-> s, hash |-> x.hash]
<1>1. [x EXCEPT !.stat = s, !.hash = IF "NotApplicable" = "NotApplicable" THEN @ ELSE h]
         = [x EXCEPT !.stat = s, !.hash = x.hash]
  BY Zenon
<1> QED
  BY <1>1, Updated, Zenon

\* What a step leaves of the items: none is new but under an identifier of
\* "new".
Keeps(db, new) ==
    /\ \A y \in db : IsItem(y)
    /\ \A y \in db : y.id \in new \/ \E x \in saved : y.id = x.id
    /\ \A y, z \in db : y.id = z.id => y = z

LEMMA KeptBySubset ==
  ASSUME Identified, NEW db, db \subseteq saved
  PROVE  Keeps(db, {})
  BY DEF Identified, Keeps

LEMMA KeptByStatus ==
  ASSUME Identified, NEW S, S \subseteq saved, NEW t
  PROVE  Keeps((saved \ S) \cup
               {[id |-> x.id, dest |-> x.dest, kind |-> x.kind, stat |-> t, hash |-> x.hash] :
                  x \in S}, {})
<1> DEFINE new(x) == [id |-> x.id, dest |-> x.dest, kind |-> x.kind, stat |-> t,
                      hash |-> x.hash]
           db == (saved \ S) \cup {new(x) : x \in S}
<1>1. \A x : new(x).id = x.id /\ IsItem(new(x))
  BY DEF IsItem
<1>2. \A x \in S : x \in saved
  OBVIOUS
<1> HIDE DEF new
<1>3. \A y \in db : IsItem(y)
  BY <1>1 DEF Identified
<1>4. \A y \in db : \E x \in saved : y.id = x.id
  <2>1. ASSUME NEW x \in S
        PROVE  \E w \in saved : new(x).id = w.id
    BY <1>1, <1>2
  <2> QED
    BY <2>1
<1>5. \A y, z \in db : y.id = z.id => y = z
  <2> SUFFICES ASSUME NEW y \in db, NEW z \in db, y.id = z.id
               PROVE  y = z
    OBVIOUS
  <2>1. CASE y \in S /\ y \notin {new(x) : x \in S}
    BY <2>1
  <2>2. CASE y \in {new(x) : x \in S} /\ z \in {new(x) : x \in S}
    <3>1. PICK x \in S : y = new(x)
      BY <2>2
    <3>2. PICK w \in S : z = new(w)
      BY <2>2
    <3> QED
      BY <3>1, <3>2, <1>1, <1>2 DEF Identified
  <2>3. CASE y \in saved \ S /\ z \in saved \ S
    BY <2>3 DEF Identified
  <2>4. CASE y \in saved \ S /\ z \in {new(x) : x \in S}
    BY <2>4, <1>1, <1>2 DEF Identified
  <2>5. CASE z \in saved \ S /\ y \in {new(x) : x \in S}
    BY <2>5, <1>1, <1>2 DEF Identified
  <2> QED
    BY <2>2, <2>3, <2>4, <2>5
<1>6. Keeps(db, {})
  <2> HIDE DEF db
  <2> QED
    BY <1>3, <1>4, <1>5 DEF Keeps
<1> QED
  BY <1>6 DEF new

\* An item with another status, and the database with some of them so.
WithStat(x, t) == [id |-> x.id, dest |-> x.dest, kind |-> x.kind, stat |-> t, hash |-> x.hash]

Restated(S, t) == saved' = (saved \ S) \cup {WithStat(x, t) : x \in S}

\* modifyCurlItem, called without a verdict.
LEMMA ModifyIs ==
  ASSUME Identified, NEW d, NEW s, NEW given, NEW type, NEW returned,
         modifyCurlItem(d, s, given, type, returned, "NotApplicable")
  PROVE  Restated(SavedAs(d), convDlStat_toInt(s))
<1> DEFINE t == convDlStat_toInt(s)
           h == Hash(convHashType_toInt(type), given, returned,
                     convHashVerif_toInt("NotApplicable"))
           mod(x) == [x EXCEPT !.stat = t,
                               !.hash = IF "NotApplicable" = "NotApplicable" THEN @ ELSE h]
<1>1. SavedAs(d) \subseteq saved
  BY DEF SavedAs
<1>2. saved' = (saved \ SavedAs(d)) \cup {mod(x) : x \in SavedAs(d)}
  BY Zenon DEF modifyCurlItem
<1>3. \A x \in SavedAs(d) : mod(x) = WithStat(x, t)
  <2> HIDE DEF h, t
  <2>1. \A x \in SavedAs(d) : IsItem(x)
    BY <1>1 DEF Identified
  <2> QED
    BY <2>1, Modified, Zenon DEF WithStat
<1>4. {mod(x) : x \in SavedAs(d)} = {WithStat(x, t) : x \in SavedAs(d)}
  <2> HIDE DEF mod
  <2> QED
    BY <1>3
<1> QED
  <2> HIDE DEF mod
  <2> QED
    BY <1>2, <1>4 DEF Restated

LEMMA KeptByModify ==
  ASSUME Identified, NEW d, NEW s, NEW given, NEW type, NEW returned,
         modifyCurlItem(d, s, given, type, returned, "NotApplicable")
  PROVE  Keeps(saved', {})
<1> DEFINE t == convDlStat_toInt(s)
           S == SavedAs(d)
<1>1. S \subseteq saved
  BY DEF SavedAs
<1>2. saved' = (saved \ S) \cup {WithStat(x, t) : x \in S}
  BY ModifyIs DEF Restated
<1> HIDE DEF S, t
<1>3. saved' = (saved \ S) \cup
        {[id |-> x.id, dest |-> x.dest, kind |-> x.kind, stat |-> t, hash |-> x.hash] : x \in S}
  BY <1>2, Zenon DEF WithStat
<1>4. Keeps((saved \ S) \cup
        {[id |-> x.id, dest |-> x.dest, kind |-> x.kind, stat |-> t, hash |-> x.hash] : x \in S}, {})
  BY <1>1, KeptByStatus
<1> QED
  BY <1>3, <1>4, Zenon

\* resetDlStateStartup writes the status alone.
LEMMA Reset ==
  ASSUME NEW x, IsItem(x), NEW s, NEW y, y = [x EXCEPT !.stat = s]
  PROVE  y = [id |-> x.id, dest |-> x.dest, kind |-> x.kind, stat |-> s, hash |-> x.hash]
  BY DEF IsItem

\* An item that is added has the identifier that has just been made.
LEMMA KeptByAdding ==
  ASSUME Identified, NEW d, NEW kind, NEW status, NEW hash,
         saved' \in {saved, saved \cup {Item(made + 1, d, kind, status, hash)}}
  PROVE  Keeps(saved', {made + 1})
<1> DEFINE t == convDlStat_toInt(status)
           it == Item(made + 1, d, kind, status, hash)
<1>1. it = [id |-> made + 1, dest |-> d, kind |-> kind, stat |-> t, hash |-> hash]
  BY DEF Item
<1> HIDE DEF t, it
<1>2. IsItem(it) /\ it.id = made + 1
  BY <1>1 DEF IsItem
<1>3. \A x \in saved : x.id # made + 1
  BY DEF Identified
<1>4. \A y \in saved' : y \in saved \/ y = it
  BY DEF it
<1> QED
  BY <1>2, <1>3, <1>4 DEF Identified, Keeps

-----------------------------------------------------------------------------
\* What such a step means for the items.
LEMMA KeepsMeans ==
  ASSUME Identified, NEW new, Keeps(saved', new),
         \/ new = {} /\ made' \in {made, made + 1}
         \/ new = {made + 1} /\ made' = made + 1
  PROVE  Identified'
<1>1. \A y \in saved' : y.id \in new => y.id = made + 1 /\ made' = made + 1
  OBVIOUS
<1>2. made' \in Nat /\ made' >= made
  BY DEF Identified
<1>3. \A y \in saved' : IsItem(y) /\ y.id \in 1 .. made'
  BY <1>1, <1>2 DEF Keeps, Identified
<1> QED
  BY <1>2, <1>3 DEF Keeps, Identified, IsItem

\* What sendDetails leaves in the database.
LEMMA SentDetails ==
  ASSUME NEW d, NEW kind, NEW status, NEW hash, NEW ok, NEW db,
         sendDetails(d, kind, status, hash, ok, db)
  PROVE  \/ saved' = db
         \/ IsHttp(kind) /\ saved' = db \cup {Item(made + 1, d, kind, "Unknown", hash)}
<1>1. CASE Refused(d)
  BY <1>1 DEF sendDetails
<1>2. CASE ~Refused(d)
  <2>1. saved' = IF IsHttp(kind) /\ ok
                 THEN db \cup {Item(made + 1, d, kind, "Unknown", hash)} ELSE db
    BY <1>2 DEF sendDetails
  <2> QED
    BY <2>1, Zenon
<1> QED
  BY <1>1, <1>2

LEMMA StepKeeps ==
  ASSUME Identified, Next
  PROVE  \/ Keeps(saved', {}) /\ made' = made
         \/ Keeps(saved', {made + 1}) /\ made' = made + 1
<1>1. ASSUME NEW n \in Names, AddUrl(n)
      PROVE  Keeps(saved', {made + 1}) /\ made' = made + 1
  <2>1. PICK ok \in BOOLEAN :
           sendDetails(IF ok THEN n ELSE Folder, "HTTP", "Stopped", DialogHash(n), ok, saved)
    BY <1>1 DEF AddUrl
  <2> DEFINE d == IF ok THEN n ELSE Folder
  <2>2. sendDetails(d, "HTTP", "Stopped", DialogHash(n), ok, saved)
    BY <2>1
  <2> HIDE DEF d
  <2>3. \/ saved' = saved
        \/ saved' = saved \cup {Item(made + 1, d, "HTTP", "Unknown", DialogHash(n))}
    BY <2>2, SentDetails
  <2>4. Keeps(saved', {made + 1})
    BY <2>3, KeptByAdding
  <2> QED
    BY <2>4, <1>1 DEF AddUrl
<1>2. ASSUME NEW t \in Torrents, AddTorrent(t)
      PROVE  Keeps(saved', {made + 1}) /\ made' = made + 1
  <2>1. ~IsHttp("Torrent")
    BY DEF IsHttp
  <2> DEFINE it == Item(made + 1, t, "Torrent", "Downloading", NoHash)
  <2>2. saved' = saved \cup {it}
    <3>1. sendDetails(t, "Torrent", "Stopped", NoHash, TRUE, saved \cup {it})
      BY <1>2 DEF AddTorrent
    <3> HIDE DEF it
    <3> QED
      BY <3>1, <2>1, SentDetails
  <2>3. Keeps(saved', {made + 1})
    BY <2>2, KeptByAdding
  <2> QED
    BY <2>3, <1>2 DEF AddTorrent
<1>3. CASE ImportLine
  <2> DEFINE line == import.lines[import.at]
  <2>1. \/ sendDetails(FoundDest(line, line.name), "HTTP", "Stopped", LineHash(line.sum),
                       line.name # Folder, saved)
        \/ sendDetails(LostDest(line, import.name), "HTTP", "Invalid", LineHash(line.sum),
                       FALSE, saved)
    BY <1>3, Zenon DEF ImportLine
  <2> HIDE DEF line
  <2>2. \/ saved' = saved
        \/ saved' = saved \cup {Item(made + 1, FoundDest(line, line.name), "HTTP", "Unknown",
                                     LineHash(line.sum))}
        \/ saved' = saved \cup {Item(made + 1, LostDest(line, import.name), "HTTP", "Unknown",
                                     LineHash(line.sum))}
    BY <2>1, SentDetails
  <2>3. Keeps(saved', {made + 1})
    BY <2>2, KeptByAdding
  <2> QED
    BY <2>3, <1>3 DEF ImportLine
<1>4. ASSUME NEW i \in DOMAIN rows, RowCommand(i)
      PROVE  Keeps(saved', {}) /\ made' = made
  <2>1. CASE startHttpDownload(i)
    BY <2>1, KeptByModify DEF startHttpDownload, SetStatus
  <2>2. CASE startTorrentDl(i)
    BY <2>2, KeptBySubset DEF startTorrentDl
  <2>3. ASSUME NEW status, stopDownload(i, status)
        PROVE  Keeps(saved', {}) /\ made' = made
    BY <2>3, KeptByModify DEF stopDownload, SetStatus
  <2>4. CASE removeSelRows(i)
    <3>1. saved' = IF IsHttp(rows[i].kind) /\ EntryOf(rows[i]) # {}
                   THEN saved \ SavedAs(rows[i].dest) ELSE saved
      BY <2>4 DEF removeSelRows
    <3>2. saved' \subseteq saved
      BY <3>1, Zenon
    <3> QED
      BY <3>2, <2>4, KeptBySubset DEF removeSelRows
  <2> QED
    BY <1>4, <2>1, <2>2, <2>3, <2>4 DEF RowCommand
<1>5. CASE Deliver
  <2>1. made' = made
    BY <1>5 DEF Deliver
  <2>2. CASE saved' = saved
    BY <2>1, <2>2, KeptBySubset
  <2>3. CASE saved' # saved
    <3>1. recvDlFinished(Head(mail)[2])
      BY <1>5, <2>3, Zenon DEF Deliver
    <3> DEFINE d == Head(mail)[2]
    <3>2. PICK content, x : modifyCurlItem(d, "Completed", FileHash(x.hash, content).checksum,
                               FileHash(x.hash, content).hash_type, NoSum, "NotApplicable")
      BY <3>1, <2>3, Zenon DEF recvDlFinished
    <3> HIDE DEF d
    <3>3. Keeps(saved', {})
      BY <3>2, KeptByModify
    <3> QED
      BY <2>1, <3>3
  <2> QED
    BY <2>2, <2>3
<1>6. CASE clearOldHistory
  <2>1. saved' \subseteq saved
    BY <1>6 DEF clearOldHistory
  <2> QED
    BY <2>1, <1>6, KeptBySubset DEF clearOldHistory
<1>7. CASE StartSession
  <2>1. PICK stuck : LET reset == UNION {SavedAs(d) : d \in stuck}
                     IN saved' = (saved \ reset) \cup
                           {[x EXCEPT !.stat = convDlStat_toInt("Paused")] : x \in reset}
    BY <1>7, Zenon DEF StartSession
  <2> DEFINE reset == UNION {SavedAs(d) : d \in stuck}
             t == convDlStat_toInt("Paused")
             mod(x) == [x EXCEPT !.stat = t]
             new(x) == [id |-> x.id, dest |-> x.dest, kind |-> x.kind, stat |-> t,
                        hash |-> x.hash]
  <2>2. reset \subseteq saved
    BY DEF SavedAs
  <2>3. saved' = (saved \ reset) \cup {mod(x) : x \in reset}
    BY <2>1
  <2> HIDE DEF reset, t
  <2>4. \A x \in reset : mod(x) = new(x)
    <3>1. \A x \in reset : IsItem(x)
      BY <2>2 DEF Identified
    <3> QED
      BY <3>1, Reset, Zenon
  <2>5. saved' = (saved \ reset) \cup {new(x) : x \in reset}
    <3> HIDE DEF mod, new
    <3>1. {mod(x) : x \in reset} = {new(x) : x \in reset}
      BY <2>4
    <3> QED
      BY <2>3, <3>1
  <2>6. Keeps((saved \ reset) \cup {new(x) : x \in reset}, {})
    BY <2>2, KeptByStatus
  <2>7. Keeps(saved', {})
    BY <2>5, <2>6, Zenon
  <2> QED
    BY <2>7, <1>7 DEF StartSession
<1>8. CASE \/ \E list \in Lists : BeginImport(list)
           \/ \E d \in Dests : Report(d) \/ TransferLost(d)
           \/ EndSession
  <2>1. UNCHANGED <<saved, made>>
    BY <1>8 DEF BeginImport, Report, TransferLost, EndSession
  <2> QED
    BY <2>1, KeptBySubset
<1> QED
  BY ChosenAssumption, <1>1, <1>2, <1>3, <1>4, <1>5, <1>6, <1>7, <1>8 DEF Next

LEMMA StepIdentified ==
  ASSUME Identified, [Next]_vars
  PROVE  Identified'
<1>1. CASE Next
  <2>1. CASE Keeps(saved', {}) /\ made' = made
    BY <2>1, KeepsMeans
  <2>2. CASE Keeps(saved', {made + 1}) /\ made' = made + 1
    BY <2>2, KeepsMeans
  <2> QED
    BY <1>1, <2>1, <2>2, StepKeeps
<1>2. CASE UNCHANGED vars
  <2>1. UNCHANGED <<saved, made>>
    BY <1>2 DEF vars
  <2> QED
    BY <2>1 DEF Identified, IsItem
<1> QED
  BY <1>1, <1>2

----------------------------------------------------------------------------
(* What the table, the cache and the database are like.                    *)

\* The fields of a row, and of an entry of the cache.
IsRow(r) == r = [id |-> r.id, dest |-> r.dest, kind |-> r.kind, status |-> r.status,
                 shown |-> r.shown]
IsEntry(e) == e = [id |-> e.id, dest |-> e.dest, kind |-> e.kind, samples |-> e.samples,
                   info |-> e.info]

\* Torrents have folders of their own.
OwnKind(x) == \/ x.kind = "HTTP" /\ x.dest \in Dests
              \/ x.kind = "Torrent" /\ x.dest \in Torrents

IsSequence(s) == Len(s) \in Nat /\ s = [i \in 1 .. Len(s) |-> s[i]]

\* The types of the table, of the cache and of the database; an identifier is
\* that of one row and of one entry.
RowsWell ==
    /\ IsSequence(rows)
    /\ \A i \in DOMAIN rows : IsRow(rows[i]) /\ rows[i].id \in 1 .. made /\ OwnKind(rows[i])
    /\ \A i, k \in DOMAIN rows : rows[i].id = rows[k].id => i = k

CacheWell ==
    /\ IsSequence(cache)
    /\ \A j \in DOMAIN cache : /\ IsEntry(cache[j]) /\ cache[j].id \in 1 .. made
                               /\ OwnKind(cache[j]) /\ cache[j].samples \in {1, 2}
    /\ \A j, k \in DOMAIN cache : cache[j].id = cache[k].id => j = k

ItemsWell == IsFiniteSet(saved) /\ \A x \in saved : OwnKind(x) /\ x.stat \in 0 .. 5

\* EntryPerRow, without the positions.
Paired ==
    /\ \A i \in DOMAIN rows : \E j \in DOMAIN cache :
          cache[j].id = rows[i].id /\ cache[j].dest = rows[i].dest /\ cache[j].kind = rows[i].kind
    /\ \A j \in DOMAIN cache :
          cache[j].dest \in cleared \/ \E i \in DOMAIN rows : rows[i].id = cache[j].id

\* Until a row of it is cleared, a destination is that of one download ...
OneRow ==
    \A i, k \in DOMAIN rows :
        rows[i].dest = rows[k].dest /\ rows[i].dest \notin Torrents \cup cleared => i = k

OneItem ==
    \A x, y \in saved :
        /\ IsHttp(x.kind) /\ IsHttp(y.kind)
        /\ x.dest = y.dest /\ x.dest \notin Unsized \cup cleared
        => x = y

\* ... and its row shows the status of the item.
Shows(status, stat) ==
    \/ convDlStat_StringToEnum(status) = convDlStat_IntToEnum(stat)
    \/ status = "Stopped" /\ convDlStat_IntToEnum(stat) = "Unknown"

RowShown ==
    up => \A x \in saved :
            IsHttp(x.kind) /\ x.dest \notin Unsized \cup cleared =>
              \E i \in DOMAIN rows : /\ rows[i].dest = x.dest /\ rows[i].id = x.id
                                     /\ Shows(rows[i].status, x.stat)

\* The fields of an import.
Fields(imp) == imp = [lines |-> imp.lines, dest |-> imp.dest, dir |-> imp.dir, at |-> imp.at,
                      name |-> imp.name, first |-> imp.first, boxed |-> imp.boxed]

\* Between sessions there is nothing but the database.
Sessions ==
    /\ up \in BOOLEAN
    /\ Fields(import)
    /\ ~up => rows = <<>> /\ cache = <<>> /\ mail = <<>> /\ import = NoImport
    /\ mail \in Seq({"stats", "fin"} \X Dests)

\* The fields of a list, and how far it has been read.
ListWell ==
    /\ DOMAIN import.lines = 1 .. Len(import.lines) /\ Len(import.lines) \in Nat
    /\ import.at \in DOMAIN import.lines
    /\ \A k \in DOMAIN import.lines :
          import.lines[k].found \in BOOLEAN
          /\ {import.lines[k].name, import.lines[k].dest} \subseteq Dests
    /\ import.name \in Dests
    /\ {import.dest, import.dir} \subseteq BOOLEAN
    /\ import.first \in Nat

\* A list for the dialog's folder: the name that is carried over has a row, and
\* the rows of the list's dead URLs have none.
ListRows ==
    ~import.dest =>
        /\ import.dir
        /\ import.name # Folder => RowsOf(import.name) # {}
        /\ \A i \in DOMAIN rows : rows[i].status = "Invalid" /\ rows[i].id >= import.first
                                  => rows[i].dest = Folder

Imports == Importing => ListWell /\ ListRows

----------------------------------------------------------------------------
(* Sequences.                                                              *)

LEMMA IsSeq ==
  ASSUME NEW s, IsSequence(s)
  PROVE  /\ DOMAIN s = 1 .. Len(s) /\ Len(s) \in Nat
         /\ s \in Seq({s[i] : i \in 1 .. Len(s)})
  BY DEF IsSequence

LEMMA SeqIs ==
  ASSUME NEW S, NEW s \in Seq(S)
  PROVE  IsSequence(s)
  BY DEF IsSequence

LEMMA InSeq ==
  ASSUME NEW S, NEW s, IsSequence(s), \A i \in 1 .. Len(s) : s[i] \in S
  PROVE  s \in Seq(S)
  BY DEF IsSequence

\* A row is inserted on top.
LEMMA OnTop ==
  ASSUME NEW s, IsSequence(s), NEW r
  PROVE  /\ IsSequence(<<r>> \o s) /\ Len(<<r>> \o s) = Len(s) + 1
         /\ (<<r>> \o s)[1] = r
         /\ \A i \in 1 .. Len(s) : (<<r>> \o s)[i + 1] = s[i]
         /\ \A i \in 2 .. Len(s) + 1 : (<<r>> \o s)[i] = s[i - 1]
<1> DEFINE S == {s[i] : i \in 1 .. Len(s)} \cup {r}
<1>1. s \in Seq(S) /\ r \in S /\ Len(s) \in Nat
  BY InSeq, IsSeq
<1> HIDE DEF S
<1>2. <<r>> \in Seq(S) /\ Len(<<r>>) = 1 /\ <<r>>[1] = r
  BY <1>1
<1> DEFINE a == <<r>>
<1> HIDE DEF a
<1>3. a \in Seq(S) /\ Len(a) = 1 /\ a[1] = r
  BY <1>2 DEF a
<1>4. /\ a \o s \in Seq(S) /\ Len(a \o s) = 1 + Len(s)
      /\ \A i \in 1 .. 1 + Len(s) : (a \o s)[i] = IF i <= 1 THEN a[i] ELSE s[i - 1]
  <2>1. /\ a \o s \in Seq(S) /\ Len(a \o s) = Len(a) + Len(s)
        /\ \A i \in 1 .. Len(a) + Len(s) :
              (a \o s)[i] = IF i <= Len(a) THEN a[i] ELSE s[i - Len(a)]
    BY <1>1, <1>3, ConcatProperties, Zenon
  <2> QED
    BY <2>1, <1>3
<1>5. (a \o s)[1] = r /\ Len(a \o s) = Len(s) + 1
  BY <1>1, <1>3, <1>4
<1>6. \A i \in 2 .. Len(s) + 1 : (a \o s)[i] = s[i - 1]
  BY <1>1, <1>4
<1>7. ASSUME NEW i \in 1 .. Len(s) PROVE (a \o s)[i + 1] = s[i]
  <2>1. i + 1 \in 2 .. Len(s) + 1 /\ (i + 1) - 1 = i
    BY <1>1
  <2> QED
    BY <2>1, <1>6
<1>8. IsSequence(a \o s)
  BY <1>4, SeqIs
<1> QED
  BY <1>4, <1>5, <1>6, <1>7, <1>8 DEF a

LEMMA AtEnd ==
  ASSUME NEW s, IsSequence(s), NEW e
  PROVE  /\ IsSequence(Append(s, e)) /\ Len(Append(s, e)) = Len(s) + 1
         /\ Append(s, e)[Len(s) + 1] = e
         /\ \A j \in 1 .. Len(s) : Append(s, e)[j] = s[j]
<1> DEFINE S == {s[i] : i \in 1 .. Len(s)} \cup {e}
<1>1. s \in Seq(S) /\ e \in S
  BY InSeq
<1> HIDE DEF S
<1>2. /\ Append(s, e) \in Seq(S) /\ Len(Append(s, e)) = Len(s) + 1
      /\ Append(s, e)[Len(s) + 1] = e
      /\ \A j \in 1 .. Len(s) : Append(s, e)[j] = s[j]
  <2> DEFINE P(x, y) == /\ Append(x, y) \in Seq(S)
                        /\ Append(x, y) # <<>>
                        /\ Len(Append(x, y)) = Len(x) + 1
                        /\ \A i \in 1 .. Len(x) : Append(x, y)[i] = x[i]
                        /\ Append(x, y)[Len(x) + 1] = y
  <2>1. \A x \in Seq(S), y \in S : P(x, y)
    BY AppendProperties, Zenon
  <2> QED
    BY <2>1, <1>1, Zenon
<1>3. IsSequence(Append(s, e))
  BY <1>2, SeqIs, Zenon
<1> QED
  BY <1>2, <1>3, Zenon

LEMMA TakenOut ==
  ASSUME NEW s, IsSequence(s), NEW i \in 1 .. Len(s)
  PROVE  /\ IsSequence(RemoveAt(s, i)) /\ Len(RemoveAt(s, i)) = Len(s) - 1
         /\ \A k \in 1 .. i - 1 : RemoveAt(s, i)[k] = s[k]
         /\ \A k \in i .. Len(s) - 1 : RemoveAt(s, i)[k] = s[k + 1]
<1> DEFINE S == {s[k] : k \in 1 .. Len(s)}
           a == SubSeq(s, 1, i - 1)
           b == SubSeq(s, i + 1, Len(s))
<1>1. s \in Seq(S) /\ Len(s) \in Nat
  BY IsSeq
<1> HIDE DEF S
<1>2. a \in Seq(S) /\ Len(a) = i - 1 /\ \A k \in 1 .. i - 1 : a[k] = s[k]
  BY <1>1
<1>3. b \in Seq(S) /\ Len(b) = Len(s) - i /\ \A k \in 1 .. Len(s) - i : b[k] = s[k + i]
  BY <1>1
<1>4. RemoveAt(s, i) = a \o b
  BY DEF RemoveAt
<1> HIDE DEF a, b
<1>5. a \o b \in Seq(S) /\ Len(a \o b) = Len(s) - 1
  <2>1. a \o b \in Seq(S) /\ Len(a \o b) = Len(a) + Len(b)
    BY <1>2, <1>3, ConcatProperties
  <2> QED
    BY <2>1, <1>1, <1>2, <1>3
<1>6. \A k \in 1 .. i - 1 : (a \o b)[k] = s[k]
  BY <1>1, <1>2, <1>3
<1>7. ASSUME NEW k \in i .. Len(s) - 1
      PROVE  (a \o b)[k] = s[k + 1]
  <2>1. (a \o b)[k] = b[k - (i - 1)]
    BY <1>1, <1>2, <1>3
  <2>2. k - (i - 1) \in 1 .. Len(s) - i /\ (k - (i - 1)) + i = k + 1
    BY <1>1
  <2> QED
    BY <2>1, <2>2, <1>3
<1>8. IsSequence(a \o b)
  BY <1>5, SeqIs
<1> QED
  BY <1>4, <1>5, <1>6, <1>7, <1>8

----------------------------------------------------------------------------
(* Numbers and finite sets: induction, the least and the greatest.         *)

\* Of finitely many elements, any family of sets has a smallest one.
LEMMA SmallestSet ==
  ASSUME NEW S, IsFiniteSet(S), NEW J, J \subseteq SUBSET S, J # {}
  PROVE  \E I \in J : \A K \in J : ~ (<<K, I>> \in StrictSubsetOrdering(S))
<1> DEFINE R == StrictSubsetOrdering(S)
<1>1. IsWellFoundedOn(R, SUBSET S)
  BY FS_StrictSubsetOrderingWellFounded, FS_FiniteSubsetsOfFinite
<1> HIDE DEF R
<1>2. \E I \in J : \A K \in J : ~ (<<K, I>> \in R)
  BY <1>1, WFMin
<1> QED
  BY <1>2 DEF R

\* A set of numbers that is not empty has a smallest one.
LEMMA LeastNat ==
  ASSUME NEW T \in SUBSET Nat, T # {}
  PROVE  \E n \in T : \A m \in T : n <= m
<1>1. PICK t \in T : TRUE
  OBVIOUS
<1> DEFINE S == 0 .. t
           J == {0 .. m - 1 : m \in {k \in T : k <= t}}
<1>2. J \subseteq SUBSET S /\ J # {}
  <2>1. \A m \in T : m <= t => 0 .. m - 1 \subseteq S
    OBVIOUS
  <2> QED
    BY <2>1
<1>3. IsFiniteSet(S)
  BY FS_Interval
<1>4. PICK I \in J : \A K \in J : ~ (<<K, I>> \in StrictSubsetOrdering(S))
  <2> HIDE DEF S, J
  <2> QED
    BY <1>2, <1>3, SmallestSet
<1>5. PICK n \in T : n <= t /\ I = 0 .. n - 1
  OBVIOUS
<1>6. ASSUME NEW m \in T, m < n
      PROVE  FALSE
  <2>1. 0 .. m - 1 \in J
    BY <1>5, <1>6
  <2>2. <<0 .. m - 1, I>> \in StrictSubsetOrdering(S)
    BY <1>2, <1>5, <1>6, <2>1 DEF StrictSubsetOrdering
  <2> QED
    BY <2>1, <2>2, <1>4
<1> QED
  BY <1>6

\* Induction: a set that has 0, and with each number the next.
LEMMA NatSet ==
  ASSUME NEW S, 0 \in S, \A n \in Nat : n \in S => n + 1 \in S
  PROVE  Nat \subseteq S
<1> SUFFICES ASSUME Nat \ S # {}
             PROVE  FALSE
  OBVIOUS
<1>1. PICK n \in Nat \ S : \A m \in Nat \ S : n <= m
  <2> DEFINE T == Nat \ S
  <2> HIDE DEF T
  <2> QED
    BY LeastNat DEF T
<1>2. n - 1 \in Nat /\ n - 1 \in S
  BY <1>1
<1> QED
  BY <1>1, <1>2

\* What Max finds, in a finite one.
LEMMA MaxIs ==
  ASSUME NEW T \in SUBSET Nat, T # {}, IsFiniteSet(T)
  PROVE  Max(T) \in T /\ \A t \in T : t <= Max(T)
<1> DEFINE J == {{u \in T : u > t} : t \in T}
<1>1. J \subseteq SUBSET T /\ J # {}
  OBVIOUS
<1>2. PICK I \in J : \A K \in J : ~ (<<K, I>> \in StrictSubsetOrdering(T))
  <2> HIDE DEF J
  <2> QED
    BY <1>1, SmallestSet
<1>3. PICK n \in T : I = {u \in T : u > n}
  OBVIOUS
<1>4. ASSUME NEW m \in T, m > n
      PROVE  FALSE
  <2> DEFINE K == {u \in T : u > m}
  <2>1. K \in J
    OBVIOUS
  <2>2. <<K, I>> \in StrictSubsetOrdering(T)
    <3> HIDE DEF J
    <3>1. \A u \in T : u > m => u > n
      BY <1>4
    <3>2. K \subseteq I
      BY <1>3, <3>1
    <3>3. m \in I /\ m \notin K /\ K \subseteq T /\ I \subseteq T
      BY <1>3, <1>4
    <3> QED
      BY <3>2, <3>3 DEF StrictSubsetOrdering
  <2> QED
    BY <2>1, <2>2, <1>2
<1>5. \E x \in T : \A y \in T : x >= y
  BY <1>4
<1> QED
  BY <1>5, Zenon DEF Max

\* ... or in one that a number bounds.
LEMMA MaxBounded ==
  ASSUME NEW T \in SUBSET Nat, T # {}, NEW b \in Nat, \A t \in T : t <= b
  PROVE  Max(T) \in T /\ \A t \in T : t <= Max(T)
  BY FS_BoundedSetOfNaturals, MaxIs

----------------------------------------------------------------------------
(* The orders of a set.                                                    *)

\* All of S, each once.
EachOnce(S, s) ==
    /\ IsSequence(s)
    /\ \A i \in 1 .. Len(s) : s[i] \in S
    /\ \A i, j \in 1 .. Len(s) : s[i] = s[j] => i = j
    /\ \A x \in S : \E i \in 1 .. Len(s) : s[i] = x

LEMMA OrderIs ==
  ASSUME NEW S, IsFiniteSet(S), NEW s \in SetToSeqs(S)
  PROVE  EachOnce(S, s)
<1> DEFINE n == Cardinality(S)
<1>1. n \in Nat /\ IsFiniteSet(1 .. n) /\ Cardinality(1 .. n) = n
  <2>1. n \in Nat
    BY FS_CardinalityType
  <2> HIDE DEF n
  <2> QED
    BY <2>1, FS_Interval
<1>2. s \in [1 .. n -> S] /\ \A i, j \in 1 .. n : i # j => s[i] # s[j]
  BY DEF SetToSeqs
<1>3. s \in Injection(1 .. n, S)
  BY <1>2 DEF Injection, IsInjective
<1>4. s \in Surjection(1 .. n, S)
  <2>1. Cardinality(1 .. n) = Cardinality(S) <=> s \in Surjection(1 .. n, S)
    BY <1>3, FS_Injection
  <2> QED
    BY <2>1, <1>1
<1>5. \A x \in S : \E i \in 1 .. n : s[i] = x
  BY <1>4 DEF Surjection
<1> HIDE DEF n
<1>6. Len(s) = n /\ IsSequence(s)
  <2>1. s \in Seq(S) /\ Len(s) = n
    BY <1>1, <1>2
  <2> QED
    BY <2>1, SeqIs
<1> QED
  BY <1>2, <1>5, <1>6 DEF EachOnce

\* The downloads that a session starts with.
Known == {x \in saved : ~IsHttp(x.kind) \/ x.dest \notin Unsized}

LEMMA HistoryIs ==
  ASSUME IsFiniteSet(saved), NEW c \in readCurlItems, NEW t \in readTorrentItems, NEW h, h = c \o t
  PROVE  EachOnce(Known, h)
<1> DEFINE C == {x \in saved : IsHttp(x.kind) /\ x.dest \notin Unsized}
           T == {x \in saved : ~IsHttp(x.kind)}
<1>1. c \in SetToSeqs(C) /\ t \in SetToSeqs(T)
  BY Zenon DEF readCurlItems, readTorrentItems
<1>2. EachOnce(C, c) /\ EachOnce(T, t)
  <2>1. IsFiniteSet(C) /\ IsFiniteSet(T)
    BY FS_Subset
  <2> HIDE DEF C, T
  <2> QED
    BY <1>1, <2>1, OrderIs
<1>3. Known = C \cup T /\ C \cap T = {}
  BY DEF Known
<1> HIDE DEF C, T
<1>4. Len(c) \in Nat /\ Len(t) \in Nat
  BY <1>2 DEF EachOnce, IsSequence
<1> DEFINE n == Len(c)
           m == Len(t)
<1>5. /\ h \in Seq(Known) /\ Len(h) = n + m
      /\ \A i \in 1 .. n + m : h[i] = IF i <= n THEN c[i] ELSE t[i - n]
  <2>1. c \in Seq(Known) /\ t \in Seq(Known)
    BY <1>2, <1>3, InSeq DEF EachOnce
  <2> QED
    BY <2>1, <1>1, ConcatProperties, Zenon
<1> HIDE DEF n, m
<1>6. /\ \A i \in 1 .. n : i \in 1 .. n + m /\ h[i] = c[i] /\ c[i] \in C
      /\ \A i \in 1 .. m : i + n \in 1 .. n + m /\ h[i + n] = t[i] /\ t[i] \in T
      /\ \A i \in 1 .. n + m : i \in 1 .. n \/ (i - n \in 1 .. m /\ i = (i - n) + n)
  <2>1. n \in Nat /\ m \in Nat
    BY <1>4 DEF n, m
  <2>2. /\ \A i \in 1 .. n : c[i] \in C
        /\ \A i \in 1 .. m : t[i] \in T
    BY <1>2 DEF EachOnce, n, m
  <2>3. \A i \in 1 .. n : i \in 1 .. n + m /\ i <= n
    BY <2>1
  <2>4. \A i \in 1 .. m : i + n \in 1 .. n + m /\ ~(i + n <= n) /\ (i + n) - n = i
    BY <2>1
  <2>5. \A i \in 1 .. n + m : i \in 1 .. n \/ (i - n \in 1 .. m /\ i = (i - n) + n)
    BY <2>1
  <2>6. \A i \in 1 .. n : h[i] = c[i]
    BY <2>3, <1>5
  <2>7. \A i \in 1 .. m : h[i + n] = t[i]
    BY <2>4, <1>5
  <2> QED
    BY <2>2, <2>3, <2>4, <2>5, <2>6, <2>7
<1>7. \A x \in Known : \E i \in 1 .. n + m : h[i] = x
  <2>1. \A x \in C : \E i \in 1 .. n : c[i] = x
    BY <1>2 DEF EachOnce, n
  <2>2. \A x \in T : \E i \in 1 .. m : t[i] = x
    BY <1>2 DEF EachOnce, m
  <2>3. ASSUME NEW x \in C
        PROVE  \E i \in 1 .. n + m : h[i] = x
    <3>1. PICK i \in 1 .. n : c[i] = x
      BY <2>1
    <3>2. i \in 1 .. n + m /\ h[i] = x
      BY <3>1, <1>6
    <3> QED
      BY <3>2
  <2>4. ASSUME NEW x \in T
        PROVE  \E i \in 1 .. n + m : h[i] = x
    <3>1. PICK i \in 1 .. m : t[i] = x
      BY <2>2
    <3>2. i + n \in 1 .. n + m /\ h[i + n] = x
      BY <3>1, <1>6
    <3> QED
      BY <3>2
  <2> QED
    BY <2>3, <2>4, <1>3
<1>8. ASSUME NEW i \in 1 .. n + m, NEW j \in 1 .. n + m, h[i] = h[j]
      PROVE  i = j
  <2>0. i = (i - n) + n /\ j = (j - n) + n
    BY <1>4 DEF n, m
  <2>1. CASE i \in 1 .. n /\ j \in 1 .. n
    BY <2>1, <1>2, <1>6, <1>8 DEF EachOnce, n
  <2>2. CASE i - n \in 1 .. m /\ j - n \in 1 .. m
    <3>1. h[i] = t[i - n] /\ h[j] = t[j - n]
      BY <2>2, <2>0, <1>6
    <3>2. i - n = j - n
      BY <3>1, <2>2, <1>2, <1>8 DEF EachOnce, m
    <3> QED
      BY <3>2, <1>4 DEF n, m
  <2>3. ASSUME NEW p \in 1 .. n, NEW q \in 1 .. m, h[p] = h[q + n]
        PROVE  FALSE
    BY <2>3, <1>6, <1>3
  <2>4. CASE i \in 1 .. n /\ j - n \in 1 .. m
    BY <2>4, <2>3, <2>0, <1>8
  <2>5. CASE j \in 1 .. n /\ i - n \in 1 .. m
    BY <2>5, <2>3, <2>0, <1>8
  <2> QED
    BY <2>1, <2>2, <2>4, <2>5, <1>6
<1> QED
  BY <1>3, <1>5, <1>7, <1>8, SeqIs, ElementOfSeq DEF EachOnce

----------------------------------------------------------------------------
(* Loops.                                                                  *)

\* What a turn of readFromHistoryFile, or of removeRows, makes of its state.
Turn(loop, at, w, x) ==
    IF loop = "read"
    THEN insertNewRow(w.table, w.entries,
                      Row(x.id, x.dest, x.kind, convDlStat_IntToEnum(x.stat)), saved)
    ELSE IF x \in at THEN removeRow(w, x) ELSE w

\* The loop, on each of the subsequences that a fold is defined by.
Loop(loop, at, base, seq, n, R) ==
    R = [s \in SUBSET (1 .. n) |->
            IF s = {} THEN base ELSE Turn(loop, at, R[s \ {Max(s)}], seq[Max(s)])]

\* A fold is a recursive function too.
LEMMA LoopRuns ==
  ASSUME NEW loop, NEW at, NEW base, NEW seq, NEW n \in Nat
  PROVE  \E R : Loop(loop, at, base, seq, n, R)
<1> DEFINE S == {m \in Nat : \E R : Loop(loop, at, base, seq, m, R)}
<1>1. 0 \in S
  <2> DEFINE R == [s \in SUBSET (1 .. 0) |-> base]
  <2>1. \A s \in SUBSET (1 .. 0) : s = {}
    OBVIOUS
  <2>2. R = [s \in SUBSET (1 .. 0) |->
            IF s = {} THEN base ELSE Turn(loop, at, R[s \ {Max(s)}], seq[Max(s)])]
    BY <2>1
  <2> HIDE DEF R
  <2> QED
    BY <2>2 DEF Loop
<1>2. ASSUME NEW m \in Nat, m \in S
      PROVE  m + 1 \in S
  <2>1. PICK R : Loop(loop, at, base, seq, m, R)
    BY <1>2
  <2>2. R = [s \in SUBSET (1 .. m) |->
               IF s = {} THEN base ELSE Turn(loop, at, R[s \ {Max(s)}], seq[Max(s)])]
    BY <2>1 DEF Loop
  <2> DEFINE Q == [s \in SUBSET (1 .. m + 1) |->
                     IF m + 1 \in s THEN Turn(loop, at, R[s \ {m + 1}], seq[m + 1]) ELSE R[s]]
  <2>3. ASSUME NEW s \in SUBSET (1 .. m + 1)
        PROVE  Q[s] = IF s = {} THEN base ELSE Turn(loop, at, Q[s \ {Max(s)}], seq[Max(s)])
    <3>1. CASE s = {}
      <4>1. Q[s] = R[{}] /\ {} \in SUBSET (1 .. m)
        BY <3>1
      <4> HIDE DEF Q
      <4> QED
        BY <4>1, <2>2, <3>1
    <3>2. CASE s # {}
      <4>1. Max(s) \in s /\ \A t \in s : t <= Max(s)
        <5>1. m + 1 \in Nat /\ s \in SUBSET Nat /\ \A t \in s : t <= m + 1
          OBVIOUS
        <5> QED
          BY <5>1, <3>2, MaxBounded
      <4> DEFINE x == Max(s)
      <4> HIDE DEF x
      <4>2. x \in s /\ x \in 1 .. m + 1 /\ \A t \in s : t <= x
        BY <4>1 DEF x
      <4>3. s \ {x} \in SUBSET (1 .. m)
        <5>1. \A t \in s \ {x} : t \in 1 .. m + 1 /\ t <= x /\ t # x
          BY <4>2
        <5> QED
          BY <5>1, <4>2
      <4>4. Q[s \ {x}] = R[s \ {x}]
        <5>1. m + 1 \notin s \ {x} /\ s \ {x} \in SUBSET (1 .. m + 1)
          BY <4>3
        <5> QED
          BY <5>1
      <4>5. CASE m + 1 \in s
        <5>1. x = m + 1
          BY <4>5, <4>2
        <5>2. Q[s] = Turn(loop, at, R[s \ {x}], seq[x])
          BY <4>5, <5>1
        <5> HIDE DEF Q
        <5> QED
          BY <5>2, <4>4, <3>2 DEF x
      <4>6. CASE m + 1 \notin s
        <5>1. s \in SUBSET (1 .. m)
          BY <4>6
        <5>2. R[s] = Turn(loop, at, R[s \ {x}], seq[x])
          BY <5>1, <2>2, <3>2 DEF x
        <5>3. Q[s] = R[s]
          BY <4>6
        <5> HIDE DEF Q
        <5> QED
          BY <5>2, <5>3, <4>4, <3>2 DEF x
      <4> QED
        BY <4>5, <4>6
    <3> QED
      BY <3>1, <3>2
  <2>4. Q = [s \in SUBSET (1 .. m + 1) |-> Q[s]]
    OBVIOUS
  <2> HIDE DEF Q
  <2>5. Q = [s \in SUBSET (1 .. m + 1) |->
              IF s = {} THEN base ELSE Turn(loop, at, Q[s \ {Max(s)}], seq[Max(s)])]
    BY <2>3, <2>4
  <2>6. Loop(loop, at, base, seq, m + 1, Q)
    BY <2>5, Zenon DEF Loop
  <2> QED
    BY <2>6
<1>3. Nat \subseteq S
  <2> HIDE DEF S
  <2> QED
    BY <1>1, <1>2, NatSet
<1> QED
  BY <1>3

\* One turn after the other.
Turns(loop, at, base, seq, n, run) ==
    /\ run[0] = base
    /\ \A i \in 1 .. n : run[i] = Turn(loop, at, run[i - 1], seq[i])

LEMMA LoopTurns ==
  ASSUME NEW loop, NEW at, NEW base, NEW seq, NEW n \in Nat, NEW R,
         Loop(loop, at, base, seq, n, R)
  PROVE  \E run : Turns(loop, at, base, seq, n, run) /\ run[n] = R[1 .. n]
<1> DEFINE run == [i \in 0 .. n |-> R[1 .. i]]
<1>4. R = [s \in SUBSET (1 .. n) |->
             IF s = {} THEN base ELSE Turn(loop, at, R[s \ {Max(s)}], seq[Max(s)])]
  BY DEF Loop
<1>5. run[0] = base
  <2>1. 1 .. 0 = {} /\ 0 \in 0 .. n
    OBVIOUS
  <2>2. R[{}] = base
    BY <1>4
  <2> QED
    BY <2>1, <2>2
<1>6. ASSUME NEW i \in 1 .. n
      PROVE  run[i] = Turn(loop, at, run[i - 1], seq[i])
  <2>1. 1 .. i \in SUBSET (1 .. n) /\ 1 .. i # {} /\ i \in 0 .. n /\ i - 1 \in 0 .. n
    <3>1. i \in 1 .. i /\ \A t \in 1 .. i : t \in 1 .. n
      OBVIOUS
    <3>2. i \in Nat /\ i - 1 \in Nat /\ i <= n
      OBVIOUS
    <3>3. i \in 0 .. n /\ i - 1 \in 0 .. n
      BY <3>2
    <3> QED
      BY <3>1, <3>3
  <2>2. Max(1 .. i) = i
    <3>1. 1 .. i \in SUBSET Nat /\ i \in Nat /\ i \in 1 .. i /\ \A t \in 1 .. i : t <= i
      OBVIOUS
    <3>2. Max(1 .. i) \in 1 .. i /\ i <= Max(1 .. i)
      BY <3>1, MaxBounded
    <3> QED
      BY <3>2
  <2>3. (1 .. i) \ {i} = 1 .. i - 1
    OBVIOUS
  <2>4. R[1 .. i] = Turn(loop, at, R[(1 .. i) \ {Max(1 .. i)}], seq[Max(1 .. i)])
    BY <2>1, <1>4
  <2>5. run[i] = R[1 .. i] /\ run[i - 1] = R[1 .. i - 1]
    BY <2>1
  <2> QED
    BY <2>2, <2>3, <2>4, <2>5
<1>7. run[n] = R[1 .. n]
  OBVIOUS
<1> HIDE DEF run
<1> QED
  BY <1>5, <1>6, <1>7 DEF Turns

LEMMA ReadTurns ==
  ASSUME NEW h, IsSequence(h)
  PROVE  \E run : /\ Turns("read", {}, [table |-> <<>>, entries |-> <<>>], h, Len(h), run)
                  /\ readFromHistoryFile(h) = run[Len(h)]
<1> DEFINE n == Len(h)
           base == [table |-> <<>>, entries |-> <<>>]
<1>1. n \in Nat /\ DOMAIN h = 1 .. n
  BY IsSeq
<1>2. \E R : /\ R = CHOOSE Q : Q = [s \in SUBSET (DOMAIN h) |->
                        IF s = {} THEN base
                        ELSE insertNewRow(Q[s \ {Max(s)}].table, Q[s \ {Max(s)}].entries,
                                Row(h[Max(s)].id, h[Max(s)].dest, h[Max(s)].kind,
                                    convDlStat_IntToEnum(h[Max(s)].stat)), saved)]
             /\ readFromHistoryFile(h) = R[DOMAIN h]
  BY Zenon DEF readFromHistoryFile, FoldLeft, MapThenFoldSet
<1> HIDE DEF n, base
<1>3. \A w, x : Turn("read", {}, w, x)
                  = insertNewRow(w.table, w.entries,
                       Row(x.id, x.dest, x.kind, convDlStat_IntToEnum(x.stat)), saved)
  BY Zenon DEF Turn
<1> DEFINE G(Q) == [s \in SUBSET (1 .. n) |->
                        IF s = {} THEN base
                        ELSE insertNewRow(Q[s \ {Max(s)}].table, Q[s \ {Max(s)}].entries,
                                Row(h[Max(s)].id, h[Max(s)].dest, h[Max(s)].kind,
                                    convDlStat_IntToEnum(h[Max(s)].stat)), saved)]
           T(Q) == [s \in SUBSET (1 .. n) |->
                        IF s = {} THEN base
                        ELSE Turn("read", {}, Q[s \ {Max(s)}], h[Max(s)])]
<1>4. ASSUME NEW Q
      PROVE  G(Q) = T(Q)
  BY <1>3
<1>5. PICK R : R = (CHOOSE Q : Q = G(Q)) /\ readFromHistoryFile(h) = R[1 .. n]
  BY <1>1, <1>2
<1>6. PICK Q : Q = T(Q)
  <2>1. \E Q : Loop("read", {}, base, h, n, Q)
    BY <1>1, LoopRuns
  <2> QED
    BY <2>1, Zenon DEF Loop
<1>7. R = T(R)
  <2> HIDE DEF G, T
  <2>1. Q = G(Q)
    BY <1>4, <1>6
  <2>2. R = G(R)
    BY <2>1, <1>5, Zenon
  <2> QED
    BY <2>2, <1>4
<1>8. Loop("read", {}, base, h, n, R)
  BY <1>7, Zenon DEF Loop
<1> HIDE DEF T, G
<1>9. \E run : Turns("read", {}, base, h, n, run) /\ run[n] = R[1 .. n]
  BY <1>1, <1>8, LoopTurns
<1> QED
  BY <1>5, <1>9 DEF n, base

LEMMA RemoveTurns ==
  ASSUME NEW t, IsSequence(t), NEW at
  PROVE  \E run : /\ Turns("remove", at, t, [k \in DOMAIN t |-> Len(t) + 1 - k], Len(t), run)
                  /\ removeRows(t, at) = run[Len(t)]
<1> DEFINE n == Len(t)
           h == [k \in DOMAIN t |-> Len(t) + 1 - k]
<1>1. n \in Nat /\ DOMAIN h = 1 .. n
  BY IsSeq
<1>2. \E R : /\ R = CHOOSE Q : Q = [s \in SUBSET (DOMAIN h) |->
                        IF s = {} THEN t
                        ELSE IF h[Max(s)] \in at THEN removeRow(Q[s \ {Max(s)}], h[Max(s)])
                             ELSE Q[s \ {Max(s)}]]
             /\ removeRows(t, at) = R[DOMAIN h]
  BY Zenon DEF removeRows, FoldLeft, MapThenFoldSet
<1> HIDE DEF n, h
<1>3. \A w, x : Turn("remove", at, w, x) = IF x \in at THEN removeRow(w, x) ELSE w
  BY Zenon DEF Turn
<1> DEFINE G(Q) == [s \in SUBSET (1 .. n) |->
                        IF s = {} THEN t
                        ELSE IF h[Max(s)] \in at THEN removeRow(Q[s \ {Max(s)}], h[Max(s)])
                             ELSE Q[s \ {Max(s)}]]
           T(Q) == [s \in SUBSET (1 .. n) |->
                        IF s = {} THEN t
                        ELSE Turn("remove", at, Q[s \ {Max(s)}], h[Max(s)])]
<1>4. ASSUME NEW Q
      PROVE  G(Q) = T(Q)
  BY <1>3
<1>5. PICK R : R = (CHOOSE Q : Q = G(Q)) /\ removeRows(t, at) = R[1 .. n]
  BY <1>1, <1>2
<1>6. PICK Q : Q = T(Q)
  <2>1. \E Q : Loop("remove", at, t, h, n, Q)
    BY <1>1, LoopRuns
  <2> QED
    BY <2>1, Zenon DEF Loop
<1>7. R = T(R)
  <2> HIDE DEF G, T
  <2>1. Q = G(Q)
    BY <1>4, <1>6
  <2>2. R = G(R)
    BY <2>1, <1>5, Zenon
  <2> QED
    BY <2>2, <1>4
<1>8. Loop("remove", at, t, h, n, R)
  BY <1>7, Zenon DEF Loop
<1> HIDE DEF T, G
<1>9. \E run : Turns("remove", at, t, h, n, run) /\ run[n] = R[1 .. n]
  BY <1>1, <1>8, LoopTurns
<1> QED
  BY <1>5, <1>9 DEF n, h

----------------------------------------------------------------------------
(* What the loops make of the table and the cache.                         *)

\* What initCharts adds to the cache.
Charted(r, db) == [id |-> r.id, dest |-> r.dest, kind |-> r.kind, samples |-> 1,
                   info |-> {x.hash : x \in {y \in db : y.id = r.id}}]

LEMMA InsertIs ==
  \A table, entries, r, db :
     /\ insertNewRow(table, entries, r, db).table = <<r>> \o table
     /\ insertNewRow(table, entries, r, db).entries = Append(entries, Charted(r, db))
  BY Zenon DEF insertNewRow, insertRow, initCharts, Charted

LEMMA Inserted ==
  ASSUME NEW w, NEW r, NEW new, new = insertNewRow(w.table, w.entries, r, saved)
  PROVE  new.table = <<r>> \o w.table /\ new.entries = Append(w.entries, Charted(r, saved))
<1>1. new.table = <<r>> \o w.table
  BY InsertIs
<1>2. new.entries = Append(w.entries, Charted(r, saved))
  BY InsertIs
<1> QED
  BY <1>1, <1>2

RowFor(x) == Row(x.id, x.dest, x.kind, convDlStat_IntToEnum(x.stat))

\* The table and the cache after n items.
Read(h, n, w) ==
    /\ IsSequence(w.table) /\ Len(w.table) = n
    /\ \A k \in 1 .. n : w.table[k] = RowFor(h[n + 1 - k])
    /\ IsSequence(w.entries) /\ Len(w.entries) = n
    /\ \A k \in 1 .. n : w.entries[k] = Charted(RowFor(h[k]), saved)

LEMMA ReadIs ==
  ASSUME NEW h, IsSequence(h)
  PROVE  Read(h, Len(h), readFromHistoryFile(h))
<1> DEFINE n == Len(h)
           base == [table |-> <<>>, entries |-> <<>>]
<1>1. PICK run : /\ Turns("read", {}, base, h, n, run)
                 /\ readFromHistoryFile(h) = run[n]
  BY ReadTurns
<1>2. n \in Nat
  BY IsSeq
<1>3. run[0] = base /\ \A i \in 1 .. n : run[i] = Turn("read", {}, run[i - 1], h[i])
  BY <1>1 DEF Turns
<1> HIDE DEF n
<1> DEFINE S == {m \in Nat : m <= n => Read(h, m, run[m])}
<1>4. 0 \in S
  <2>1. base.table = <<>> /\ base.entries = <<>>
    OBVIOUS
  <2>2. IsSequence(<<>>) /\ Len(<<>>) = 0
    BY DEF IsSequence
  <2> HIDE DEF base
  <2>3. Read(h, 0, base)
    BY <2>1, <2>2 DEF Read
  <2> QED
    BY <2>3, <1>3
<1>5. ASSUME NEW m \in Nat, m \in S
      PROVE  m + 1 \in S
  <2> SUFFICES ASSUME m + 1 <= n
               PROVE  Read(h, m + 1, run[m + 1])
    OBVIOUS
  <2>1. Read(h, m, run[m])
    BY <1>5, <1>2
  <2> DEFINE w == run[m]
             r == RowFor(h[m + 1])
             new == run[m + 1]
  <2>2. new = Turn("read", {}, w, h[m + 1])
    <3>1. m + 1 \in 1 .. n /\ (m + 1) - 1 = m
      BY <1>2
    <3> QED
      BY <3>1, <1>3
  <2>3. new = insertNewRow(w.table, w.entries, r, saved)
    BY <2>2, Zenon DEF Turn, RowFor
  <2>4. new.table = <<r>> \o w.table /\ new.entries = Append(w.entries, Charted(r, saved))
    BY <2>3, Inserted
  <2> HIDE DEF new, w, r
  <2>5. /\ IsSequence(w.table) /\ Len(w.table) = m
        /\ \A k \in 1 .. m : w.table[k] = RowFor(h[m + 1 - k])
        /\ IsSequence(w.entries) /\ Len(w.entries) = m
        /\ \A k \in 1 .. m : w.entries[k] = Charted(RowFor(h[k]), saved)
    BY <2>1 DEF Read, w
  <2>6. /\ IsSequence(new.table) /\ Len(new.table) = m + 1
        /\ new.table[1] = r /\ \A k \in 2 .. m + 1 : new.table[k] = w.table[k - 1]
    <3>1. /\ IsSequence(<<r>> \o w.table) /\ Len(<<r>> \o w.table) = Len(w.table) + 1
          /\ (<<r>> \o w.table)[1] = r
          /\ \A i \in 2 .. Len(w.table) + 1 : (<<r>> \o w.table)[i] = w.table[i - 1]
      BY <2>5, OnTop
    <3> QED
      BY <3>1, <2>4, <2>5
  <2>7. ASSUME NEW k \in 1 .. m + 1
        PROVE  new.table[k] = RowFor(h[(m + 1) + 1 - k])
    <3>1. CASE k = 1
      <4>1. (m + 1) + 1 - k = m + 1
        BY <3>1
      <4> QED
        BY <4>1, <3>1, <2>6 DEF r
    <3>2. CASE k # 1
      <4>1. k \in 2 .. m + 1 /\ k - 1 \in 1 .. m /\ m + 1 - (k - 1) = (m + 1) + 1 - k
        BY <3>2
      <4> QED
        BY <4>1, <2>5, <2>6
    <3> QED
      BY <3>1, <3>2
  <2>8. /\ IsSequence(new.entries) /\ Len(new.entries) = m + 1
        /\ new.entries[m + 1] = Charted(r, saved)
        /\ \A k \in 1 .. m : new.entries[k] = w.entries[k]
    BY <2>4, <2>5, AtEnd
  <2>9. ASSUME NEW k \in 1 .. m + 1
        PROVE  new.entries[k] = Charted(RowFor(h[k]), saved)
    <3>1. k = m + 1 \/ k \in 1 .. m
      OBVIOUS
    <3> QED
      BY <3>1, <2>8, <2>5 DEF r
  <2>10. Read(h, m + 1, new)
    BY <2>6, <2>7, <2>8, <2>9 DEF Read
  <2> QED
    BY <2>10 DEF new
<1>6. Nat \subseteq S
  <2> HIDE DEF S
  <2> QED
    BY <1>4, <1>5, NatSet
<1>7. Read(h, n, run[n])
  BY <1>6, <1>2
<1> QED
  BY <1>1, <1>7 DEF n

\* s is what is left of t at these positions, in some order.
Left(s, t, keep) ==
    /\ IsSequence(s)
    /\ \E f \in [1 .. Len(s) -> 1 .. Len(t)] :
          /\ \A k \in 1 .. Len(s) : s[k] = t[f[k]] /\ f[k] \in keep
          /\ \A k, l \in 1 .. Len(s) : f[k] = f[l] => k = l
          /\ \A p \in keep : \E k \in 1 .. Len(s) : f[k] = p

LEMMA RemoveAtLeaves ==
  ASSUME NEW t, IsSequence(t), NEW i \in 1 .. Len(t)
  PROVE  Left(RemoveAt(t, i), t, (1 .. Len(t)) \ {i})
<1> DEFINE n == Len(t)
           s == RemoveAt(t, i)
           f == [k \in 1 .. n - 1 |-> IF k < i THEN k ELSE k + 1]
<1>1. n \in Nat
  BY IsSeq
<1>2. /\ IsSequence(s) /\ Len(s) = n - 1
      /\ \A k \in 1 .. i - 1 : s[k] = t[k]
      /\ \A k \in i .. n - 1 : s[k] = t[k + 1]
  BY TakenOut
<1> HIDE DEF s, n
<1>3. i \in 1 .. n
  BY DEF n
<1>4. ASSUME NEW k \in 1 .. n - 1
      PROVE  f[k] \in (1 .. n) \ {i} /\ s[k] = t[f[k]]
  <2>1. CASE k < i
    <3>1. f[k] = k /\ k \in 1 .. i - 1 /\ k \in (1 .. n) \ {i}
      BY <2>1, <1>1, <1>3
    <3> QED
      BY <3>1, <1>2
  <2>2. CASE ~(k < i)
    <3>1. f[k] = k + 1 /\ k \in i .. n - 1 /\ k + 1 \in (1 .. n) \ {i}
      BY <2>2, <1>1, <1>3
    <3> QED
      BY <3>1, <1>2
  <2> QED
    BY <2>1, <2>2
<1>5. \A k, l \in 1 .. n - 1 : f[k] = f[l] => k = l
  BY <1>1, <1>3
<1>6. ASSUME NEW p \in (1 .. n) \ {i}
      PROVE  \E k \in 1 .. n - 1 : f[k] = p
  <2>1. CASE p < i
    <3>1. p \in 1 .. n - 1 /\ f[p] = p
      BY <2>1, <1>1, <1>3
    <3> QED
      BY <3>1
  <2>2. CASE ~(p < i)
    <3>1. p - 1 \in 1 .. n - 1 /\ ~(p - 1 < i) /\ (p - 1) + 1 = p
      BY <2>2, <1>1, <1>3
    <3>2. f[p - 1] = p
      BY <3>1
    <3> QED
      BY <3>1, <3>2
  <2> QED
    BY <2>1, <2>2
<1>7. f \in [1 .. n - 1 -> 1 .. n]
  BY <1>1, <1>3
<1> HIDE DEF f
<1>8. Left(s, t, (1 .. n) \ {i})
  <2>1. Len(t) = n
    BY DEF n
  <2>2. f \in [1 .. Len(s) -> 1 .. Len(t)]
    BY <1>2, <1>7, <2>1
  <2>3. /\ \A k \in 1 .. Len(s) : s[k] = t[f[k]] /\ f[k] \in (1 .. n) \ {i}
        /\ \A k, l \in 1 .. Len(s) : f[k] = f[l] => k = l
        /\ \A p \in (1 .. n) \ {i} : \E k \in 1 .. Len(s) : f[k] = p
    BY <1>2, <1>4, <1>5, <1>6
  <2> QED
    BY <1>2, <2>2, <2>3 DEF Left
<1> QED
  BY <1>8 DEF s, n

\* The last i positions have been looked at, and those before them are in place.
Sifted(t, at, i, s) ==
    /\ IsSequence(s) /\ Len(t) - i <= Len(s)
    /\ \E f \in [1 .. Len(s) -> 1 .. Len(t)] :
          /\ \A k \in 1 .. Len(s) : s[k] = t[f[k]] /\ (f[k] <= Len(t) - i \/ f[k] \notin at)
          /\ \A k, l \in 1 .. Len(s) : f[k] = f[l] => k = l
          /\ \A p \in 1 .. Len(t) : p <= Len(t) - i \/ p \notin at => \E k \in 1 .. Len(s) : f[k] = p
          /\ \A k \in 1 .. Len(t) - i : f[k] = k

LEMMA Sifting ==
  ASSUME NEW t, IsSequence(t), NEW at, NEW i \in Nat, i + 1 <= Len(t), NEW s,
         Sifted(t, at, i, s), NEW new,
         new = IF Len(t) - i \in at THEN RemoveAt(s, Len(t) - i) ELSE s
  PROVE  Sifted(t, at, i + 1, new)
<1> DEFINE n == Len(t)
           p == n - i
           m == Len(s)
<1>1. n \in Nat /\ m \in Nat /\ IsSequence(s)
  BY IsSeq DEF Sifted
<1>2. PICK f \in [1 .. m -> 1 .. n] :
          /\ \A k \in 1 .. m : s[k] = t[f[k]] /\ (f[k] <= p \/ f[k] \notin at)
          /\ \A k, l \in 1 .. m : f[k] = f[l] => k = l
          /\ \A q \in 1 .. n : q <= p \/ q \notin at => \E k \in 1 .. m : f[k] = q
          /\ \A k \in 1 .. p : f[k] = k
  BY DEF Sifted
<1>3. p <= m /\ i + 1 <= n
  BY DEF Sifted
<1> HIDE DEF n, m
<1>4. p \in 1 .. n /\ p \in 1 .. m /\ f[p] = p
  <2>1. p \in 1 .. n /\ p \in 1 .. m /\ p \in 1 .. p
    BY <1>1, <1>3
  <2> QED
    BY <2>1, <1>2
<1>5. n - (i + 1) = p - 1
  BY <1>1
<1> HIDE DEF p
<1>6. CASE p \notin at
  <2>1. new = s
    BY <1>6 DEF p, n
  <2>2. \A q \in 1 .. n : q <= p - 1 \/ q \notin at => q <= p \/ q \notin at
    BY <1>4
  <2>3. \A k \in 1 .. p - 1 : k \in 1 .. p
    BY <1>4
  <2>4. ASSUME NEW k \in 1 .. m
        PROVE  f[k] <= p - 1 \/ f[k] \notin at
    <3>1. f[k] \in 1 .. n /\ (f[k] <= p \/ f[k] \notin at)
      BY <1>2
    <3> QED
      BY <3>1, <1>4, <1>6
  <2>5. /\ n - (i + 1) <= m
        /\ f \in [1 .. m -> 1 .. n]
        /\ \A k \in 1 .. m : s[k] = t[f[k]] /\ (f[k] <= p - 1 \/ f[k] \notin at)
        /\ \A k, l \in 1 .. m : f[k] = f[l] => k = l
        /\ \A q \in 1 .. n : q <= p - 1 \/ q \notin at => \E k \in 1 .. m : f[k] = q
        /\ \A k \in 1 .. p - 1 : f[k] = k
    BY <2>2, <2>3, <2>4, <1>1, <1>2, <1>3, <1>4, <1>5
  <2>6. Sifted(t, at, i + 1, s)
    BY <2>5, <1>1, <1>5 DEF Sifted, n, m
  <2> QED
    BY <2>1, <2>6
<1>7. CASE p \in at
  <2>1. new = RemoveAt(s, p)
    BY <1>7 DEF p, n
  <2>2. /\ IsSequence(new) /\ Len(new) = m - 1
        /\ \A k \in 1 .. p - 1 : new[k] = s[k]
        /\ \A k \in p .. m - 1 : new[k] = s[k + 1]
    BY <2>1, <1>1, <1>4, TakenOut DEF m
  <2> DEFINE old(k) == IF k < p THEN k ELSE k + 1
             g == [k \in 1 .. m - 1 |-> f[old(k)]]
  <2>3. ASSUME NEW k \in 1 .. m - 1
        PROVE  old(k) \in 1 .. m /\ old(k) # p /\ new[k] = s[old(k)]
    <3>1. CASE k < p
      <4>1. k \in 1 .. p - 1 /\ k \in 1 .. m /\ k # p
        BY <3>1, <1>1, <1>4
      <4> QED
        BY <4>1, <3>1, <2>2
    <3>2. CASE ~(k < p)
      <4>1. k \in p .. m - 1 /\ k + 1 \in 1 .. m /\ k + 1 # p
        BY <3>2, <1>1, <1>4
      <4> QED
        BY <4>1, <3>2, <2>2
    <3> QED
      BY <3>1, <3>2
  <2>4. \A k, l \in 1 .. m - 1 : old(k) = old(l) => k = l
    BY <1>1, <1>4
  <2>5. ASSUME NEW q \in 1 .. m, q # p
        PROVE  \E k \in 1 .. m - 1 : old(k) = q
    <3>1. CASE q < p
      <4>1. q \in 1 .. m - 1 /\ old(q) = q
        BY <3>1, <1>1, <1>4
      <4> QED
        BY <4>1
    <3>2. CASE ~(q < p)
      <4>1. q - 1 \in 1 .. m - 1 /\ ~(q - 1 < p) /\ (q - 1) + 1 = q
        BY <3>2, <2>5, <1>1, <1>4
      <4>2. old(q - 1) = q
        BY <4>1
      <4> QED
        BY <4>1, <4>2
    <3> QED
      BY <3>1, <3>2
  <2>6. \A k \in 1 .. p - 1 : old(k) = k /\ k \in 1 .. m - 1 /\ k \in 1 .. p
    BY <1>1, <1>4
  <2> HIDE DEF old
  <2>7. g \in [1 .. m - 1 -> 1 .. n] /\ \A k \in 1 .. m - 1 : g[k] = f[old(k)]
    BY <2>3, <1>2
  <2> HIDE DEF g
  <2>8. ASSUME NEW k \in 1 .. m - 1
        PROVE  new[k] = t[g[k]] /\ (g[k] <= p - 1 \/ g[k] \notin at)
    <3>1. new[k] = t[g[k]]
      BY <2>3, <2>7, <1>2
    <3>2. g[k] # p
      BY <2>3, <2>7, <1>2, <1>4
    <3>3. g[k] \in 1 .. n /\ (g[k] <= p \/ g[k] \notin at)
      BY <2>3, <2>7, <1>2
    <3> QED
      BY <3>1, <3>2, <3>3, <1>4
  <2>9. \A k, l \in 1 .. m - 1 : g[k] = g[l] => k = l
    BY <2>3, <2>4, <2>7, <1>2
  <2>10. ASSUME NEW q \in 1 .. n, q <= p - 1 \/ q \notin at
         PROVE  \E k \in 1 .. m - 1 : g[k] = q
    <3>1. q # p /\ (q <= p \/ q \notin at)
      BY <2>10, <1>4, <1>7
    <3>2. PICK l \in 1 .. m : f[l] = q
      BY <3>1, <1>2
    <3>3. l # p
      BY <3>1, <3>2, <1>4
    <3>4. PICK k \in 1 .. m - 1 : old(k) = l
      BY <2>5, <3>3
    <3> QED
      BY <3>2, <3>4, <2>7
  <2>11. \A k \in 1 .. p - 1 : g[k] = k
    BY <2>6, <2>7, <1>2
  <2>12. n - (i + 1) <= m - 1
    BY <1>1, <1>4, <1>5
  <2>13. g \in [1 .. Len(new) -> 1 .. Len(t)]
    BY <2>2, <2>7 DEF n
  <2>14. Len(t) = n
    BY DEF n
  <2>15. /\ IsSequence(new) /\ Len(t) - (i + 1) <= Len(new)
         /\ \A k \in 1 .. Len(new) :
               new[k] = t[g[k]] /\ (g[k] <= Len(t) - (i + 1) \/ g[k] \notin at)
         /\ \A k, l \in 1 .. Len(new) : g[k] = g[l] => k = l
         /\ \A q \in 1 .. Len(t) : q <= Len(t) - (i + 1) \/ q \notin at
               => \E k \in 1 .. Len(new) : g[k] = q
         /\ \A k \in 1 .. Len(t) - (i + 1) : g[k] = k
    BY ONLY <2>2, <2>8, <2>9, <2>10, <2>11, <2>12, <2>14, <1>5
  <2> QED
    BY ONLY <2>13, <2>15 DEF Sifted
<1> QED
  BY <1>6, <1>7

LEMMA RemoveRowsLeaves ==
  ASSUME NEW t, IsSequence(t), NEW at
  PROVE  Left(removeRows(t, at), t, (1 .. Len(t)) \ at)
<1> DEFINE n == Len(t)
           h == [k \in DOMAIN t |-> Len(t) + 1 - k]
<1>1. PICK run : /\ Turns("remove", at, t, h, n, run)
                 /\ removeRows(t, at) = run[n]
  BY RemoveTurns
<1>2. n \in Nat /\ \A k \in 1 .. n : h[k] = n + 1 - k
  BY IsSeq
<1>3. run[0] = t /\ \A k \in 1 .. n : run[k] = Turn("remove", at, run[k - 1], h[k])
  BY <1>1 DEF Turns
<1> HIDE DEF h
<1> DEFINE S == {m \in Nat : m <= n => Sifted(t, at, m, run[m])}
<1>4. 0 \in S
  <2> DEFINE f == [k \in 1 .. n |-> k]
  <2>1. f \in [1 .. n -> 1 .. n]
    OBVIOUS
  <2>2. \A k \in 1 .. n : f[k] = k /\ k <= n
    BY <1>2
  <2> HIDE DEF f
  <2>3. /\ \A k \in 1 .. n : t[k] = t[f[k]] /\ (f[k] <= n - 0 \/ f[k] \notin at)
        /\ \A k, l \in 1 .. n : f[k] = f[l] => k = l
        /\ \A p \in 1 .. n : p <= n - 0 \/ p \notin at => \E k \in 1 .. n : f[k] = p
        /\ \A k \in 1 .. n - 0 : f[k] = k
        /\ n - 0 <= n
    BY <2>2, <1>2
  <2>4. Sifted(t, at, 0, t)
    BY <2>1, <2>3 DEF Sifted
  <2> QED
    BY <2>4, <1>3
<1>5. ASSUME NEW m \in Nat, m \in S
      PROVE  m + 1 \in S
  <2> SUFFICES ASSUME m + 1 <= n
               PROVE  Sifted(t, at, m + 1, run[m + 1])
    OBVIOUS
  <2>1. Sifted(t, at, m, run[m])
    BY <1>5, <1>2
  <2>2. m + 1 \in 1 .. n /\ (m + 1) - 1 = m /\ n + 1 - (m + 1) = n - m
    BY <1>2
  <2>3. run[m + 1] = Turn("remove", at, run[m], n - m)
    BY <2>2, <1>2, <1>3
  <2>4. run[m + 1] = IF n - m \in at THEN RemoveAt(run[m], n - m) ELSE run[m]
    BY <2>3, Zenon DEF Turn, removeRow
  <2> QED
    BY <2>1, <2>4, Sifting
<1>6. Nat \subseteq S
  <2> HIDE DEF S
  <2> QED
    BY <1>4, <1>5, NatSet
<1>7. Sifted(t, at, n, run[n])
  BY <1>6, <1>2
<1> DEFINE s == run[n]
<1>8. PICK f \in [1 .. Len(s) -> 1 .. n] :
          /\ \A k \in 1 .. Len(s) : s[k] = t[f[k]] /\ (f[k] <= n - n \/ f[k] \notin at)
          /\ \A k, l \in 1 .. Len(s) : f[k] = f[l] => k = l
          /\ \A p \in 1 .. n : p <= n - n \/ p \notin at => \E k \in 1 .. Len(s) : f[k] = p
  BY <1>7 DEF Sifted
<1> HIDE DEF s
<1>9. \A k \in 1 .. Len(s) : f[k] \in (1 .. n) \ at
  <2>1. \A q \in 1 .. n : ~(q <= n - n)
    BY <1>2
  <2> QED
    BY <1>8, <2>1
<1>10. Left(s, t, (1 .. n) \ at)
  <2>1. IsSequence(s)
    BY <1>7 DEF Sifted, s
  <2> QED
    BY <2>1, <1>8, <1>9 DEF Left
<1> QED
  BY <1>1, <1>10 DEF s

----------------------------------------------------------------------------
(* Steps that leave the table its rows: only what they show changes.       *)

SameRows ==
    /\ IsSequence(rows') /\ DOMAIN rows' = DOMAIN rows
    /\ \A i \in DOMAIN rows : /\ IsRow(rows'[i]) /\ rows'[i].id = rows[i].id
                              /\ rows'[i].dest = rows[i].dest /\ rows'[i].kind = rows[i].kind

SameEntries ==
    /\ IsSequence(cache') /\ DOMAIN cache' = DOMAIN cache
    /\ \A j \in DOMAIN cache :
          /\ IsEntry(cache'[j]) /\ cache'[j].id = cache[j].id
          /\ cache'[j].dest = cache[j].dest /\ cache'[j].kind = cache[j].kind
          /\ cache'[j].samples \in {1, 2}

LEMMA SameKeeps ==
  ASSUME RowsWell, CacheWell, Paired, OneRow, SameRows, SameEntries, made' = made,
         cleared' = cleared
  PROVE  RowsWell' /\ CacheWell' /\ Paired' /\ OneRow'
<1>1. RowsWell'
  <2>1. \A i \in DOMAIN rows' : OwnKind(rows'[i])
    BY DEF RowsWell, SameRows, OwnKind
  <2>2. \A i \in DOMAIN rows' : IsRow(rows'[i]) /\ rows'[i].id \in 1 .. made'
    BY DEF RowsWell, SameRows
  <2>3. \A i, k \in DOMAIN rows' : rows'[i].id = rows'[k].id => i = k
    BY DEF RowsWell, SameRows
  <2>4. IsSequence(rows')
    BY DEF SameRows
  <2>5. (\A i \in DOMAIN rows : IsRow(rows[i]) /\ rows[i].id \in 1 .. made /\ OwnKind(rows[i]))'
    BY <2>1, <2>2 DEF OwnKind, IsRow
  <2> QED
    BY <2>3, <2>4, <2>5 DEF RowsWell, IsSequence
<1>2. CacheWell'
  <2>1. \A j \in DOMAIN cache' : OwnKind(cache'[j])
    BY DEF CacheWell, SameEntries, OwnKind
  <2>2. \A j \in DOMAIN cache' : /\ IsEntry(cache'[j]) /\ cache'[j].id \in 1 .. made'
                                 /\ cache'[j].samples \in {1, 2}
    BY DEF CacheWell, SameEntries
  <2>3. \A j, k \in DOMAIN cache' : cache'[j].id = cache'[k].id => j = k
    BY DEF CacheWell, SameEntries
  <2>4. IsSequence(cache')
    BY DEF SameEntries
  <2>5. (\A j \in DOMAIN cache : /\ IsEntry(cache[j]) /\ cache[j].id \in 1 .. made
                                 /\ OwnKind(cache[j]) /\ cache[j].samples \in {1, 2})'
    BY <2>1, <2>2 DEF OwnKind, IsEntry
  <2> QED
    BY <2>3, <2>4, <2>5 DEF CacheWell, IsSequence
<1>3. Paired'
  BY DEF Paired, SameRows, SameEntries
<1>4. OneRow'
  BY DEF OneRow, SameRows
<1> QED
  BY <1>1, <1>2, <1>3, <1>4

LEMMA SameEntriesKept ==
  ASSUME CacheWell, cache' = cache
  PROVE  SameEntries
  BY DEF CacheWell, SameEntries, IsEntry, IsSequence

LEMMA SameRowsKept ==
  ASSUME RowsWell, rows' = rows
  PROVE  SameRows
  BY DEF RowsWell, SameRows, IsRow, IsSequence

\* What EXCEPT makes of a row, of an entry, and of a sequence.
LEMMA Relabelled ==
  ASSUME NEW r, IsRow(r), NEW t, NEW u, u = [r EXCEPT !.status = t]
  PROVE  IsRow(u) /\ u.id = r.id /\ u.dest = r.dest /\ u.kind = r.kind /\ u.status = t
         /\ u.shown = r.shown
  BY DEF IsRow

LEMMA Refigured ==
  ASSUME NEW r, IsRow(r), NEW t, NEW u, u = [r EXCEPT !.shown = t]
  PROVE  IsRow(u) /\ u.id = r.id /\ u.dest = r.dest /\ u.kind = r.kind /\ u.status = r.status
         /\ u.shown = t
  BY DEF IsRow

LEMMA Sampled ==
  ASSUME NEW e, IsEntry(e), NEW t, NEW u, u = [e EXCEPT !.samples = t]
  PROVE  IsEntry(u) /\ u.id = e.id /\ u.dest = e.dest /\ u.kind = e.kind /\ u.samples = t
  BY DEF IsEntry

LEMMA Replaced ==
  ASSUME NEW s, IsSequence(s), NEW i \in DOMAIN s, NEW v, NEW t, t = [s EXCEPT ![i] = v]
  PROVE  /\ IsSequence(t) /\ DOMAIN t = DOMAIN s /\ Len(t) = Len(s)
         /\ t[i] = v /\ \A k \in DOMAIN s : k # i => t[k] = s[k]
<1>1. DOMAIN s = 1 .. Len(s) /\ Len(s) \in Nat
  BY IsSeq
<1>2. t = [k \in 1 .. Len(s) |-> IF k = i THEN v ELSE s[k]]
  BY <1>1
<1>3. Len(t) = Len(s)
  BY <1>1, <1>2
<1> QED
  BY <1>1, <1>2, <1>3 DEF IsSequence

\* updateCol of the status.
LEMMA Updates ==
  ASSUME RowsWell, NEW i \in DOMAIN rows, NEW text, rows' = updateCol(rows, i, text)
  PROVE  /\ SameRows
         /\ rows'[i].status = text
         /\ \A k \in DOMAIN rows : k # i => rows'[k] = rows[k]
<1> DEFINE v == [rows[i] EXCEPT !.status = text]
<1>1. rows' = [rows EXCEPT ![i] = v]
  BY Zenon DEF updateCol
<1>2. IsSequence(rows) /\ IsRow(rows[i])
  BY DEF RowsWell
<1>3. IsRow(v) /\ v.id = rows[i].id /\ v.dest = rows[i].dest /\ v.kind = rows[i].kind
      /\ v.status = text
  BY <1>2, Relabelled
<1> HIDE DEF v
<1>4. /\ IsSequence(rows') /\ DOMAIN rows' = DOMAIN rows
      /\ rows'[i] = v /\ \A k \in DOMAIN rows : k # i => rows'[k] = rows[k]
  <2> DEFINE t == [rows EXCEPT ![i] = v]
  <2>1. /\ IsSequence(t) /\ DOMAIN t = DOMAIN rows
        /\ t[i] = v /\ \A k \in DOMAIN rows : k # i => t[k] = rows[k]
    BY <1>2, Replaced
  <2> HIDE DEF t
  <2>2. rows' = t
    BY <1>1 DEF t
  <2> QED
    BY <2>1, <2>2
<1>5. \A k \in DOMAIN rows : IsRow(rows[k])
  BY DEF RowsWell
<1>6. ASSUME NEW k \in DOMAIN rows
      PROVE  IsRow(rows'[k]) /\ rows'[k].id = rows[k].id
             /\ rows'[k].dest = rows[k].dest /\ rows'[k].kind = rows[k].kind
  BY <1>3, <1>4, <1>5
<1> QED
  BY <1>3, <1>4, <1>6 DEF SameRows

\* Single items follow from single rows.
LEMMA OneItemFollows ==
  ASSUME up', RowShown', OneRow', RowsWell', ItemsWell', Identified'
  PROVE  OneItem'
<1> SUFFICES ASSUME NEW x \in saved', NEW y \in saved', IsHttp(x.kind), IsHttp(y.kind),
                    x.dest = y.dest, x.dest \notin Unsized \cup cleared'
             PROVE  x = y
  BY DEF OneItem
<1>1. PICK i \in DOMAIN rows' : rows'[i].dest = x.dest /\ rows'[i].id = x.id
  BY DEF RowShown
<1>2. PICK k \in DOMAIN rows' : rows'[k].dest = y.dest /\ rows'[k].id = y.id
  BY DEF RowShown
<1>3. x.dest \notin Torrents
  BY NamesAssumption DEF ItemsWell, OwnKind, IsHttp, Dests
<1>4. i = k
  BY <1>1, <1>2, <1>3 DEF OneRow
<1>5. x.id = y.id
  BY <1>1, <1>2, <1>4
<1> QED
  BY <1>5 DEF Identified

----------------------------------------------------------------------------
(* Numbers and texts of a status.                                          *)

LEMMA StatOf ==
  ASSUME NEW n \in 1 .. 7
  PROVE  convDlStat_toInt(DownloadStatus[n]) = n - 1
<1> DEFINE D == DownloadStatus
<1>1. DOMAIN D = 1 .. 7
  BY DEF DownloadStatus
<1>2. \A k, l \in 1 .. 7 : D[k] = D[l] => k = l
  BY DEF DownloadStatus
<1> HIDE DEF D
<1>3. PICK m \in DOMAIN D : D[m] = D[n] /\ m = CHOOSE k \in DOMAIN D : D[k] = D[n]
  BY <1>1
<1>4. m = n
  BY <1>1, <1>2, <1>3
<1>5. (CHOOSE k \in DOMAIN D : D[k] = D[n]) - 1 = n - 1
  BY <1>3, <1>4
<1> QED
  BY <1>5, Zenon DEF convDlStat_toInt, D

LEMMA StatNumbers ==
  /\ convDlStat_toInt("Downloading") = 0 /\ convDlStat_toInt("Completed") = 1
  /\ convDlStat_toInt("Paused") = 3 /\ convDlStat_toInt("Stopped") = 4
  /\ convDlStat_toInt("Unknown") = 5
<1>1. /\ DownloadStatus[1] = "Downloading" /\ DownloadStatus[2] = "Completed"
      /\ DownloadStatus[4] = "Paused" /\ DownloadStatus[5] = "Stopped"
      /\ DownloadStatus[6] = "Unknown"
  BY DEF DownloadStatus
<1>2. \A n \in 1 .. 7 : convDlStat_toInt(DownloadStatus[n]) = n - 1
  BY StatOf
<1> QED
  BY <1>1, <1>2

LEMMA StatTexts ==
  /\ convDlStat_IntToEnum(0) = "Downloading" /\ convDlStat_IntToEnum(1) = "Completed"
  /\ convDlStat_IntToEnum(2) = "Failed"
  /\ convDlStat_IntToEnum(3) = "Paused" /\ convDlStat_IntToEnum(4) = "Stopped"
  /\ convDlStat_IntToEnum(5) = "Unknown"
  BY DEF convDlStat_IntToEnum, DownloadStatus

\* What the window writes to the database and to the row shows the same.
LEMMA ShowsWritten ==
  ASSUME NEW text \in {"Downloading", "Completed", "Paused", "Stopped"}
  PROVE  convDlStat_toInt(text) \in 0 .. 5 /\ Shows(text, convDlStat_toInt(text))
  BY StatNumbers, StatTexts DEF Shows, convDlStat_StringToEnum

LEMMA ShowsNew ==
  Shows("Stopped", convDlStat_toInt("Unknown"))
  BY StatNumbers, StatTexts DEF Shows

\* A row of what was read, and one that was left Downloading and reset.
LEMMA ShowsRead ==
  ASSUME NEW n \in 0 .. 5
  PROVE  Shows(convDlStat_IntToEnum(n), n)
  BY StatTexts DEF Shows, convDlStat_StringToEnum

----------------------------------------------------------------------------
(* Adding a download.                                                      *)

Added(d, kind, status, ok) ==
    /\ OwnKind([dest |-> d, kind |-> kind])
    /\ status \in {"Stopped", "Invalid"} /\ (status = "Stopped" \/ ~ok)
    /\ made' = made + 1 /\ cleared' = cleared

LEMMA RowFields ==
  ASSUME NEW id, NEW d, NEW kind, NEW status, NEW r, r = Row(id, d, kind, status)
  PROVE  IsRow(r) /\ r.id = id /\ r.dest = d /\ r.kind = kind /\ r.status = status
         /\ r.shown = "none"
  BY DEF Row, IsRow

LEMMA ChartedFields ==
  ASSUME NEW r, NEW db, NEW e, e = Charted(r, db)
  PROVE  IsEntry(e) /\ e.id = r.id /\ e.dest = r.dest /\ e.kind = r.kind /\ e.samples = 1
  BY DEF Charted, IsEntry

LEMMA SendDetailsIs ==
  ASSUME NEW d, NEW kind, NEW status, NEW hash, NEW ok \in BOOLEAN, NEW db,
         sendDetails(d, kind, status, hash, ok, db)
  PROVE  \/ /\ RowsOf(d) # {} /\ rows' = rows /\ cache' = cache /\ saved' = db
         \/ /\ RowsOf(d) = {}
            /\ rows' = <<Row(made + 1, d, kind, status)>> \o rows
            /\ cache' = Append(cache, Charted(Row(made + 1, d, kind, status), db))
            /\ saved' = IF IsHttp(kind) /\ ok
                        THEN db \cup {Item(made + 1, d, kind, "Unknown", hash)} ELSE db
<1> DEFINE r == Row(made + 1, d, kind, status)
           new == insertNewRow(rows, cache, r, db)
<1> HIDE DEF r
<1>1. /\ new.table = <<r>> \o rows
      /\ new.entries = Append(cache, Charted(r, db))
  <2>1. new.table = <<r>> \o rows
    BY InsertIs, Zenon
  <2>2. new.entries = Append(cache, Charted(r, db))
    BY InsertIs
  <2> QED
    BY <2>1, <2>2
<1>2. CASE Refused(d)
  BY <1>2, Zenon DEF sendDetails, Refused
<1>3. CASE ~Refused(d)
  <2>1. rows' = new.table /\ cache' = new.entries
        /\ saved' = IF IsHttp(kind) /\ ok
                    THEN db \cup {Item(made + 1, d, kind, "Unknown", hash)} ELSE db
    BY <1>3, Zenon DEF sendDetails, r
  <2> QED
    BY <1>1, <1>3, <2>1, Zenon DEF Refused, r
<1> QED
  BY <1>2, <1>3

\* The table and the cache with a row more.
LEMMA InsertedKeeps ==
  ASSUME Identified, RowsWell, CacheWell, Paired, OneRow,
         NEW r, NEW e, IsRow(r), IsEntry(e), r.id = made + 1, OwnKind(r), RowsOf(r.dest) = {},
         e.id = r.id, e.dest = r.dest, e.kind = r.kind, e.samples = 1,
         made' = made + 1, cleared' = cleared,
         rows' = <<r>> \o rows, cache' = Append(cache, e)
  PROVE  /\ RowsWell' /\ CacheWell' /\ Paired' /\ OneRow'
         /\ 1 \in DOMAIN rows' /\ rows'[1] = r
         /\ \A i \in DOMAIN rows : i + 1 \in DOMAIN rows' /\ rows'[i + 1] = rows[i]
         /\ \A i \in DOMAIN rows' : i = 1 \/ \E k \in DOMAIN rows : i = k + 1
<1>1. /\ IsSequence(rows) /\ DOMAIN rows = 1 .. Len(rows) /\ Len(rows) \in Nat
      /\ IsSequence(cache) /\ DOMAIN cache = 1 .. Len(cache) /\ Len(cache) \in Nat
      /\ made \in Nat
  BY IsSeq DEF RowsWell, CacheWell, Identified
<1> DEFINE n == Len(rows)
           m == Len(cache)
           t == <<r>> \o rows
           c == Append(cache, e)
<1>2. /\ IsSequence(t) /\ Len(t) = n + 1 /\ t[1] = r
      /\ \A i \in 1 .. n : t[i + 1] = rows[i]
  BY <1>1, OnTop
<1>3. /\ IsSequence(c) /\ Len(c) = m + 1 /\ c[m + 1] = e
      /\ \A j \in 1 .. m : c[j] = cache[j]
  BY <1>1, AtEnd
<1>4. DOMAIN t = 1 .. n + 1 /\ DOMAIN c = 1 .. m + 1
  BY <1>2, <1>3, IsSeq
<1> HIDE DEF t, c
<1>5. rows' = t /\ cache' = c
  BY DEF t, c
<1>6. 1 \in 1 .. n + 1 /\ \A i \in 1 .. n : i + 1 \in 1 .. n + 1
  BY <1>1
<1>7. \A i \in 1 .. n + 1 : i = 1 \/ \E k \in 1 .. n : i = k + 1
  <2> SUFFICES ASSUME NEW i \in 1 .. n + 1, i # 1 PROVE \E k \in 1 .. n : i = k + 1
    OBVIOUS
  <2>1. i - 1 \in 1 .. n /\ i = (i - 1) + 1
    BY <1>1
  <2> QED
    BY <2>1
<1>8. \A j \in 1 .. m + 1 : j \in 1 .. m \/ j = m + 1
  BY <1>1
<1>9. m + 1 \in 1 .. m + 1 /\ 1 .. m \subseteq 1 .. m + 1
  BY <1>1
<1> HIDE DEF n, m
<1>10. DOMAIN rows = 1 .. n /\ DOMAIN cache = 1 .. m
  BY <1>1 DEF n, m
<1>11. 1 .. made \subseteq 1 .. made' /\ made + 1 \in 1 .. made' /\ made + 1 \notin 1 .. made
  BY <1>1
<1>12. \A i \in 1 .. n : IsRow(rows[i]) /\ rows[i].id \in 1 .. made /\ OwnKind(rows[i])
  BY <1>10 DEF RowsWell
<1>13. \A j \in 1 .. m : /\ IsEntry(cache[j]) /\ cache[j].id \in 1 .. made
                         /\ OwnKind(cache[j]) /\ cache[j].samples \in {1, 2}
  BY <1>10 DEF CacheWell
<1>14. \A i \in 1 .. n + 1 : IsRow(t[i]) /\ t[i].id \in 1 .. made' /\ OwnKind(t[i])
  BY <1>2, <1>7, <1>11, <1>12
<1>15. \A i, k \in 1 .. n + 1 : t[i].id = t[k].id => i = k
  <2>1. \A i, k \in 1 .. n : rows[i].id = rows[k].id => i = k
    BY <1>10 DEF RowsWell
  <2>2. \A k \in 1 .. n : t[k + 1].id = rows[k].id /\ t[k + 1].id # t[1].id
    BY <1>2, <1>11, <1>12
  <2> QED
    BY <1>7, <2>1, <2>2
<1>16. RowsWell'
  <2>1. (\A i \in DOMAIN rows : IsRow(rows[i]) /\ rows[i].id \in 1 .. made /\ OwnKind(rows[i]))'
    BY <1>4, <1>5, <1>14 DEF IsRow, OwnKind
  <2> QED
    BY <2>1, <1>2, <1>4, <1>5, <1>15 DEF RowsWell, IsSequence
<1>17. OwnKind(e)
  BY DEF OwnKind
<1>18. \A j \in 1 .. m + 1 : /\ IsEntry(c[j]) /\ c[j].id \in 1 .. made'
                             /\ OwnKind(c[j]) /\ c[j].samples \in {1, 2}
  BY <1>3, <1>8, <1>11, <1>13, <1>17
<1>19. \A j, k \in 1 .. m + 1 : c[j].id = c[k].id => j = k
  <2>1. \A j, k \in 1 .. m : cache[j].id = cache[k].id => j = k
    BY <1>10 DEF CacheWell
  <2> QED
    BY <2>1, <1>3, <1>8, <1>11, <1>13
<1>20. CacheWell'
  <2>1. (\A j \in DOMAIN cache : /\ IsEntry(cache[j]) /\ cache[j].id \in 1 .. made
                                 /\ OwnKind(cache[j]) /\ cache[j].samples \in {1, 2})'
    BY <1>4, <1>5, <1>18 DEF IsEntry, OwnKind
  <2> QED
    BY <2>1, <1>3, <1>4, <1>5, <1>19 DEF CacheWell, IsSequence
<1>21. Paired'
  <2>1. ASSUME NEW i \in 1 .. n + 1
        PROVE  \E j \in 1 .. m + 1 :
                  c[j].id = t[i].id /\ c[j].dest = t[i].dest /\ c[j].kind = t[i].kind
    <3>1. CASE i = 1
      BY <3>1, <1>2, <1>3, <1>9
    <3>2. ASSUME NEW k \in 1 .. n, i = k + 1
          PROVE  \E j \in 1 .. m + 1 :
                    c[j].id = t[i].id /\ c[j].dest = t[i].dest /\ c[j].kind = t[i].kind
      <4>1. PICK j \in 1 .. m : cache[j].id = rows[k].id /\ cache[j].dest = rows[k].dest
                                /\ cache[j].kind = rows[k].kind
        BY <1>10 DEF Paired
      <4> QED
        BY <4>1, <3>2, <1>2, <1>3, <1>9
    <3> QED
      BY <3>1, <3>2, <1>7
  <2>2. ASSUME NEW j \in 1 .. m + 1
        PROVE  c[j].dest \in cleared \/ \E i \in 1 .. n + 1 : t[i].id = c[j].id
    <3>1. CASE j = m + 1
      BY <3>1, <1>2, <1>3, <1>6
    <3>2. CASE j \in 1 .. m
      <4>1. cache[j].dest \in cleared \/ \E i \in 1 .. n : rows[i].id = cache[j].id
        BY <3>2, <1>10 DEF Paired
      <4> QED
        BY <4>1, <3>2, <1>2, <1>3, <1>6
    <3> QED
      BY <3>1, <3>2, <1>8
  <2>3. (\A i \in DOMAIN rows : \E j \in DOMAIN cache :
            cache[j].id = rows[i].id /\ cache[j].dest = rows[i].dest
            /\ cache[j].kind = rows[i].kind)'
    BY <2>1, <1>4, <1>5
  <2>4. (\A j \in DOMAIN cache :
            cache[j].dest \in cleared \/ \E i \in DOMAIN rows : rows[i].id = cache[j].id)'
    BY <2>2, <1>4, <1>5
  <2> QED
    BY <2>3, <2>4 DEF Paired
<1>22. OneRow'
  <2>1. ASSUME NEW i \in 1 .. n + 1, NEW k \in 1 .. n + 1, t[i].dest = t[k].dest,
               t[i].dest \notin Torrents \cup cleared
        PROVE  i = k
    <3>1. \A p \in 1 .. n : rows[p].dest # r.dest
      BY <1>10 DEF RowsOf
    <3>2. \A p, q \in 1 .. n : rows[p].dest = rows[q].dest /\ rows[p].dest \notin Torrents \cup cleared
              => p = q
      BY <1>10 DEF OneRow
    <3>3. CASE i = 1 /\ k = 1
      BY <3>3
    <3>4. ASSUME NEW p \in 1 .. n, t[p + 1].dest = t[1].dest PROVE FALSE
      BY <3>1, <3>4, <1>2
    <3>5. ASSUME NEW p \in 1 .. n, NEW q \in 1 .. n, i = p + 1, k = q + 1 PROVE i = k
      <4>1. t[p + 1] = rows[p] /\ t[q + 1] = rows[q]
        BY <1>2
      <4>2. rows[p].dest = rows[q].dest /\ rows[p].dest \notin Torrents \cup cleared
        BY <4>1, <3>5, <2>1
      <4> QED
        BY <4>2, <3>2, <3>5
    <3> QED
      BY <2>1, <3>3, <3>4, <3>5, <1>7
  <2> QED
    BY <2>1, <1>4, <1>5 DEF OneRow
<1> QED
  BY <1>2, <1>4, <1>5, <1>6, <1>7, <1>10, <1>16, <1>20, <1>21, <1>22

LEMMA ItemFields ==
  ASSUME NEW id, NEW d, NEW kind, NEW status, NEW hash, NEW x, x = Item(id, d, kind, status, hash)
  PROVE  x.id = id /\ x.dest = d /\ x.kind = kind /\ x.stat = convDlStat_toInt(status)
  BY DEF Item

\* What the database may have got before the table is searched: a torrent.
MoreItems(db) ==
    /\ IsFiniteSet(db) /\ saved \subseteq db
    /\ \A x \in db \ saved : OwnKind(x) /\ x.stat \in 0 .. 5 /\ x.kind = "Torrent"

\* The rows after a download was added or refused.
RowsMore(d, status) ==
    /\ \A k \in DOMAIN rows : \E i \in DOMAIN rows' : rows'[i] = rows[k]
    /\ \E i \in DOMAIN rows' : rows'[i].dest = d
    /\ RowsOf(d) # {} => rows' = rows
    /\ \A i \in DOMAIN rows' :
          \/ rows'[i].dest = d /\ rows'[i].status = status
          \/ \E k \in DOMAIN rows : rows'[i] = rows[k]

LEMMA AddKeeps ==
  ASSUME Identified, RowsWell, CacheWell, ItemsWell, Paired, OneRow, RowShown,
         up = TRUE, up' = TRUE,
         NEW d, NEW kind, NEW status, NEW hash, NEW ok \in BOOLEAN, NEW db,
         Added(d, kind, status, ok), MoreItems(db),
         sendDetails(d, kind, status, hash, ok, db)
  PROVE  RowsWell' /\ CacheWell' /\ ItemsWell' /\ Paired' /\ OneRow' /\ RowShown'
         /\ RowsMore(d, status)
<1>1. /\ made' = made + 1 /\ cleared' = cleared /\ made \in Nat
      /\ status \in {"Stopped", "Invalid"} /\ (status = "Stopped" \/ ~ok)
      /\ OwnKind([dest |-> d, kind |-> kind])
  BY DEF Added, Identified
<1>2. \A x \in db : OwnKind(x) /\ x.stat \in 0 .. 5
  BY DEF MoreItems, ItemsWell
<1>3. ASSUME NEW x \in db, IsHttp(x.kind), x.dest \notin Unsized \cup cleared
      PROVE  \E k \in DOMAIN rows : /\ rows[k].dest = x.dest /\ rows[k].id = x.id
                                    /\ Shows(rows[k].status, x.stat)
  BY <1>3 DEF MoreItems, RowShown, IsHttp
<1>4. CASE /\ RowsOf(d) # {} /\ rows' = rows /\ cache' = cache /\ saved' = db
  <2>1. RowsWell'
    <3>1. \A i \in DOMAIN rows : IsRow(rows[i]) /\ rows[i].id \in 1 .. made' /\ OwnKind(rows[i])
      BY <1>1 DEF RowsWell
    <3>2. (\A i \in DOMAIN rows : IsRow(rows[i]) /\ rows[i].id \in 1 .. made /\ OwnKind(rows[i]))'
      BY <3>1, <1>4 DEF IsRow, OwnKind
    <3> QED
      BY <3>2, <1>4 DEF RowsWell, IsSequence
  <2>2. CacheWell'
    <3>1. \A j \in DOMAIN cache : /\ IsEntry(cache[j]) /\ cache[j].id \in 1 .. made'
                                  /\ OwnKind(cache[j]) /\ cache[j].samples \in {1, 2}
      BY <1>1 DEF CacheWell
    <3>2. (\A j \in DOMAIN cache : /\ IsEntry(cache[j]) /\ cache[j].id \in 1 .. made
                                   /\ OwnKind(cache[j]) /\ cache[j].samples \in {1, 2})'
      BY <3>1, <1>4 DEF IsEntry, OwnKind
    <3> QED
      BY <3>2, <1>4 DEF CacheWell, IsSequence
  <2>3. ItemsWell'
    BY <1>2, <1>4 DEF ItemsWell, MoreItems, OwnKind
  <2>4. Paired' /\ OneRow'
    BY <1>1, <1>4 DEF Paired, OneRow
  <2>5. RowShown'
    BY <1>1, <1>3, <1>4 DEF RowShown
  <2>6. RowsMore(d, status)
    BY <1>4 DEF RowsMore, RowsOf
  <2> QED
    BY <2>1, <2>2, <2>3, <2>4, <2>5, <2>6
<1>5. CASE /\ RowsOf(d) = {}
           /\ rows' = <<Row(made + 1, d, kind, status)>> \o rows
           /\ cache' = Append(cache, Charted(Row(made + 1, d, kind, status), db))
           /\ saved' = IF IsHttp(kind) /\ ok
                       THEN db \cup {Item(made + 1, d, kind, "Unknown", hash)} ELSE db
  <2> DEFINE r == Row(made + 1, d, kind, status)
             e == Charted(r, db)
             x == Item(made + 1, d, kind, "Unknown", hash)
  <2>1. IsRow(r) /\ r.id = made + 1 /\ r.dest = d /\ r.kind = kind /\ r.status = status
    BY RowFields
  <2>2. x.id = made + 1 /\ x.dest = d /\ x.kind = kind /\ x.stat = convDlStat_toInt("Unknown")
    BY ItemFields
  <2> HIDE DEF r, x
  <2>3. IsEntry(e) /\ e.id = r.id /\ e.dest = r.dest /\ e.kind = r.kind /\ e.samples = 1
    BY ChartedFields
  <2> HIDE DEF e
  <2>4. /\ RowsOf(d) = {} /\ rows' = <<r>> \o rows /\ cache' = Append(cache, e)
        /\ saved' = IF IsHttp(kind) /\ ok THEN db \cup {x} ELSE db
    BY <1>5 DEF r, e, x
  <2>5. OwnKind(r) /\ OwnKind(x)
    BY <1>1, <2>1, <2>2 DEF OwnKind
  <2>6. /\ RowsWell' /\ CacheWell' /\ Paired' /\ OneRow'
        /\ 1 \in DOMAIN rows' /\ rows'[1] = r
        /\ \A i \in DOMAIN rows : i + 1 \in DOMAIN rows' /\ rows'[i + 1] = rows[i]
        /\ \A i \in DOMAIN rows' : i = 1 \/ \E k \in DOMAIN rows : i = k + 1
    BY <1>1, <2>1, <2>3, <2>4, <2>5, InsertedKeeps
  <2>7. x.stat \in 0 .. 5
    BY <2>2, StatNumbers
  <2>8. ItemsWell'
    <3>1. IsFiniteSet(saved')
      BY <2>4, FS_AddElement DEF MoreItems
    <3>2. \A y \in saved' : OwnKind(y) /\ y.stat \in 0 .. 5
      BY <1>2, <2>4, <2>5, <2>7
    <3> QED
      BY <3>1, <3>2 DEF ItemsWell, OwnKind
  <2>9. RowShown'
    <3>1. ASSUME NEW y \in saved', IsHttp(y.kind), y.dest \notin Unsized \cup cleared
          PROVE  \E i \in DOMAIN rows' : /\ rows'[i].dest = y.dest /\ rows'[i].id = y.id
                                         /\ Shows(rows'[i].status, y.stat)
      <4>1. CASE y \in db
        <5>1. PICK k \in DOMAIN rows : /\ rows[k].dest = y.dest /\ rows[k].id = y.id
                                       /\ Shows(rows[k].status, y.stat)
          BY <4>1, <3>1, <1>3
        <5>2. k + 1 \in DOMAIN rows' /\ rows'[k + 1] = rows[k]
          BY <2>6
        <5> QED
          BY <5>1, <5>2
      <4>2. CASE y = x /\ ok
        <5>1. Shows(r.status, x.stat)
          BY <4>2, <1>1, <2>1, <2>2, ShowsNew
        <5> QED
          BY <5>1, <4>2, <2>1, <2>2, <2>6
      <4> QED
        BY <4>1, <4>2, <2>4
    <3> QED
      BY <3>1, <1>1 DEF RowShown
  <2>10. RowsMore(d, status)
    BY <2>1, <2>4, <2>6 DEF RowsMore
  <2> QED
    BY <2>6, <2>8, <2>9, <2>10
<1> QED
  BY <1>4, <1>5, SendDetailsIs

----------------------------------------------------------------------------
(* A command's status, to the database and to the row.                     *)

\* The item that a destination finds is the only one.
LEMMA OneSaved ==
  ASSUME Identified, ItemsWell, OneItem, NEW x \in saved, IsHttp(x.kind), x.dest \notin Unsized \cup cleared
  PROVE  SavedAs(x.dest) = {x}
<1>1. ASSUME NEW y \in saved, y.dest = x.dest PROVE y = x
  <2>1. OwnKind(x) /\ OwnKind(y)
    BY DEF ItemsWell
  <2>2. IsHttp(y.kind)
    BY <1>1, <2>1, NamesAssumption DEF OwnKind, IsHttp, Dests
  <2> QED
    BY <1>1, <2>2 DEF OneItem
<1>2. x.id \in Nat /\ x.id <= x.id
  BY DEF Identified
<1>3. x \in SavedAs(x.dest)
  BY <1>1, <1>2 DEF SavedAs
<1>4. \A y \in SavedAs(x.dest) : y = x
  BY <1>1 DEF SavedAs
<1> QED
  BY <1>3, <1>4

LEMMA RestatedKeeps ==
  ASSUME Identified, ItemsWell, NEW S, S \subseteq saved, NEW t \in 0 .. 5, Restated(S, t)
  PROVE  /\ ItemsWell'
         /\ \A y \in saved' : \/ y \in saved \ S
                             \/ \E x \in S : /\ y.id = x.id /\ y.dest = x.dest
                                            /\ y.kind = x.kind /\ y.stat = t
<1>1. \A x : WithStat(x, t).id = x.id /\ WithStat(x, t).dest = x.dest
              /\ WithStat(x, t).kind = x.kind /\ WithStat(x, t).stat = t
  BY DEF WithStat
<1> DEFINE N == {WithStat(x, t) : x \in S}
           f == [x \in S |-> WithStat(x, t)]
<1>2. IsFiniteSet(N)
  <2>1. f \in [S -> N] /\ \A y \in N : \E x \in S : f[x] = y
    OBVIOUS
  <2> HIDE DEF f, N
  <2>2. f \in Surjection(S, N)
    BY <2>1 DEF Surjection
  <2>3. IsFiniteSet(S)
    BY FS_Subset DEF ItemsWell
  <2> QED
    BY <2>2, <2>3, FS_Surjection
<1>3. \A y \in N : \E x \in S : y.id = x.id /\ y.dest = x.dest /\ y.kind = x.kind /\ y.stat = t
  BY <1>1
<1> HIDE DEF N
<1>4. saved' = (saved \ S) \cup N
  BY DEF Restated, N
<1>5. IsFiniteSet(saved')
  <2>1. IsFiniteSet(saved \ S)
    BY FS_Subset DEF ItemsWell
  <2> QED
    BY <2>1, <1>2, <1>4, FS_Union
<1>6. \A x \in saved : OwnKind(x) /\ x.stat \in 0 .. 5
  BY DEF ItemsWell
<1>7. \A y \in saved' : OwnKind(y) /\ y.stat \in 0 .. 5
  <2>1. ASSUME NEW y \in N PROVE OwnKind(y) /\ y.stat \in 0 .. 5
    <3>1. PICK x \in S : y.dest = x.dest /\ y.kind = x.kind /\ y.stat = t
      BY <1>3
    <3>2. OwnKind(x)
      BY <1>6
    <3> QED
      BY <3>1, <3>2 DEF OwnKind
  <2> QED
    BY <2>1, <1>4, <1>6
<1>8. ItemsWell'
  BY <1>5, <1>7 DEF ItemsWell, OwnKind
<1> QED
  BY <1>3, <1>4, <1>8

LEMMA StatusKeeps ==
  ASSUME Identified, RowsWell, ItemsWell, OneRow, OneItem, RowShown, up = TRUE,
         NEW i \in DOMAIN rows, IsHttp(rows[i].kind),
         NEW text \in {"Downloading", "Completed", "Paused", "Stopped"},
         NEW given, NEW type, NEW returned,
         modifyCurlItem(rows[i].dest, text, given, type, returned, "NotApplicable"),
         rows' = updateCol(rows, i, text), cleared' = cleared
  PROVE  SameRows /\ ItemsWell' /\ RowShown'
<1> DEFINE d == rows[i].dest
           t == convDlStat_toInt(text)
<1>1. SameRows /\ rows'[i].status = text /\ \A k \in DOMAIN rows : k # i => rows'[k] = rows[k]
  BY Updates
<1>2. t \in 0 .. 5 /\ Shows(text, t)
  BY ShowsWritten
<1> HIDE DEF t
<1>3. Restated(SavedAs(d), t) /\ SavedAs(d) \subseteq saved
  BY ModifyIs DEF t, SavedAs
<1>4. /\ ItemsWell'
      /\ \A y \in saved' : \/ y \in saved \ SavedAs(d)
                          \/ \E x \in SavedAs(d) : /\ y.id = x.id /\ y.dest = x.dest
                                                  /\ y.kind = x.kind /\ y.stat = t
  BY <1>2, <1>3, RestatedKeeps
<1>5. ASSUME NEW y \in saved', IsHttp(y.kind), y.dest \notin Unsized \cup cleared
      PROVE  \E k \in DOMAIN rows' : /\ rows'[k].dest = y.dest /\ rows'[k].id = y.id
                                     /\ Shows(rows'[k].status, y.stat)
  <2>1. CASE y \in saved \ SavedAs(d)
    <3>1. PICK k \in DOMAIN rows : /\ rows[k].dest = y.dest /\ rows[k].id = y.id
                                   /\ Shows(rows[k].status, y.stat)
      BY <2>1, <1>5 DEF RowShown
    <3>2. k # i
      BY <2>1, <3>1, <1>5, OneSaved
    <3>3. k \in DOMAIN rows' /\ rows'[k] = rows[k]
      BY <3>2, <1>1 DEF SameRows
    <3> QED
      BY <3>1, <3>3
  <2>2. ASSUME NEW x \in SavedAs(d), y.id = x.id, y.dest = x.dest, y.kind = x.kind, y.stat = t
        PROVE  \E k \in DOMAIN rows' : /\ rows'[k].dest = y.dest /\ rows'[k].id = y.id
                                       /\ Shows(rows'[k].status, y.stat)
    <3>1. x \in saved /\ x.dest = d /\ IsHttp(x.kind) /\ x.dest \notin Unsized \cup cleared
      BY <1>5, <2>2 DEF SavedAs
    <3>2. PICK k \in DOMAIN rows : rows[k].dest = d /\ rows[k].id = x.id
      BY <3>1 DEF RowShown
    <3>3. d \notin Torrents
      BY NamesAssumption DEF RowsWell, OwnKind, IsHttp, Dests
    <3>4. k = i
      BY <3>1, <3>2, <3>3 DEF OneRow
    <3>5. i \in DOMAIN rows' /\ rows'[i].dest = d /\ rows'[i].id = x.id /\ rows'[i].status = text
      BY <1>1, <3>2, <3>4 DEF SameRows
    <3> QED
      BY <3>1, <3>5, <2>2, <1>2
  <2> QED
    BY <2>1, <2>2, <1>4
<1>6. RowShown'
  BY <1>5 DEF RowShown
<1> QED
  BY <1>1, <1>4, <1>6

\* The row of a download of which nothing is saved.
LEMMA LabelKeeps ==
  ASSUME RowsWell, OneRow, RowShown, Identified, ItemsWell, OneItem, up = TRUE,
         NEW i \in DOMAIN rows, NEW text, rows' = updateCol(rows, i, text),
         IsHttp(rows[i].kind) => SavedAs(rows[i].dest) = {},
         saved' = saved, cleared' = cleared
  PROVE  SameRows /\ ItemsWell' /\ RowShown'
<1>1. SameRows /\ \A k \in DOMAIN rows : k # i => rows'[k] = rows[k]
  BY Updates
<1>2. ASSUME NEW y \in saved, IsHttp(y.kind), y.dest \notin Unsized \cup cleared
      PROVE  \E k \in DOMAIN rows' : /\ rows'[k].dest = y.dest /\ rows'[k].id = y.id
                                     /\ Shows(rows'[k].status, y.stat)
  <2>1. PICK k \in DOMAIN rows : /\ rows[k].dest = y.dest /\ rows[k].id = y.id
                                 /\ Shows(rows[k].status, y.stat)
    BY <1>2 DEF RowShown
  <2>2. SavedAs(y.dest) = {y}
    BY <1>2, OneSaved
  <2>3. OwnKind(y) /\ OwnKind(rows[k])
    BY DEF ItemsWell, RowsWell
  <2>4. IsHttp(rows[k].kind)
    BY <2>1, <2>3, <1>2, NamesAssumption DEF OwnKind, IsHttp, Dests
  <2>5. k # i
    BY <2>1, <2>2, <2>4
  <2>6. k \in DOMAIN rows' /\ rows'[k] = rows[k]
    BY <2>5, <1>1 DEF SameRows
  <2> QED
    BY <2>1, <2>6
<1>3. RowShown'
  BY <1>2 DEF RowShown
<1>4. ItemsWell'
  BY DEF ItemsWell, OwnKind
<1> QED
  BY <1>1, <1>3, <1>4

----------------------------------------------------------------------------
(* Removing rows.                                                          *)

LEMMA LeftIs ==
  ASSUME NEW s, NEW t, IsSequence(t), NEW keep, Left(s, t, keep)
  PROVE  /\ IsSequence(s)
         /\ \A p \in keep : \E k \in DOMAIN s : s[k] = t[p]
         /\ \E f \in [DOMAIN s -> DOMAIN t] :
               /\ \A k \in DOMAIN s : s[k] = t[f[k]] /\ f[k] \in keep
               /\ \A k, l \in DOMAIN s : f[k] = f[l] => k = l
<1>1. IsSequence(s) /\ DOMAIN s = 1 .. Len(s) /\ DOMAIN t = 1 .. Len(t)
  BY IsSeq DEF Left
<1>2. PICK f \in [1 .. Len(s) -> 1 .. Len(t)] :
          /\ \A k \in 1 .. Len(s) : s[k] = t[f[k]] /\ f[k] \in keep
          /\ \A k, l \in 1 .. Len(s) : f[k] = f[l] => k = l
          /\ \A p \in keep : \E k \in 1 .. Len(s) : f[k] = p
  BY DEF Left
<1>3. \A p \in keep : \E k \in DOMAIN s : s[k] = t[p]
  BY <1>1, <1>2
<1>4. /\ f \in [DOMAIN s -> DOMAIN t]
      /\ \A k \in DOMAIN s : s[k] = t[f[k]] /\ f[k] \in keep
      /\ \A k, l \in DOMAIN s : f[k] = f[l] => k = l
  BY <1>1, <1>2
<1> QED
  BY <1>1, <1>3, <1>4

LEMMA LeftRows ==
  ASSUME RowsWell, OneRow, NEW keep, Left(rows', rows, keep), made' = made,
         cleared \subseteq cleared'
  PROVE  /\ RowsWell' /\ OneRow'
         /\ \A p \in keep : \E k \in DOMAIN rows' : rows'[k] = rows[p]
         /\ \A k \in DOMAIN rows' : \E p \in DOMAIN rows \cap keep : rows'[k] = rows[p]
<1> DEFINE s == rows'
<1>1. IsSequence(rows)
  BY DEF RowsWell
<1>2. Left(s, rows, keep)
  OBVIOUS
<1> HIDE DEF s
<1>3. /\ IsSequence(s)
      /\ \A p \in keep : \E k \in DOMAIN s : s[k] = rows[p]
      /\ \E f \in [DOMAIN s -> DOMAIN rows] :
            /\ \A k \in DOMAIN s : s[k] = rows[f[k]] /\ f[k] \in keep
            /\ \A k, l \in DOMAIN s : f[k] = f[l] => k = l
  BY <1>1, <1>2, LeftIs
<1>4. PICK f \in [DOMAIN s -> DOMAIN rows] :
            /\ \A k \in DOMAIN s : s[k] = rows[f[k]] /\ f[k] \in keep
            /\ \A k, l \in DOMAIN s : f[k] = f[l] => k = l
  BY <1>3
<1>5. \A k \in DOMAIN s : f[k] \in DOMAIN rows
  OBVIOUS
<1>6. \A k \in DOMAIN s : IsRow(s[k]) /\ s[k].id \in 1 .. made /\ OwnKind(s[k])
  BY <1>4, <1>5 DEF RowsWell
<1>7. \A k, l \in DOMAIN s : s[k].id = s[l].id => k = l
  BY <1>4, <1>5 DEF RowsWell
<1>8. \A k, l \in DOMAIN s :
          s[k].dest = s[l].dest /\ s[k].dest \notin Torrents \cup cleared' => k = l
  BY <1>4, <1>5 DEF OneRow
<1>9. RowsWell'
  <2>1. (\A i \in DOMAIN rows : IsRow(rows[i]) /\ rows[i].id \in 1 .. made /\ OwnKind(rows[i]))'
    BY <1>6 DEF s, IsRow, OwnKind
  <2> QED
    BY <2>1, <1>3, <1>7 DEF s, RowsWell, IsSequence
<1>10. OneRow'
  BY <1>8 DEF s, OneRow
<1>11. \A k \in DOMAIN s : \E p \in DOMAIN rows \cap keep : s[k] = rows[p]
  BY <1>4, <1>5
<1> QED
  BY <1>3, <1>9, <1>10, <1>11 DEF s

LEMMA LeftEntries ==
  ASSUME CacheWell, NEW keep, Left(cache', cache, keep), made' = made
  PROVE  /\ CacheWell'
         /\ \A p \in keep : \E j \in DOMAIN cache' : cache'[j] = cache[p]
         /\ \A j \in DOMAIN cache' : \E p \in DOMAIN cache \cap keep : cache'[j] = cache[p]
<1> DEFINE s == cache'
<1>1. IsSequence(cache)
  BY DEF CacheWell
<1>2. Left(s, cache, keep)
  OBVIOUS
<1> HIDE DEF s
<1>3. /\ IsSequence(s)
      /\ \A p \in keep : \E k \in DOMAIN s : s[k] = cache[p]
      /\ \E f \in [DOMAIN s -> DOMAIN cache] :
            /\ \A k \in DOMAIN s : s[k] = cache[f[k]] /\ f[k] \in keep
            /\ \A k, l \in DOMAIN s : f[k] = f[l] => k = l
  BY <1>1, <1>2, LeftIs
<1>4. PICK f \in [DOMAIN s -> DOMAIN cache] :
            /\ \A k \in DOMAIN s : s[k] = cache[f[k]] /\ f[k] \in keep
            /\ \A k, l \in DOMAIN s : f[k] = f[l] => k = l
  BY <1>3
<1>5. \A k \in DOMAIN s : f[k] \in DOMAIN cache
  OBVIOUS
<1>6. \A k \in DOMAIN s : /\ IsEntry(s[k]) /\ s[k].id \in 1 .. made
                          /\ OwnKind(s[k]) /\ s[k].samples \in {1, 2}
  BY <1>4, <1>5 DEF CacheWell
<1>7. \A k, l \in DOMAIN s : s[k].id = s[l].id => k = l
  BY <1>4, <1>5 DEF CacheWell
<1>8. CacheWell'
  <2>1. (\A j \in DOMAIN cache : /\ IsEntry(cache[j]) /\ cache[j].id \in 1 .. made
                                 /\ OwnKind(cache[j]) /\ cache[j].samples \in {1, 2})'
    BY <1>6 DEF s, IsEntry, OwnKind
  <2> QED
    BY <2>1, <1>3, <1>7 DEF s, CacheWell, IsSequence
<1>9. \A k \in DOMAIN s : \E p \in DOMAIN cache \cap keep : s[k] = cache[p]
  BY <1>4, <1>5
<1> QED
  BY <1>3, <1>8, <1>9 DEF s

\* The rows that are left show what the items that are left say.
LEMMA LeftShown ==
  ASSUME RowShown, ItemsWell, up = TRUE, NEW keep,
         \A p \in keep : \E k \in DOMAIN rows' : rows'[k] = rows[p],
         saved' \subseteq saved, cleared \subseteq cleared',
         \A y \in saved', k \in DOMAIN rows :
            /\ IsHttp(y.kind) /\ y.dest \notin Unsized \cup cleared'
            /\ rows[k].dest = y.dest
            => k \in keep
  PROVE  ItemsWell' /\ RowShown'
<1>1. IsFiniteSet(saved')
  BY FS_Subset DEF ItemsWell
<1>2. ItemsWell'
  BY <1>1 DEF ItemsWell, OwnKind
<1>3. ASSUME NEW y \in saved', IsHttp(y.kind), y.dest \notin Unsized \cup cleared'
      PROVE  \E k \in DOMAIN rows' : /\ rows'[k].dest = y.dest /\ rows'[k].id = y.id
                                     /\ Shows(rows'[k].status, y.stat)
  <2>1. PICK k \in DOMAIN rows : /\ rows[k].dest = y.dest /\ rows[k].id = y.id
                                 /\ Shows(rows[k].status, y.stat)
    BY <1>3 DEF RowShown
  <2>2. k \in keep
    BY <2>1, <1>3
  <2>3. PICK l \in DOMAIN rows' : rows'[l] = rows[k]
    BY <2>2
  <2> QED
    BY <2>1, <2>3
<1>4. RowShown'
  BY <1>3 DEF RowShown
<1> QED
  BY <1>2, <1>4

\* The entry of a row.
LEMMA OwnEntry ==
  ASSUME CacheWell, Paired, NEW i \in DOMAIN rows
  PROVE  \E j \in DOMAIN cache :
            /\ EntryOf(rows[i]) = {j} /\ Min(EntryOf(rows[i])) = j
            /\ cache[j].id = rows[i].id /\ cache[j].dest = rows[i].dest
            /\ cache[j].kind = rows[i].kind
<1>1. PICK j \in DOMAIN cache : cache[j].id = rows[i].id /\ cache[j].dest = rows[i].dest
                                /\ cache[j].kind = rows[i].kind
  BY DEF Paired
<1>2. EntryOf(rows[i]) = {j}
  BY <1>1 DEF EntryOf, CacheWell
<1>3. j \in Nat
  BY IsSeq DEF CacheWell
<1>4. Min({j}) = j
  BY <1>3 DEF Min
<1> QED
  BY <1>1, <1>2, <1>4

LEMMA RemoveSelKeeps ==
  ASSUME RowsWell, CacheWell, ItemsWell, Identified, Paired, OneRow, OneItem, RowShown,
         up = TRUE, NEW i \in DOMAIN rows, removeSelRows(i)
  PROVE  /\ RowsWell' /\ CacheWell' /\ ItemsWell' /\ Paired' /\ OneRow' /\ RowShown'
         /\ \A k \in DOMAIN rows' : \E p \in DOMAIN rows : rows'[k] = rows[p]
<1>1. /\ saved' = (IF IsHttp(rows[i].kind) /\ EntryOf(rows[i]) # {}
                   THEN saved \ SavedAs(rows[i].dest) ELSE saved)
      /\ cache' = (IF EntryOf(rows[i]) = {} THEN cache ELSE RemoveAt(cache, Min(EntryOf(rows[i]))))
      /\ rows' = RemoveAt(rows, i)
      /\ made' = made /\ cleared' = cleared
  BY Zenon DEF removeSelRows, removeRow
<1>2. PICK j \in DOMAIN cache :
            /\ EntryOf(rows[i]) = {j} /\ Min(EntryOf(rows[i])) = j
            /\ cache[j].id = rows[i].id /\ cache[j].dest = rows[i].dest
            /\ cache[j].kind = rows[i].kind
  BY OwnEntry
<1>3. cache' = RemoveAt(cache, j)
  BY <1>1, <1>2
<1>4. /\ IsSequence(rows) /\ DOMAIN rows = 1 .. Len(rows)
      /\ IsSequence(cache) /\ DOMAIN cache = 1 .. Len(cache)
  BY IsSeq DEF RowsWell, CacheWell
<1> DEFINE keep == (DOMAIN rows) \ {i}
           entries == (DOMAIN cache) \ {j}
<1>5. Left(rows', rows, keep)
  <2>1. Left(RemoveAt(rows, i), rows, (1 .. Len(rows)) \ {i})
    BY <1>4, RemoveAtLeaves
  <2> QED
    BY <2>1, <1>1, <1>4
<1>6. Left(cache', cache, entries)
  <2>1. Left(RemoveAt(cache, j), cache, (1 .. Len(cache)) \ {j})
    BY <1>4, RemoveAtLeaves
  <2> QED
    BY <2>1, <1>3, <1>4
<1> HIDE DEF keep, entries
<1>7. /\ RowsWell' /\ OneRow'
      /\ \A p \in keep : \E k \in DOMAIN rows' : rows'[k] = rows[p]
      /\ \A k \in DOMAIN rows' : \E p \in DOMAIN rows \cap keep : rows'[k] = rows[p]
  BY <1>1, <1>5, LeftRows
<1>8. /\ CacheWell'
      /\ \A p \in entries : \E q \in DOMAIN cache' : cache'[q] = cache[p]
      /\ \A q \in DOMAIN cache' : \E p \in DOMAIN cache \cap entries : cache'[q] = cache[p]
  BY <1>1, <1>6, LeftEntries
<1>9. Paired'
  <2>1. ASSUME NEW k \in DOMAIN rows'
        PROVE  \E q \in DOMAIN cache' : /\ cache'[q].id = rows'[k].id
                                        /\ cache'[q].dest = rows'[k].dest
                                        /\ cache'[q].kind = rows'[k].kind
    <3>1. PICK p \in DOMAIN rows \cap keep : rows'[k] = rows[p]
      BY <1>7
    <3>2. p # i /\ rows[p].id # rows[i].id
      BY <3>1 DEF keep, RowsWell
    <3>3. PICK e \in DOMAIN cache : cache[e].id = rows[p].id /\ cache[e].dest = rows[p].dest
                                    /\ cache[e].kind = rows[p].kind
      BY DEF Paired
    <3>4. e \in entries
      BY <3>2, <3>3, <1>2 DEF entries
    <3>5. PICK q \in DOMAIN cache' : cache'[q] = cache[e]
      BY <3>4, <1>8
    <3> QED
      BY <3>1, <3>3, <3>5
  <2>2. ASSUME NEW q \in DOMAIN cache'
        PROVE  cache'[q].dest \in cleared \/ \E k \in DOMAIN rows' : rows'[k].id = cache'[q].id
    <3>1. PICK e \in DOMAIN cache \cap entries : cache'[q] = cache[e]
      BY <1>8
    <3>2. CASE cache[e].dest \in cleared
      BY <3>1, <3>2
    <3>3. ASSUME NEW p \in DOMAIN rows, rows[p].id = cache[e].id
          PROVE  \E k \in DOMAIN rows' : rows'[k].id = cache'[q].id
      <4>1. e # j
        BY <3>1 DEF entries
      <4>2. cache[e].id # cache[j].id
        BY <4>1 DEF CacheWell
      <4>3. p \in keep
        BY <3>3, <4>2, <1>2 DEF keep
      <4> QED
        BY <4>3, <3>1, <3>3, <1>7
    <3> QED
      BY <3>2, <3>3 DEF Paired
  <2> QED
    BY <2>1, <2>2, <1>1 DEF Paired
<1>10. ItemsWell' /\ RowShown'
  <2>1. saved' \subseteq saved
    BY <1>1
  <2>2. ASSUME NEW y \in saved', NEW k \in DOMAIN rows, IsHttp(y.kind),
               y.dest \notin Unsized \cup cleared, rows[k].dest = y.dest
        PROVE  k \in keep
    <3>1. SavedAs(y.dest) = {y}
      BY <2>1, <2>2, OneSaved
    <3>2. OwnKind(y) /\ OwnKind(rows[k])
      BY <2>1 DEF ItemsWell, RowsWell
    <3>3. IsHttp(rows[k].kind)
      BY <2>2, <3>2, NamesAssumption DEF OwnKind, IsHttp, Dests
    <3>4. k # i
      BY <3>1, <3>3, <2>2, <1>1, <1>2
    <3> QED
      BY <3>4 DEF keep
  <2>3. cleared \subseteq cleared' /\ cleared' = cleared
    BY <1>1
  <2> QED
    BY <2>1, <2>2, <2>3, <1>7, LeftShown
<1> QED
  BY <1>7, <1>8, <1>9, <1>10

LEMMA ClearKeeps ==
  ASSUME RowsWell, CacheWell, ItemsWell, Identified, Paired, OneRow, OneItem, RowShown,
         up = TRUE, clearOldHistory
  PROVE  /\ RowsWell' /\ CacheWell' /\ ItemsWell' /\ Paired' /\ OneRow' /\ RowShown'
         /\ \A k \in DOMAIN rows' : \E p \in DOMAIN rows : rows'[k] = rows[p]
<1> DEFINE done == {i \in DOMAIN rows : rows[i].status = "Completed"}
           keep == (DOMAIN rows) \ done
<1>1. PICK gone \in SUBSET done :
          /\ saved' = saved \ UNION {SavedAs(rows[i].dest) : i \in done \ gone}
          /\ rows' = removeRows(rows, done)
          /\ cleared' = cleared \cup {rows[i].dest : i \in done}
  BY DEF clearOldHistory
<1>2. made' = made /\ cache' = cache
  BY DEF clearOldHistory
<1>3. IsSequence(rows) /\ DOMAIN rows = 1 .. Len(rows)
  BY IsSeq DEF RowsWell
<1>4. cleared \subseteq cleared' /\ \A i \in done : rows[i].dest \in cleared'
  BY <1>1
<1> HIDE DEF done
<1>5. Left(rows', rows, keep)
  <2>1. Left(removeRows(rows, done), rows, (1 .. Len(rows)) \ done)
    BY <1>3, RemoveRowsLeaves
  <2> QED
    BY <2>1, <1>1, <1>3
<1>6. \A k \in DOMAIN rows : k \notin keep => rows[k].dest \in cleared'
  BY <1>4
<1> HIDE DEF keep
<1>7. /\ RowsWell' /\ OneRow'
      /\ \A p \in keep : \E k \in DOMAIN rows' : rows'[k] = rows[p]
      /\ \A k \in DOMAIN rows' : \E p \in DOMAIN rows \cap keep : rows'[k] = rows[p]
  BY <1>2, <1>4, <1>5, LeftRows
<1>8. CacheWell'
  BY <1>2 DEF CacheWell, IsEntry, OwnKind, IsSequence
<1>9. Paired'
  <2>1. ASSUME NEW k \in DOMAIN rows'
        PROVE  \E q \in DOMAIN cache : /\ cache[q].id = rows'[k].id
                                       /\ cache[q].dest = rows'[k].dest
                                       /\ cache[q].kind = rows'[k].kind
    BY <1>7 DEF Paired
  <2>2. ASSUME NEW q \in DOMAIN cache
        PROVE  cache[q].dest \in cleared' \/ \E k \in DOMAIN rows' : rows'[k].id = cache[q].id
    <3>1. CASE cache[q].dest \in cleared
      BY <3>1, <1>4
    <3>2. ASSUME NEW p \in DOMAIN rows, rows[p].id = cache[q].id
          PROVE  cache[q].dest \in cleared' \/ \E k \in DOMAIN rows' : rows'[k].id = cache[q].id
      <4>1. CASE p \in keep
        BY <4>1, <3>2, <1>7
      <4>2. CASE p \notin keep
        <5>1. PICK e \in DOMAIN cache : cache[e].id = rows[p].id /\ cache[e].dest = rows[p].dest
          BY DEF Paired
        <5>2. e = q
          BY <5>1, <3>2 DEF CacheWell
        <5> QED
          BY <5>1, <5>2, <4>2, <1>6
      <4> QED
        BY <4>1, <4>2
    <3> QED
      BY <3>1, <3>2 DEF Paired
  <2> QED
    BY <2>1, <2>2, <1>2 DEF Paired
<1>10. ItemsWell' /\ RowShown'
  <2>1. saved' \subseteq saved
    BY <1>1
  <2>2. \A y \in saved', k \in DOMAIN rows :
            /\ IsHttp(y.kind) /\ y.dest \notin Unsized \cup cleared'
            /\ rows[k].dest = y.dest
            => k \in keep
    BY <1>6
  <2> QED
    BY <2>1, <2>2, <1>4, <1>7, LeftShown
<1> QED
  BY <1>7, <1>8, <1>9, <1>10

----------------------------------------------------------------------------
(* The reports of the transfers.                                           *)

LEMMA FirstIs ==
  ASSUME NEW T \in SUBSET Nat, T # {}
  PROVE  (CHOOSE n \in T : \A m \in T : n <= m) \in T
  BY LeastNat, Zenon

\* What manageDlStats makes of a row.
Figures(entries, i) == {j \in DOMAIN entries : entries[j].id = rows[i].id
                                               /\ entries[j].samples > 1}

LEMMA StatsRow ==
  ASSUME RowsWell, NEW entries, NEW i \in DOMAIN rows, NEW t, t = manageDlStats(entries)
  PROVE  /\ i \in DOMAIN t /\ IsRow(t[i])
         /\ t[i].id = rows[i].id /\ t[i].dest = rows[i].dest /\ t[i].kind = rows[i].kind
         /\ t[i].status = rows[i].status
         /\ Figures(entries, i) # {} => t[i].shown # "none"
<1> DEFINE own == Figures(entries, i)
           text == IF entries[CHOOSE j \in own : TRUE].info # {} THEN "figures" ELSE "junk"
<1>1. i \in DOMAIN t /\ t[i] = IF own = {} THEN rows[i] ELSE [rows[i] EXCEPT !.shown = text]
  BY Zenon DEF manageDlStats, Figures
<1>2. IsRow(rows[i])
  BY DEF RowsWell
<1>3. text # "none"
  OBVIOUS
<1> HIDE DEF own, text
<1>4. CASE own = {}
  BY <1>1, <1>2, <1>4 DEF own
<1>5. CASE own # {}
  <2>1. t[i] = [rows[i] EXCEPT !.shown = text]
    BY <1>1, <1>5
  <2>2. IsRow(t[i]) /\ t[i].id = rows[i].id /\ t[i].dest = rows[i].dest
        /\ t[i].kind = rows[i].kind /\ t[i].status = rows[i].status /\ t[i].shown = text
    BY <1>2, <2>1, Refigured
  <2> QED
    BY <2>2, <1>1, <1>3
<1> QED
  BY <1>4, <1>5

LEMMA StatsTable ==
  ASSUME RowsWell, NEW entries, rows' = manageDlStats(entries)
  PROVE  SameRows /\ \A i \in DOMAIN rows : rows'[i].status = rows[i].status
<1>1. IsSequence(rows) /\ DOMAIN rows = 1 .. Len(rows) /\ Len(rows) \in Nat
  BY IsSeq DEF RowsWell
<1>2. \A i \in DOMAIN rows :
         /\ IsRow(rows'[i])
         /\ rows'[i].id = rows[i].id /\ rows'[i].dest = rows[i].dest
         /\ rows'[i].kind = rows[i].kind /\ rows'[i].status = rows[i].status
  BY StatsRow
<1>3. IsSequence(rows') /\ DOMAIN rows' = DOMAIN rows
  <2>1. \E g : rows' = [i \in DOMAIN rows |-> g[i]]
    <3> DEFINE g == manageDlStats(entries)
    <3>1. g = [i \in DOMAIN rows |-> g[i]]
      BY Zenon DEF manageDlStats
    <3> QED
      BY <3>1
  <2>2. PICK g : rows' = [i \in DOMAIN rows |-> g[i]]
    BY <2>1
  <2>3. rows' = [i \in 1 .. Len(rows) |-> rows'[i]]
    BY <2>2, <1>1
  <2>4. Len(rows') = Len(rows)
    BY <2>3, <1>1
  <2> QED
    BY <2>3, <2>4, <1>1 DEF IsSequence
<1> QED
  BY <1>2, <1>3 DEF SameRows

\* The HTTP entries of a destination.
Fit(d) == {j \in DOMAIN cache : IsHttp(cache[j].kind) /\ cache[j].dest = d}
First(T) == CHOOSE n \in T : \A m \in T : n <= m

LEMMA XferStatsIs ==
  ASSUME NEW d, recvCurl_XferStats(d)
  PROVE  \/ Fit(d) = {} /\ rows' = rows /\ cache' = cache
         \/ /\ Fit(d) # {}
            /\ cache' = [cache EXCEPT ![First(Fit(d))] = [cache[First(Fit(d))] EXCEPT !.samples = 2]]
            /\ rows' = manageDlStats(cache')
<1>1. CASE Fit(d) = {}
  BY <1>1, Zenon DEF recvCurl_XferStats, Fit
<1>2. CASE Fit(d) # {}
  <2> DEFINE entries == [cache EXCEPT ![First(Fit(d))].samples = 2]
  <2>1. cache' = entries /\ rows' = manageDlStats(entries)
    BY <1>2, Zenon DEF recvCurl_XferStats, Fit, First
  <2>2. entries = [cache EXCEPT ![First(Fit(d))] = [cache[First(Fit(d))] EXCEPT !.samples = 2]]
    OBVIOUS
  <2> QED
    BY <1>2, <2>1, <2>2
<1> QED
  BY <1>1, <1>2

LEMMA XferStatsKeeps ==
  ASSUME RowsWell, CacheWell, NEW d, recvCurl_XferStats(d)
  PROVE  /\ SameRows /\ SameEntries /\ \A i \in DOMAIN rows : rows'[i].status = rows[i].status
         /\ \A j \in DOMAIN cache :
               Fit(d) = {j} => /\ cache'[j].samples = 2
                               /\ \A i \in DOMAIN rows : rows[i].id = cache[j].id
                                     => rows'[i].shown # "none"
<1>1. CASE Fit(d) = {} /\ rows' = rows /\ cache' = cache
  BY <1>1, SameRowsKept, SameEntriesKept
<1>2. CASE /\ Fit(d) # {}
           /\ cache' = [cache EXCEPT ![First(Fit(d))] = [cache[First(Fit(d))] EXCEPT !.samples = 2]]
           /\ rows' = manageDlStats(cache')
  <2> DEFINE f == First(Fit(d))
             v == [cache[f] EXCEPT !.samples = 2]
  <2>1. IsSequence(cache) /\ DOMAIN cache = 1 .. Len(cache)
    BY IsSeq DEF CacheWell
  <2>2. f \in Fit(d)
    <3>1. Fit(d) \in SUBSET Nat
      BY <2>1 DEF Fit
    <3> QED
      BY <3>1, <1>2, FirstIs DEF First
  <2>3. f \in DOMAIN cache
    BY <2>2 DEF Fit
  <2> HIDE DEF f
  <2>4. IsEntry(cache[f])
    BY <2>3 DEF CacheWell
  <2>5. IsEntry(v) /\ v.id = cache[f].id /\ v.dest = cache[f].dest /\ v.kind = cache[f].kind
        /\ v.samples = 2
    BY <2>4, Sampled
  <2> HIDE DEF v
  <2> DEFINE c == [cache EXCEPT ![f] = v]
  <2>6. /\ IsSequence(c) /\ DOMAIN c = DOMAIN cache
        /\ c[f] = v /\ \A k \in DOMAIN cache : k # f => c[k] = cache[k]
    BY <2>1, <2>3, Replaced
  <2> HIDE DEF c
  <2>7. cache' = c
    BY <1>2 DEF c, v, f
  <2>8. SameEntries
    <3>1. \A j \in DOMAIN cache :
             /\ IsEntry(c[j]) /\ c[j].id = cache[j].id
             /\ c[j].dest = cache[j].dest /\ c[j].kind = cache[j].kind
             /\ c[j].samples \in {1, 2}
      BY <2>5, <2>6 DEF CacheWell
    <3> QED
      BY <3>1, <2>6, <2>7 DEF SameEntries
  <2>9. rows' = manageDlStats(c)
    BY <1>2, <2>7
  <2>10. SameRows /\ \A i \in DOMAIN rows : rows'[i].status = rows[i].status
    BY <2>9, StatsTable
  <2>11. ASSUME NEW j \in DOMAIN cache, Fit(d) = {j}
         PROVE  /\ cache'[j].samples = 2
                /\ \A i \in DOMAIN rows : rows[i].id = cache[j].id => rows'[i].shown # "none"
    <3>1. j = f
      BY <2>2, <2>11
    <3>2. c[j].samples = 2 /\ c[j].id = cache[j].id
      BY <3>1, <2>5, <2>6
    <3>3. ASSUME NEW i \in DOMAIN rows, rows[i].id = cache[j].id
          PROVE  rows'[i].shown # "none"
      <4>1. j \in Figures(c, i)
        BY <3>2, <3>3, <2>6 DEF Figures
      <4> QED
        BY <4>1, <2>9, StatsRow
    <3> QED
      BY <3>2, <3>3, <2>7
  <2> QED
    BY <2>8, <2>10, <2>11
<1> QED
  BY <1>1, <1>2, XferStatsIs

\* While its rows are there, a destination has one entry.
LEMMA OneEntry ==
  ASSUME RowsWell, CacheWell, Paired, OneRow, NEW i \in DOMAIN rows,
         rows[i].dest \notin Torrents \cup cleared, NEW j \in DOMAIN cache,
         cache[j].dest = rows[i].dest
  PROVE  cache[j].id = rows[i].id
<1>1. PICK k \in DOMAIN rows : rows[k].id = cache[j].id
  BY DEF Paired
<1>2. PICK e \in DOMAIN cache : cache[e].id = rows[k].id /\ cache[e].dest = rows[k].dest
  BY DEF Paired
<1>3. e = j
  BY <1>1, <1>2 DEF CacheWell
<1>4. k = i
  BY <1>2, <1>3 DEF OneRow
<1> QED
  BY <1>1, <1>4

\* The row and the details of the download that a report is about.
LEMMA StatsReach ==
  ASSUME RowsWell, CacheWell, Paired, OneRow, NEW i \in DOMAIN rows,
         rows[i].dest \in Dests, rows[i].dest \notin cleared,
         recvCurl_XferStats(rows[i].dest)
  PROVE  rows'[i].shown # "none" /\ Details(i)'.figures
<1> DEFINE d == rows[i].dest
<1>1. PICK j \in DOMAIN cache : cache[j].id = rows[i].id /\ cache[j].dest = d
                                /\ cache[j].kind = rows[i].kind
  BY DEF Paired
<1>2. d \notin Torrents \cup cleared /\ IsHttp(rows[i].kind)
  BY NamesAssumption DEF RowsWell, OwnKind, IsHttp, Dests
<1>3. \A k \in DOMAIN cache : cache[k].dest = d => k = j
  BY <1>1, <1>2, OneEntry DEF CacheWell
<1>4. Fit(d) = {j}
  BY <1>1, <1>2, <1>3 DEF Fit
<1>5. /\ SameRows /\ SameEntries
      /\ cache'[j].samples = 2 /\ rows'[i].shown # "none"
  BY <1>1, <1>4, XferStatsKeeps
<1> DEFINE same == {k \in DOMAIN cache' : cache'[k].dest = rows'[i].dest}
<1>6. same = {j}
  BY <1>1, <1>3, <1>5 DEF SameRows, SameEntries
<1>7. First(same) = j
  <2>1. j \in Nat
    BY IsSeq DEF CacheWell
  <2>2. First({j}) \in {j}
    BY <2>1, FirstIs DEF First
  <2> QED
    BY <2>2, <1>6
<1>8. Details(i)'.figures = (same # {} /\ cache'[First(same)].samples > 1)
  BY Zenon DEF Details, First
<1> HIDE DEF same
<1>9. same # {} /\ cache'[First(same)].samples > 1
  BY <1>5, <1>6, <1>7
<1> QED
  BY <1>5, <1>8, <1>9, Zenon

\* The row whose transfer has finished.
LEMMA FinishedKeeps ==
  ASSUME RowsWell, ItemsWell, Identified, OneRow, OneItem, RowShown, up = TRUE,
         NEW d \in Dests, recvDlFinished(d), cleared' = cleared
  PROVE  /\ SameRows /\ ItemsWell' /\ RowShown'
         /\ \A k \in DOMAIN rows : rows'[k].status \in {rows[k].status, "Completed"}
<1> DEFINE fit == {i \in RowsOf(d) : rows[i].status = "Downloading"}
           i == First(fit)
<1>1. CASE fit = {}
  <2>1. rows' = rows /\ saved' = saved
    BY <1>1 DEF recvDlFinished
  <2> QED
    BY <2>1, SameRowsKept DEF ItemsWell, OwnKind, RowShown
<1>2. CASE fit # {}
  <2>1. fit \in SUBSET Nat
    <3>1. DOMAIN rows = 1 .. Len(rows) /\ Len(rows) \in Nat
      BY IsSeq DEF RowsWell
    <3>2. DOMAIN rows \subseteq Nat
      BY <3>1
    <3> QED
      BY <3>2 DEF RowsOf
  <2>2. i \in fit
    BY <1>2, <2>1, FirstIs DEF First
  <2>3. i \in DOMAIN rows /\ rows[i].dest = d
    BY <2>2 DEF RowsOf
  <2> HIDE DEF i
  <2>4. IsHttp(rows[i].kind)
    BY <2>3, NamesAssumption DEF RowsWell, OwnKind, IsHttp, Dests
  <2>5. \/ rows' = rows /\ saved' = saved
        \/ /\ rows' = updateCol(rows, i, "Completed")
           /\ SavedAs(d) = {} /\ saved' = saved
        \/ /\ rows' = updateCol(rows, i, "Completed")
           /\ \E given, type : modifyCurlItem(d, "Completed", given, type, NoSum, "NotApplicable")
    BY Zenon DEF recvDlFinished, i, First
  <2>6. CASE rows' = rows /\ saved' = saved
    BY <2>6, SameRowsKept DEF ItemsWell, OwnKind, RowShown
  <2>7. CASE /\ rows' = updateCol(rows, i, "Completed")
             /\ SavedAs(d) = {} /\ saved' = saved
    BY <2>3, <2>7, LabelKeeps, Updates
  <2>8. CASE /\ rows' = updateCol(rows, i, "Completed")
             /\ \E given, type : modifyCurlItem(d, "Completed", given, type, NoSum, "NotApplicable")
    BY <2>3, <2>4, <2>8, StatusKeeps, Updates
  <2> QED
    BY <2>5, <2>6, <2>7, <2>8
<1> QED
  BY <1>1, <1>2

----------------------------------------------------------------------------
(* The start of a session.                                                 *)

\* A row after resetDlStateStartup.
LEMMA ResetRow ==
  ASSUME NEW table, NEW k \in DOMAIN table, IsRow(table[k]), NEW u, u = resetDlState(table)
  PROVE  /\ IsRow(u[k])
         /\ u[k].id = table[k].id /\ u[k].dest = table[k].dest /\ u[k].kind = table[k].kind
         /\ table[k].status # "Downloading" => u[k].status = table[k].status
         /\ table[k].status = "Downloading" /\ IsHttp(table[k].kind) => u[k].status = "Paused"
<1> DEFINE text == IF IsHttp(table[k].kind) THEN "Paused" ELSE "Stopped"
<1>1. u[k] = IF table[k].status = "Downloading" THEN [table[k] EXCEPT !.status = text]
             ELSE table[k]
  BY Zenon DEF resetDlState
<1>2. IsHttp(table[k].kind) => text = "Paused"
  OBVIOUS
<1> HIDE DEF text
<1>3. CASE table[k].status = "Downloading"
  <2>1. u[k] = [table[k] EXCEPT !.status = text]
    BY <1>1, <1>3
  <2>2. /\ IsRow(u[k]) /\ u[k].id = table[k].id /\ u[k].dest = table[k].dest
        /\ u[k].kind = table[k].kind /\ u[k].status = text
    BY <2>1, Relabelled
  <2> QED
    BY <2>2, <1>2, <1>3
<1>4. CASE table[k].status # "Downloading"
  BY <1>1, <1>4
<1> QED
  BY <1>3, <1>4

LEMMA ResetTable ==
  ASSUME NEW table, IsSequence(table), NEW u, u = resetDlState(table)
  PROVE  IsSequence(u) /\ DOMAIN u = DOMAIN table
<1>1. DOMAIN table = 1 .. Len(table) /\ Len(table) \in Nat
  BY IsSeq
<1>2. u = [i \in DOMAIN table |-> u[i]]
  BY Zenon DEF resetDlState
<1>3. u = [i \in 1 .. Len(table) |-> u[i]]
  BY <1>1, <1>2
<1>4. Len(u) = Len(table)
  BY <1>1, <1>3
<1> QED
  BY <1>1, <1>3, <1>4 DEF IsSequence

\* The table and the cache that readFromHistoryFile makes of the items.
LEMMA ReadRows ==
  ASSUME Identified, ItemsWell, NEW h, EachOnce(Known, h), NEW w, Read(h, Len(h), w)
  PROVE  /\ IsSequence(w.table) /\ IsSequence(w.entries)
         /\ \A k \in DOMAIN w.table :
              \E x \in Known : /\ w.table[k] = RowFor(x)
                               /\ \E j \in DOMAIN w.entries : w.entries[j] = Charted(RowFor(x), saved)
         /\ \A j \in DOMAIN w.entries :
              \E x \in Known : /\ w.entries[j] = Charted(RowFor(x), saved)
                               /\ \E k \in DOMAIN w.table : w.table[k] = RowFor(x)
         /\ \A x \in Known : \E k \in DOMAIN w.table : w.table[k] = RowFor(x)
         /\ \A k, l \in DOMAIN w.table : w.table[k].id = w.table[l].id => k = l
         /\ \A k, l \in DOMAIN w.entries : w.entries[k].id = w.entries[l].id => k = l
<1> DEFINE n == Len(h)
           t == w.table
           c == w.entries
           at(k) == n + 1 - k
<1>1. /\ IsSequence(h) /\ n \in Nat
      /\ \A i \in 1 .. n : h[i] \in Known
      /\ \A i, j \in 1 .. n : h[i] = h[j] => i = j
      /\ \A x \in Known : \E i \in 1 .. n : h[i] = x
  BY IsSeq DEF EachOnce
<1>2. /\ IsSequence(t) /\ Len(t) = n
      /\ \A k \in 1 .. n : t[k] = RowFor(h[at(k)])
      /\ IsSequence(c) /\ Len(c) = n
      /\ \A k \in 1 .. n : c[k] = Charted(RowFor(h[k]), saved)
  BY DEF Read
<1>3. DOMAIN t = 1 .. n /\ DOMAIN c = 1 .. n
  BY <1>2, IsSeq
<1> HIDE DEF n, t, c
<1>4. \A k \in 1 .. n : at(k) \in 1 .. n /\ at(at(k)) = k
  BY <1>1
<1>5. \A x, y \in Known : x.id = y.id => x = y
  BY DEF Identified, Known
<1>6. \A x : RowFor(x).id = x.id /\ Charted(RowFor(x), saved).id = x.id
  BY DEF RowFor, Row, Charted
<1> HIDE DEF at
<1>7. \A k \in 1 .. n :
         \E x \in Known : /\ t[k] = RowFor(x)
                          /\ \E j \in 1 .. n : c[j] = Charted(RowFor(x), saved)
  BY <1>1, <1>2, <1>4
<1>8. ASSUME NEW j \in 1 .. n
      PROVE  \E x \in Known : /\ c[j] = Charted(RowFor(x), saved)
                              /\ \E k \in 1 .. n : t[k] = RowFor(x)
  <2>1. at(j) \in 1 .. n /\ t[at(j)] = RowFor(h[j])
    BY <1>2, <1>4
  <2> QED
    BY <2>1, <1>1, <1>2
<1>9. ASSUME NEW x \in Known PROVE \E k \in 1 .. n : t[k] = RowFor(x)
  <2>1. PICK i \in 1 .. n : h[i] = x
    BY <1>1
  <2>2. at(i) \in 1 .. n /\ t[at(i)] = RowFor(x)
    BY <2>1, <1>2, <1>4
  <2> QED
    BY <2>2
<1>10. ASSUME NEW k \in 1 .. n, NEW l \in 1 .. n, t[k].id = t[l].id PROVE k = l
  <2>1. t[k].id = h[at(k)].id /\ t[l].id = h[at(l)].id
    BY <1>2, <1>6
  <2>2. h[at(k)] = h[at(l)]
    <3>1. at(k) \in 1 .. n /\ at(l) \in 1 .. n
      BY <1>4
    <3>2. h[at(k)] \in Known /\ h[at(l)] \in Known
      BY <3>1, <1>1
    <3> QED
      BY <3>2, <2>1, <1>5, <1>10
  <2>3. at(k) = at(l)
    BY <2>2, <1>1, <1>4
  <2> QED
    BY <2>3, <1>4
<1>11. ASSUME NEW k \in 1 .. n, NEW l \in 1 .. n, c[k].id = c[l].id PROVE k = l
  <2>1. c[k].id = h[k].id /\ c[l].id = h[l].id
    BY <1>2, <1>6
  <2> QED
    BY <2>1, <1>1, <1>5, <1>11
<1>12. /\ \A k \in DOMAIN t :
             \E x \in Known : /\ t[k] = RowFor(x)
                              /\ \E j \in DOMAIN c : c[j] = Charted(RowFor(x), saved)
       /\ \A j \in DOMAIN c :
             \E x \in Known : /\ c[j] = Charted(RowFor(x), saved)
                              /\ \E k \in DOMAIN t : t[k] = RowFor(x)
  BY <1>3, <1>7, <1>8
<1>13. /\ \A x \in Known : \E k \in DOMAIN t : t[k] = RowFor(x)
       /\ \A k, l \in DOMAIN t : t[k].id = t[l].id => k = l
       /\ \A k, l \in DOMAIN c : c[k].id = c[l].id => k = l
  BY <1>3, <1>9, <1>10, <1>11
<1> QED
  BY <1>2, <1>12, <1>13 DEF t, c

\* The rows left Downloading.
Stuck(table) == {table[i].dest : i \in {k \in DOMAIN table :
                    table[k].status = "Downloading" /\ IsHttp(table[k].kind)}}

LEMMA StartIs ==
  ASSUME Identified, ItemsWell, StartSession
  PROVE  /\ up = FALSE /\ up' = TRUE /\ made' = made /\ cleared' = cleared
         /\ \E h, w : /\ EachOnce(Known, h) /\ Read(h, Len(h), w)
                      /\ rows' = resetDlState(w.table) /\ cache' = w.entries
                      /\ Restated(UNION {SavedAs(d) : d \in Stuck(w.table)}, 3)
<1>1. PICK curl \in readCurlItems, torrent \in readTorrentItems :
         LET read  == readFromHistoryFile(curl \o torrent)
         IN /\ rows' = resetDlState(read.table)
            /\ cache' = read.entries
            /\ saved' = LET reset == UNION {SavedAs(d) : d \in Stuck(read.table)}
                        IN (saved \ reset) \cup
                             {[x EXCEPT !.stat = convDlStat_toInt("Paused")] : x \in reset}
  BY Zenon DEF StartSession, Stuck
<1> DEFINE h == curl \o torrent
           w == readFromHistoryFile(h)
           reset == UNION {SavedAs(d) : d \in Stuck(w.table)}
           t == convDlStat_toInt("Paused")
           mod(x) == [x EXCEPT !.stat = t]
<1>2. EachOnce(Known, h)
  BY HistoryIs DEF ItemsWell
<1>3. IsSequence(h)
  BY <1>2 DEF EachOnce
<1> HIDE DEF h
<1>4. Read(h, Len(h), w)
  BY <1>3, ReadIs
<1>5. /\ rows' = resetDlState(w.table) /\ cache' = w.entries
      /\ saved' = (saved \ reset) \cup {mod(x) : x \in reset}
  BY <1>1, Zenon DEF h
<1>6. \A x \in reset : x \in saved
  BY DEF SavedAs
<1> HIDE DEF w, reset, t
<1>7. \A x \in reset : mod(x) = WithStat(x, t)
  <2>1. \A x \in reset : IsItem(x)
    BY <1>6 DEF Identified
  <2> QED
    BY <2>1, Reset, Zenon DEF WithStat
<1>8. Restated(reset, t)
  <2> HIDE DEF mod
  <2>1. {mod(x) : x \in reset} = {WithStat(x, t) : x \in reset}
    BY <1>7
  <2> QED
    BY <1>5, <2>1 DEF Restated
<1>9. t = 3
  BY StatNumbers DEF t
<1>10. /\ EachOnce(Known, h) /\ Read(h, Len(h), w)
       /\ rows' = resetDlState(w.table) /\ cache' = w.entries
       /\ Restated(UNION {SavedAs(d) : d \in Stuck(w.table)}, 3)
  BY <1>2, <1>4, <1>5, <1>8, <1>9 DEF reset
<1>11. up = FALSE /\ up' = TRUE /\ made' = made /\ cleared' = cleared
  BY DEF StartSession
<1> QED
  BY <1>10, <1>11

LEMMA StartKeeps ==
  ASSUME Identified, ItemsWell, OneItem, StartSession
  PROVE  RowsWell' /\ CacheWell' /\ ItemsWell' /\ Paired' /\ OneRow' /\ RowShown'
<1>1. PICK h, w : /\ EachOnce(Known, h) /\ Read(h, Len(h), w)
                  /\ rows' = resetDlState(w.table) /\ cache' = w.entries
                  /\ Restated(UNION {SavedAs(d) : d \in Stuck(w.table)}, 3)
  BY StartIs
<1>2. up' = TRUE /\ made' = made /\ cleared' = cleared
  BY StartIs
<1> DEFINE t == w.table
           c == w.entries
           u == resetDlState(t)
           reset == UNION {SavedAs(d) : d \in Stuck(t)}
<1>3. rows' = u /\ cache' = c /\ Restated(reset, 3)
  BY <1>1
<1>4. /\ IsSequence(t) /\ IsSequence(c)
      /\ \A k \in DOMAIN t :
            \E x \in Known : /\ t[k] = RowFor(x)
                             /\ \E j \in DOMAIN c : c[j] = Charted(RowFor(x), saved)
      /\ \A j \in DOMAIN c :
            \E x \in Known : /\ c[j] = Charted(RowFor(x), saved)
                             /\ \E k \in DOMAIN t : t[k] = RowFor(x)
      /\ \A x \in Known : \E k \in DOMAIN t : t[k] = RowFor(x)
      /\ \A k, l \in DOMAIN t : t[k].id = t[l].id => k = l
      /\ \A k, l \in DOMAIN c : c[k].id = c[l].id => k = l
  BY <1>1, ReadRows
<1> HIDE DEF t, c, u
<1>5. IsSequence(u) /\ DOMAIN u = DOMAIN t
  BY <1>4, ResetTable DEF u
<1>6. \A x : /\ IsRow(RowFor(x)) /\ RowFor(x).id = x.id /\ RowFor(x).dest = x.dest
             /\ RowFor(x).kind = x.kind /\ RowFor(x).status = convDlStat_IntToEnum(x.stat)
  BY RowFields DEF RowFor
<1>7. \A x : LET e == Charted(RowFor(x), saved)
            IN /\ IsEntry(e) /\ e.id = x.id /\ e.dest = x.dest /\ e.kind = x.kind /\ e.samples = 1
  BY <1>6, ChartedFields
<1>8. \A k \in DOMAIN t : IsRow(t[k])
  BY <1>4, <1>6
<1>9. \A k \in DOMAIN t :
         /\ IsRow(u[k])
         /\ u[k].id = t[k].id /\ u[k].dest = t[k].dest /\ u[k].kind = t[k].kind
         /\ t[k].status # "Downloading" => u[k].status = t[k].status
         /\ t[k].status = "Downloading" /\ IsHttp(t[k].kind) => u[k].status = "Paused"
  BY <1>8, ResetRow DEF u
<1>10. \A x \in Known : x \in saved /\ x.id \in 1 .. made /\ OwnKind(x) /\ x.stat \in 0 .. 5
  BY DEF Known, Identified, ItemsWell
<1>11. RowsWell'
  <2>1. ASSUME NEW k \in DOMAIN u
        PROVE  IsRow(u[k]) /\ u[k].id \in 1 .. made /\ OwnKind(u[k])
    <3>1. PICK x \in Known : t[k] = RowFor(x)
      BY <1>4, <1>5
    <3>2. u[k].id = x.id /\ u[k].dest = x.dest /\ u[k].kind = x.kind /\ IsRow(u[k])
      BY <3>1, <1>5, <1>6, <1>9
    <3> QED
      BY <3>2, <1>10 DEF OwnKind
  <2>2. \A k, l \in DOMAIN u : u[k].id = u[l].id => k = l
    BY <1>4, <1>5, <1>9
  <2>3. (\A i \in DOMAIN rows : IsRow(rows[i]) /\ rows[i].id \in 1 .. made /\ OwnKind(rows[i]))'
    BY <2>1, <1>2, <1>3 DEF IsRow, OwnKind
  <2> QED
    BY <2>2, <2>3, <1>3, <1>5 DEF RowsWell, IsSequence
<1>12. CacheWell'
  <2>1. ASSUME NEW j \in DOMAIN c
        PROVE  /\ IsEntry(c[j]) /\ c[j].id \in 1 .. made
               /\ OwnKind(c[j]) /\ c[j].samples \in {1, 2}
    <3>1. PICK x \in Known : c[j] = Charted(RowFor(x), saved)
      BY <1>4
    <3>2. IsEntry(c[j]) /\ c[j].id = x.id /\ c[j].dest = x.dest /\ c[j].kind = x.kind
          /\ c[j].samples = 1
      BY <3>1, <1>7
    <3> QED
      BY <3>2, <1>10 DEF OwnKind
  <2>2. (\A j \in DOMAIN cache : /\ IsEntry(cache[j]) /\ cache[j].id \in 1 .. made
                                 /\ OwnKind(cache[j]) /\ cache[j].samples \in {1, 2})'
    BY <2>1, <1>2, <1>3 DEF IsEntry, OwnKind
  <2> QED
    BY <2>2, <1>3, <1>4 DEF CacheWell, IsSequence
<1>13. Paired'
  <2>1. ASSUME NEW i \in DOMAIN u
        PROVE  \E j \in DOMAIN c :
                  c[j].id = u[i].id /\ c[j].dest = u[i].dest /\ c[j].kind = u[i].kind
    <3>1. PICK x \in Known : /\ t[i] = RowFor(x)
                             /\ \E j \in DOMAIN c : c[j] = Charted(RowFor(x), saved)
      BY <1>4, <1>5
    <3>2. PICK j \in DOMAIN c : c[j] = Charted(RowFor(x), saved)
      BY <3>1
    <3>3. c[j].id = x.id /\ c[j].dest = x.dest /\ c[j].kind = x.kind
      BY <3>2, <1>7
    <3>4. u[i].id = x.id /\ u[i].dest = x.dest /\ u[i].kind = x.kind
      BY <3>1, <1>5, <1>6, <1>9
    <3> QED
      BY <3>3, <3>4
  <2>2. ASSUME NEW j \in DOMAIN c
        PROVE  \E i \in DOMAIN u : u[i].id = c[j].id
    <3>1. PICK x \in Known : /\ c[j] = Charted(RowFor(x), saved)
                             /\ \E k \in DOMAIN t : t[k] = RowFor(x)
      BY <1>4
    <3>2. PICK k \in DOMAIN t : t[k] = RowFor(x)
      BY <3>1
    <3>3. c[j].id = x.id
      BY <3>1, <1>7
    <3>4. k \in DOMAIN u /\ u[k].id = x.id
      BY <3>2, <1>5, <1>6, <1>9
    <3> QED
      BY <3>3, <3>4
  <2>3. (\A i \in DOMAIN rows : \E j \in DOMAIN cache :
            cache[j].id = rows[i].id /\ cache[j].dest = rows[i].dest
            /\ cache[j].kind = rows[i].kind)'
    BY <2>1, <1>3
  <2>4. (\A j \in DOMAIN cache :
            cache[j].dest \in cleared \/ \E i \in DOMAIN rows : rows[i].id = cache[j].id)'
    BY <2>2, <1>3
  <2> QED
    BY <2>3, <2>4 DEF Paired
\* A row is that of an item that is known.
<1>14. ASSUME NEW k \in DOMAIN t, t[k].dest \notin Torrents \cup cleared,
              NEW x \in saved, IsHttp(x.kind), x.dest = t[k].dest, x.dest \notin Unsized
       PROVE  t[k] = RowFor(x)
  <2>1. PICK y \in Known : t[k] = RowFor(y)
    BY <1>4
  <2>2. y.dest = x.dest /\ y \in saved /\ OwnKind(y)
    BY <2>1, <1>6, <1>10, <1>14
  <2>3. IsHttp(y.kind)
    BY <2>2, <1>14 DEF OwnKind, IsHttp
  <2>4. y = x
    BY <2>2, <2>3, <1>14 DEF OneItem
  <2> QED
    BY <2>1, <2>4
<1>15. OneRow'
  <2>1. ASSUME NEW i \in DOMAIN t, NEW k \in DOMAIN t, t[i].dest = t[k].dest,
               t[i].dest \notin Torrents \cup cleared
        PROVE  i = k
    <3>1. PICK x \in Known : t[i] = RowFor(x)
      BY <1>4
    <3>2. x \in saved /\ OwnKind(x) /\ x.dest = t[i].dest
      BY <3>1, <1>6, <1>10
    <3>3. IsHttp(x.kind)
      BY <3>2, <2>1 DEF OwnKind, IsHttp
    <3>4. x.dest \notin Unsized
      BY <3>3 DEF Known
    <3>5. t[k] = RowFor(x)
      BY <3>2, <3>3, <3>4, <2>1, <1>14
    <3> QED
      BY <3>1, <3>5, <1>4
  <2> QED
    BY <2>1, <1>2, <1>3, <1>5, <1>9 DEF OneRow
<1>16. reset \subseteq saved
  BY DEF SavedAs
<1>17. /\ ItemsWell'
       /\ \A y \in saved' : \/ y \in saved \ reset
                           \/ \E x \in reset : /\ y.id = x.id /\ y.dest = x.dest
                                              /\ y.kind = x.kind /\ y.stat = 3
  <2> HIDE DEF reset
  <2> QED
    BY <1>3, <1>16, RestatedKeeps
<1>18. \A x \in reset : \E k \in DOMAIN t : /\ x.dest = t[k].dest /\ t[k].status = "Downloading"
                                           /\ IsHttp(t[k].kind)
  BY DEF Stuck, SavedAs
<1>19. \A k \in DOMAIN t : t[k].status = "Downloading" /\ IsHttp(t[k].kind)
                          => SavedAs(t[k].dest) \subseteq reset
  BY DEF Stuck
<1> HIDE DEF reset
<1>20. ASSUME NEW y \in saved', IsHttp(y.kind), y.dest \notin Unsized \cup cleared
       PROVE  \E k \in DOMAIN u : /\ u[k].dest = y.dest /\ u[k].id = y.id
                                  /\ Shows(u[k].status, y.stat)
  <2>1. CASE y \in saved \ reset
    <3>1. y \in Known /\ SavedAs(y.dest) = {y}
      BY <2>1, <1>20, OneSaved DEF Known
    <3>2. PICK k \in DOMAIN t : t[k] = RowFor(y)
      BY <3>1, <1>4
    <3>3. t[k].status # "Downloading"
      BY <3>1, <3>2, <2>1, <1>6, <1>19, <1>20
    <3>4. u[k].dest = y.dest /\ u[k].id = y.id /\ u[k].status = convDlStat_IntToEnum(y.stat)
      BY <3>2, <3>3, <1>6, <1>9
    <3>5. Shows(convDlStat_IntToEnum(y.stat), y.stat)
      BY <3>1, <1>10, ShowsRead
    <3> QED
      BY <3>4, <3>5, <1>5
  <2>2. ASSUME NEW x \in reset, y.id = x.id, y.dest = x.dest, y.kind = x.kind, y.stat = 3
        PROVE  \E k \in DOMAIN u : /\ u[k].dest = y.dest /\ u[k].id = y.id
                                   /\ Shows(u[k].status, y.stat)
    <3>1. PICK k \in DOMAIN t : /\ x.dest = t[k].dest /\ t[k].status = "Downloading"
                                /\ IsHttp(t[k].kind)
      BY <1>18
    <3>2. x \in saved /\ x.dest \notin Torrents
      BY <2>2, <1>16, <1>20, NamesAssumption DEF ItemsWell, OwnKind, IsHttp, Dests
    <3>3. t[k] = RowFor(x)
      BY <3>1, <3>2, <2>2, <1>14, <1>20
    <3>4. u[k].dest = y.dest /\ u[k].id = y.id /\ u[k].status = "Paused"
      BY <3>1, <3>3, <2>2, <1>6, <1>9
    <3>5. Shows("Paused", 3)
      BY ShowsWritten, StatNumbers
    <3> QED
      BY <3>4, <3>5, <2>2, <1>5
  <2> QED
    BY <2>1, <2>2, <1>17
<1>21. RowShown'
  BY <1>2, <1>3, <1>20 DEF RowShown
<1> QED
  BY <1>11, <1>12, <1>13, <1>15, <1>17, <1>21

----------------------------------------------------------------------------
(* The steps, one action at a time.                                        *)

Table == RowsWell /\ CacheWell /\ ItemsWell /\ Paired /\ OneRow /\ RowShown

LEMMA QuietTable ==
  ASSUME Table, UNCHANGED <<rows, cache, saved, made, cleared, up>>
  PROVE  Table'
<1>1. RowsWell'
  BY DEF Table, RowsWell, IsRow, OwnKind, IsSequence
<1>2. CacheWell'
  BY DEF Table, CacheWell, IsEntry, OwnKind, IsSequence
<1>3. ItemsWell'
  BY DEF Table, ItemsWell, OwnKind
<1>4. Paired' /\ OneRow'
  BY DEF Table, Paired, OneRow
<1>5. RowShown'
  BY DEF Table, RowShown
<1> QED
  BY <1>1, <1>2, <1>3, <1>4, <1>5 DEF Table

\* The user adds a URL or a torrent.
LEMMA AddUrlTable ==
  ASSUME Identified, Table, NEW n \in Names, AddUrl(n), up = TRUE
  PROVE  Table'
<1>1. PICK ok \in BOOLEAN :
         sendDetails(IF ok THEN n ELSE Folder, "HTTP", "Stopped", DialogHash(n), ok, saved)
  BY DEF AddUrl
<1> DEFINE d == IF ok THEN n ELSE Folder
<1>2. sendDetails(d, "HTTP", "Stopped", DialogHash(n), ok, saved)
  BY <1>1
<1>3. d \in Dests
  BY DEF Dests
<1> HIDE DEF d
<1>4. made' = made + 1 /\ cleared' = cleared /\ up' = TRUE
  BY DEF AddUrl, session
<1>5. Added(d, "HTTP", "Stopped", ok)
  BY <1>3, <1>4 DEF Added, OwnKind
<1>6. MoreItems(saved)
  BY DEF MoreItems, Table, ItemsWell
<1> QED
  BY <1>2, <1>4, <1>5, <1>6, AddKeeps DEF Table

LEMMA AddTorrentTable ==
  ASSUME Identified, Table, NEW t \in Torrents, AddTorrent(t), up = TRUE
  PROVE  Table'
<1> DEFINE x == Item(made + 1, t, "Torrent", "Downloading", NoHash)
           db == saved \cup {x}
<1>1. sendDetails(t, "Torrent", "Stopped", NoHash, TRUE, db)
  BY DEF AddTorrent
<1>2. made' = made + 1 /\ cleared' = cleared /\ up' = TRUE
  BY DEF AddTorrent, session
<1>3. Added(t, "Torrent", "Stopped", TRUE)
  BY <1>2 DEF Added, OwnKind
<1>4. x.dest = t /\ x.kind = "Torrent" /\ x.stat = 0
  BY ItemFields, StatNumbers
<1> HIDE DEF x
<1>5. IsFiniteSet(db)
  BY FS_AddElement DEF Table, ItemsWell
<1>6. MoreItems(db)
  BY <1>4, <1>5 DEF MoreItems, OwnKind
<1> HIDE DEF db
<1> QED
  BY <1>1, <1>2, <1>3, <1>6, AddKeeps DEF Table

\* The lines of a list.
CurrentLine == import.lines[import.at]

LEMMA ImportLineIs ==
  ASSUME Identified, Table, ImportLine, up = TRUE, Importing, Imports
  PROVE  /\ Table' /\ made' = made + 1
         /\ \/ /\ CurrentLine.found
               /\ RowsMore(FoundDest(CurrentLine, CurrentLine.name), "Stopped")
               /\ NextLine(CurrentLine, CurrentLine.name)
            \/ /\ ~CurrentLine.found
               /\ RowsMore(LostDest(CurrentLine, import.name), "Invalid")
               /\ NextLine(CurrentLine, import.name)
<1> DEFINE line == CurrentLine
<1>1. /\ line.name \in Dests /\ line.dest \in Dests /\ import.name \in Dests
      /\ line.found \in BOOLEAN
  BY DEF Imports, ListWell, CurrentLine
<1>2. made' = made + 1 /\ cleared' = cleared /\ up' = TRUE
  BY DEF ImportLine, session
<1>3. MoreItems(saved)
  BY DEF MoreItems, Table, ItemsWell
<1> HIDE DEF line
<1>4. \/ /\ line.found
         /\ sendDetails(FoundDest(line, line.name), "HTTP", "Stopped", LineHash(line.sum),
                        line.name # Folder, saved)
         /\ NextLine(line, line.name)
      \/ /\ ~line.found
         /\ sendDetails(LostDest(line, import.name), "HTTP", "Invalid", LineHash(line.sum),
                        FALSE, saved)
         /\ NextLine(line, import.name)
  BY Zenon DEF ImportLine, line, CurrentLine
<1>5. FoundDest(line, line.name) \in Dests /\ LostDest(line, import.name) \in Dests
  BY <1>1 DEF FoundDest, LostDest
<1>6. CASE /\ line.found
           /\ sendDetails(FoundDest(line, line.name), "HTTP", "Stopped", LineHash(line.sum),
                          line.name # Folder, saved)
           /\ NextLine(line, line.name)
  <2> DEFINE d == FoundDest(line, line.name)
             ok == line.name # Folder
  <2>1. ok \in BOOLEAN
    OBVIOUS
  <2>2. sendDetails(d, "HTTP", "Stopped", LineHash(line.sum), ok, saved)
    BY <1>6
  <2>3. d \in Dests
    BY <1>5
  <2> HIDE DEF d, ok
  <2>4. Added(d, "HTTP", "Stopped", ok)
    BY <2>3, <1>2 DEF Added, OwnKind
  <2>5. Table' /\ RowsMore(d, "Stopped")
    BY <2>1, <2>2, <2>4, <1>2, <1>3, AddKeeps DEF Table
  <2> QED
    BY <2>5, <1>2, <1>6 DEF d, line
<1>7. CASE /\ ~line.found
           /\ sendDetails(LostDest(line, import.name), "HTTP", "Invalid", LineHash(line.sum),
                          FALSE, saved)
           /\ NextLine(line, import.name)
  <2> DEFINE d == LostDest(line, import.name)
             h == LineHash(line.sum)
  <2>1. sendDetails(d, "HTTP", "Invalid", h, FALSE, saved)
    BY <1>7
  <2>2. d \in Dests
    BY <1>5
  <2> HIDE DEF d, h
  <2>3. Added(d, "HTTP", "Invalid", FALSE)
    BY <2>2, <1>2 DEF Added, OwnKind
  <2>4. Table' /\ RowsMore(d, "Invalid")
    BY <2>1, <2>3, <1>2, <1>3, AddKeeps DEF Table
  <2> QED
    BY <2>4, <1>2, <1>7 DEF d, line
<1> QED
  BY <1>4, <1>6, <1>7

\* The commands on a row.
LEMMA CommandTable ==
  ASSUME Identified, Table, OneItem, up = TRUE, NEW i \in DOMAIN rows, RowCommand(i)
  PROVE  Table'
<1>1. /\ RowsWell /\ CacheWell /\ ItemsWell /\ Paired /\ OneRow /\ RowShown
  BY DEF Table
<1>2. ASSUME NEW text \in {"Downloading", "Paused", "Stopped"}, IsHttp(rows[i].kind),
             SetStatus(rows[i].dest, text), rows' = updateCol(rows, i, text),
             UNCHANGED <<cache, made, cleared>>
      PROVE  Table'
  <2>1. modifyCurlItem(rows[i].dest, text, NoSum, "None", NoSum, "NotApplicable")
    BY <1>2 DEF SetStatus
  <2>2. SameRows /\ ItemsWell' /\ RowShown'
    BY <2>1, <1>1, <1>2, StatusKeeps
  <2>3. SameEntries /\ made' = made /\ cleared' = cleared
    BY <1>1, <1>2, SameEntriesKept
  <2>4. RowsWell' /\ CacheWell' /\ Paired' /\ OneRow'
    BY <2>2, <2>3, <1>1, SameKeeps
  <2> QED
    BY <2>2, <2>4 DEF Table
<1>3. CASE startHttpDownload(i)
  BY <1>2, <1>3 DEF startHttpDownload
<1>4. CASE stopDownload(i, "Paused") \/ stopDownload(i, "Stopped")
  BY <1>2, <1>4 DEF stopDownload
<1>5. CASE startTorrentDl(i)
  <2>1. /\ ~IsHttp(rows[i].kind) /\ rows' = updateCol(rows, i, "Downloading")
        /\ UNCHANGED <<cache, saved, made, cleared>>
    BY <1>5 DEF startTorrentDl
  <2>2. SameRows /\ ItemsWell' /\ RowShown'
    BY <2>1, <1>1, LabelKeeps
  <2>3. SameEntries /\ made' = made /\ cleared' = cleared
    BY <2>1, <1>1, SameEntriesKept
  <2>4. RowsWell' /\ CacheWell' /\ Paired' /\ OneRow'
    BY <2>2, <2>3, <1>1, SameKeeps
  <2> QED
    BY <2>2, <2>4 DEF Table
<1>6. CASE removeSelRows(i)
  BY <1>1, <1>6, RemoveSelKeeps DEF Table
<1> QED
  BY <1>3, <1>4, <1>5, <1>6 DEF RowCommand

LEMMA ClearTable ==
  ASSUME Identified, Table, OneItem, up = TRUE, clearOldHistory
  PROVE  Table'
  BY ClearKeeps DEF Table

\* A report: the rows stay those of the same downloads.
LEMMA DeliverTable ==
  ASSUME Identified, Table, OneItem, up = TRUE, Deliver, mail \in Seq({"stats", "fin"} \X Dests)
  PROVE  /\ Table' /\ SameRows
         /\ \A k \in DOMAIN rows : rows'[k].status \in {rows[k].status, "Completed"}
<1>1. /\ RowsWell /\ CacheWell /\ ItemsWell /\ Paired /\ OneRow /\ RowShown
  BY DEF Table
<1> DEFINE d == Head(mail)[2]
<1>2. Head(mail) \in {"stats", "fin"} \X Dests /\ d \in Dests
  BY DEF Deliver
<1>3. made' = made /\ cleared' = cleared /\ up' = up
  BY DEF Deliver
<1> HIDE DEF d
<1>4. \/ recvCurl_XferStats(d) /\ saved' = saved
      \/ recvDlFinished(d) /\ cache' = cache
  BY Zenon DEF Deliver, d
<1>5. CASE recvCurl_XferStats(d) /\ saved' = saved
  <2>1. SameRows /\ SameEntries /\ \A k \in DOMAIN rows : rows'[k].status = rows[k].status
    BY <1>1, <1>5, XferStatsKeeps
  <2>2. RowsWell' /\ CacheWell' /\ Paired' /\ OneRow'
    BY <2>1, <1>1, <1>3, SameKeeps
  <2>3. ItemsWell'
    BY <1>1, <1>5 DEF ItemsWell, OwnKind
  <2>4. RowShown'
    BY <1>1, <1>3, <1>5, <2>1 DEF RowShown, SameRows
  <2> QED
    BY <2>1, <2>2, <2>3, <2>4 DEF Table
<1>6. CASE recvDlFinished(d) /\ cache' = cache
  <2>1. /\ SameRows /\ ItemsWell' /\ RowShown'
        /\ \A k \in DOMAIN rows : rows'[k].status \in {rows[k].status, "Completed"}
    BY <1>1, <1>2, <1>3, <1>6, FinishedKeeps
  <2>2. SameEntries
    BY <1>1, <1>6, SameEntriesKept
  <2>3. RowsWell' /\ CacheWell' /\ Paired' /\ OneRow'
    BY <2>1, <2>2, <1>1, <1>3, SameKeeps
  <2> QED
    BY <2>1, <2>3 DEF Table
<1> QED
  BY <1>4, <1>5, <1>6

LEMMA EndTable ==
  ASSUME Identified, Table, EndSession
  PROVE  Table'
<1>1. rows' = <<>> /\ cache' = <<>> /\ saved' = saved /\ up' = FALSE
  BY DEF EndSession
<1>2. IsSequence(<<>>) /\ DOMAIN <<>> = {}
  BY DEF IsSequence
<1>3. RowsWell'
  BY <1>1, <1>2 DEF RowsWell, IsSequence
<1>4. CacheWell'
  BY <1>1, <1>2 DEF CacheWell, IsSequence
<1>5. ItemsWell'
  BY <1>1 DEF Table, ItemsWell, OwnKind
<1>6. Paired' /\ OneRow' /\ RowShown'
  BY <1>1, <1>2 DEF Paired, OneRow, RowShown
<1> QED
  BY <1>3, <1>4, <1>5, <1>6 DEF Table

LEMMA InitTable ==
  Init => Table /\ OneItem
<1> SUFFICES ASSUME Init PROVE Table /\ OneItem
  OBVIOUS
<1>1. rows = <<>> /\ cache = <<>> /\ saved = {} /\ up = FALSE
  BY DEF Init
<1>2. IsSequence(<<>>) /\ DOMAIN <<>> = {}
  BY DEF IsSequence
<1>3. RowsWell
  BY <1>1, <1>2 DEF RowsWell
<1>4. CacheWell
  BY <1>1, <1>2 DEF CacheWell
<1>5. ItemsWell
  BY <1>1, FS_EmptySet DEF ItemsWell
<1>6. Paired /\ OneRow /\ RowShown /\ OneItem
  BY <1>1, <1>2 DEF Paired, OneRow, RowShown, OneItem
<1> QED
  BY <1>3, <1>4, <1>5, <1>6 DEF Table

----------------------------------------------------------------------------
(* Sessions, and the import of a list.                                      *)

LEMMA NoImportIs ==
  /\ Fields(NoImport) /\ NoImport.lines = <<>> /\ NoImport.at = 1 /\ NoImport.name = Folder
  /\ DOMAIN NoImport.lines = {}
<1>1. Fields(NoImport) /\ NoImport.lines = <<>> /\ NoImport.at = 1 /\ NoImport.name = Folder
  BY DEF NoImport, Fields
<1>2. DOMAIN <<>> = {}
  OBVIOUS
<1> QED
  BY <1>1, <1>2

\* What EXCEPT makes of an import, of the next line and of a new one.
LEMMA Stepped ==
  ASSUME NEW imp, Fields(imp), NEW at, NEW name, NEW boxed, NEW u,
         u = [imp EXCEPT !.at = at, !.name = name, !.boxed = boxed]
  PROVE  u = [lines |-> imp.lines, dest |-> imp.dest, dir |-> imp.dir, at |-> at,
              name |-> name, first |-> imp.first, boxed |-> boxed]
  BY DEF Fields

LEMMA NextLineIs ==
  ASSUME Fields(import), NEW line, NEW name, NextLine(line, name)
  PROVE  \/ import' = NoImport
         \/ /\ import.at # Len(import.lines)
            /\ Fields(import')
            /\ import'.lines = import.lines /\ import'.dest = import.dest
            /\ import'.dir = import.dir /\ import'.first = import.first
            /\ import'.at = import.at + 1 /\ import'.name = name
<1> DEFINE boxed == ~leaving /\ rows' = rows
           next == [import EXCEPT !.at = import.at + 1, !.name = name, !.boxed = boxed]
<1>1. \/ import' = NoImport
      \/ import.at # Len(import.lines) /\ import' = next
  BY DEF NextLine
<1> HIDE DEF boxed
<1>2. /\ Fields(next)
      /\ next.lines = import.lines /\ next.dest = import.dest
      /\ next.dir = import.dir /\ next.first = import.first
      /\ next.at = import.at + 1 /\ next.name = name
  <2>1. next = [lines |-> import.lines, dest |-> import.dest, dir |-> import.dir,
                at |-> import.at + 1, name |-> name, first |-> import.first, boxed |-> boxed]
    BY Stepped
  <2> HIDE DEF next
  <2> QED
    BY <2>1 DEF Fields
<1> HIDE DEF next
<1> QED
  BY <1>1, <1>2

LEMMA BeginImportIs ==
  ASSUME NEW list \in Lists, BeginImport(list)
  PROVE  /\ Fields(import')
         /\ import'.lines = list.lines /\ import'.dest = list.dest /\ import'.dir = list.dir
         /\ import'.at = 1 /\ import'.name = Folder /\ import'.first = made + 1
<1> DEFINE lines == list.lines
           dest == list.dest
           dir == list.dir
           first == made + 1
<1>1. import' = [NoImport EXCEPT !.lines = lines, !.dest = dest, !.dir = dir, !.first = first]
  BY DEF BeginImport
<1> HIDE DEF lines, dest, dir, first
<1>2. import' = [lines |-> lines, dest |-> dest, dir |-> dir, at |-> 1, name |-> Folder,
                 first |-> first, boxed |-> FALSE]
  BY <1>1 DEF NoImport
<1>4. /\ Fields(import')
      /\ import'.lines = lines /\ import'.dest = dest /\ import'.dir = dir
      /\ import'.at = 1 /\ import'.name = Folder /\ import'.first = first
  BY <1>2 DEF Fields
<1> QED
  BY <1>4 DEF lines, dest, dir, first

\* A session goes on until it ends.
LEMMA InSession ==
  ASSUME Next
  PROVE  \/ up /\ up' = up
         \/ up /\ EndSession
         \/ ~up /\ StartSession
<1>1. ASSUME NEW i \in DOMAIN rows, RowCommand(i) PROVE up /\ up' = up
  BY <1>1 DEF RowCommand, startHttpDownload, startTorrentDl, stopDownload, removeSelRows,
              Command, session
<1>2. ASSUME NEW d \in Dests, Report(d) \/ TransferLost(d) PROVE up /\ up' = up
  BY <1>2 DEF Report, TransferLost, session
<1>3. ASSUME NEW n \in DOMAIN Chosen, AddUrl(n) PROVE up /\ up' = up
  BY <1>3 DEF AddUrl, Command, session
<1>4. ASSUME NEW t \in Torrents, AddTorrent(t) PROVE up /\ up' = up
  BY <1>4 DEF AddTorrent, Command, session
<1>5. ASSUME NEW list \in Lists, BeginImport(list) PROVE up /\ up' = up
  BY <1>5 DEF BeginImport, Command, session
<1>6. CASE ImportLine \/ Deliver \/ clearOldHistory
  BY <1>6 DEF ImportLine, Deliver, clearOldHistory, Command, session
<1>7. CASE EndSession
  BY <1>7 DEF EndSession
<1>8. CASE StartSession
  BY <1>8 DEF StartSession
<1> QED
  BY <1>1, <1>2, <1>3, <1>4, <1>5, <1>6, <1>7, <1>8 DEF Next

\* The import changes with its own steps, and the mail with those of a transfer.
LEMMA ImportSteps ==
  ASSUME Next
  PROVE  \/ import' = import
         \/ \E list \in Lists : BeginImport(list)
         \/ ImportLine
  BY Zenon DEF Next, AddUrl, AddTorrent, RowCommand, startHttpDownload,
        startTorrentDl, stopDownload, removeSelRows, Report, TransferLost, Deliver,
        clearOldHistory, EndSession, StartSession

LEMMA MailSteps ==
  ASSUME Next
  PROVE  \/ mail' = mail
         \/ \E d \in Dests : mail' \in {Append(mail, <<"stats", d>>), Append(mail, <<"fin", d>>)}
         \/ Deliver
         \/ EndSession
<1>1. ASSUME NEW d \in Dests, Report(d)
      PROVE  mail' \in {Append(mail, <<"stats", d>>), Append(mail, <<"fin", d>>)}
  BY <1>1 DEF Report
<1>2. \/ mail' = mail
      \/ \E d \in Dests : Report(d)
      \/ Deliver
      \/ EndSession
  BY Zenon DEF Next, AddUrl, AddTorrent, BeginImport, ImportLine, RowCommand, startHttpDownload,
        startTorrentDl, stopDownload, removeSelRows, TransferLost,
        clearOldHistory, StartSession
<1> QED
  BY <1>1, <1>2

LEMMA SessionsStep ==
  ASSUME Sessions, [Next]_vars
  PROVE  Sessions'
<1>1. CASE Next
  <2> DEFINE M == {"stats", "fin"} \X Dests
  <2>1. mail' \in Seq(M)
    <3>1. mail \in Seq(M)
      BY DEF Sessions
    <3>2. \A d \in Dests : <<"stats", d>> \in M /\ <<"fin", d>> \in M
      OBVIOUS
    <3> HIDE DEF M
    <3>3. CASE mail' = mail
      BY <3>1, <3>3
    <3>4. ASSUME NEW d \in Dests,
                 mail' \in {Append(mail, <<"stats", d>>), Append(mail, <<"fin", d>>)}
          PROVE  mail' \in Seq(M)
      <4>1. \A m \in M : Append(mail, m) \in Seq(M)
        BY <3>1
      <4>2. \E m \in M : mail' = Append(mail, m)
        BY <3>2, <3>4
      <4> QED
        BY <4>1, <4>2
    <3>5. CASE Deliver
      <4>1. mail # <<>> /\ mail' = Tail(mail)
        BY <3>5 DEF Deliver
      <4> QED
        BY <4>1, <3>1
    <3>6. CASE EndSession
      <4>1. mail' = <<>>
        BY <3>6 DEF EndSession
      <4> QED
        BY <4>1
    <3> QED
      BY <1>1, <3>3, <3>4, <3>5, <3>6, MailSteps
  <2>2. Fields(import)'
    <3>1. Fields(import)
      BY DEF Sessions
    <3>2. Fields(import')
      <4>1. CASE import' = import
        BY <3>1, <4>1
      <4>2. ASSUME NEW list \in Lists, BeginImport(list) PROVE Fields(import')
        BY <4>2, BeginImportIs
      <4>3. CASE ImportLine
        <5>1. PICK line, name : NextLine(line, name)
          BY <4>3, Zenon DEF ImportLine
        <5> QED
          BY <5>1, <3>1, NextLineIs, NoImportIs
      <4> QED
        BY <1>1, <4>1, <4>2, <4>3, ImportSteps
    <3> QED
      BY <3>2 DEF Fields
  <2>3. CASE up /\ up' = up
    BY <2>1, <2>2, <2>3 DEF Sessions
  <2>4. CASE up /\ EndSession
    <3>1. up' = FALSE /\ rows' = <<>> /\ cache' = <<>> /\ mail' = <<>> /\ import' = NoImport
      BY <2>4 DEF EndSession, Importing
    <3> QED
      BY <2>1, <2>2, <3>1 DEF Sessions, NoImport
  <2>5. CASE ~up /\ StartSession
    <3>1. up' = TRUE
      BY <2>5 DEF StartSession
    <3> QED
      BY <2>1, <2>2, <3>1 DEF Sessions
  <2> QED
    BY <1>1, <2>3, <2>4, <2>5, InSession
<1>2. CASE UNCHANGED vars
  <2>1. UNCHANGED <<rows, cache, mail, import, up>>
    BY <1>2 DEF vars
  <2> QED
    BY <2>1 DEF Sessions, Fields, NoImport
<1> QED
  BY <1>1, <1>2

\* Meanwhile the user can do nothing else.
LEMMA WhileImporting ==
  ASSUME Next, Importing, up
  PROVE  \/ ImportLine
         \/ Deliver
         \/ \E d \in Dests : Report(d) \/ TransferLost(d)
<1>1. ASSUME NEW i \in DOMAIN rows, RowCommand(i) PROVE FALSE
  BY <1>1 DEF RowCommand, startHttpDownload, startTorrentDl, stopDownload, removeSelRows, Command
<1>2. ASSUME NEW n \in DOMAIN Chosen, AddUrl(n) PROVE FALSE
  BY <1>2 DEF AddUrl, Command
<1>3. ASSUME NEW t \in Torrents, AddTorrent(t) PROVE FALSE
  BY <1>3 DEF AddTorrent, Command
<1>4. ASSUME NEW list \in Lists, BeginImport(list) PROVE FALSE
  BY <1>4 DEF BeginImport, Command
<1>5. CASE clearOldHistory \/ EndSession \/ StartSession
  BY <1>5 DEF clearOldHistory, EndSession, StartSession, Command
<1> QED
  BY <1>1, <1>2, <1>3, <1>4, <1>5 DEF Next

LEMMA BeginImports ==
  ASSUME Identified, RowsWell, NEW list \in Lists, BeginImport(list)
  PROVE  Imports'
<1>1. /\ import'.lines = list.lines /\ import'.dest = list.dest /\ import'.dir = list.dir
      /\ import'.at = 1 /\ import'.name = Folder /\ import'.first = made + 1
  BY BeginImportIs
<1>2. rows' = rows /\ (list.dest \/ list.dir)
  BY DEF BeginImport
<1>3. /\ {list.dest, list.dir} \subseteq BOOLEAN
      /\ Len(list.lines) \in Nat \ {0} /\ DOMAIN list.lines = 1 .. Len(list.lines)
      /\ \A k \in DOMAIN list.lines : /\ list.lines[k].found \in BOOLEAN
                                      /\ {list.lines[k].name, list.lines[k].dest} \subseteq Dests
  BY ListsAssumption
<1>4. 1 \in DOMAIN list.lines /\ Folder \in Dests /\ made + 1 \in Nat
  BY <1>3 DEF Dests, Identified
<1>5. ListWell'
  BY <1>1, <1>3, <1>4 DEF ListWell, Dests
<1>6. ListRows'
  <2>1. \A i \in DOMAIN rows' : ~(rows'[i].id >= made + 1)
    BY <1>2 DEF RowsWell, Identified
  <2> QED
    BY <2>1, <1>1, <1>2, <1>3 DEF ListRows
<1> QED
  BY <1>5, <1>6 DEF Imports

\* A line's row is its own, and that of a dead URL has the folder's name.
LEMMA LineImports ==
  ASSUME Identified, Table, Sessions, Imports, ImportLine, up = TRUE, Importing
  PROVE  Imports'
<1>1. ListWell /\ ListRows /\ Fields(import)
  BY DEF Imports, Sessions
<1>2. CASE import' = NoImport
  BY <1>2, NoImportIs DEF Imports, Importing
<1>3. ASSUME NEW name \in Dests, NEW d, NEW status, RowsMore(d, status),
             import.at # Len(import.lines),
             import'.lines = import.lines, import'.dest = import.dest,
             import'.dir = import.dir, import'.first = import.first,
             import'.at = import.at + 1, import'.name = name,
             ~import.dest => /\ d = name
                             /\ status = "Invalid" /\ name # Folder => RowsOf(name) # {}
      PROVE  Imports'
  <2>1. ListWell'
    <3>1. import.at + 1 \in 1 .. Len(import.lines)
      BY <1>1, <1>3 DEF ListWell
    <3> QED
      BY <3>1, <1>1, <1>3 DEF ListWell, Dests
  <2>2. ListRows'
    <3> SUFFICES ASSUME ~import.dest PROVE ListRows'
      BY <1>3 DEF ListRows
    <3>1. import'.dir
      BY <1>1, <1>3 DEF ListRows
    <3>2. RowsOf(name)' # {}
      BY <1>3 DEF RowsMore, RowsOf
    <3>3. ASSUME NEW i \in DOMAIN rows', rows'[i].status = "Invalid", rows'[i].id >= import.first
          PROVE  rows'[i].dest = Folder
      <4>1. ASSUME NEW k \in DOMAIN rows, rows'[i] = rows[k]
            PROVE  rows'[i].dest = Folder
        BY <4>1, <3>3, <1>1 DEF ListRows
      <4>2. CASE rows'[i].dest = d /\ rows'[i].status = status
        <5>1. d = name /\ status = "Invalid"
          BY <4>2, <3>3, <1>3
        <5>2. CASE name = Folder
          BY <5>1, <5>2, <4>2
        <5>3. CASE name # Folder
          <6>1. rows' = rows
            BY <5>1, <5>3, <1>3 DEF RowsMore
          <6> QED
            BY <6>1, <4>1
        <5> QED
          BY <5>2, <5>3
      <4> QED
        BY <4>1, <4>2, <1>3 DEF RowsMore
    <3>4. import'.name = name /\ import'.first = import.first
      BY <1>3
    <3> QED
      BY <3>1, <3>2, <3>3, <3>4 DEF ListRows, RowsOf
  <2> QED
    BY <2>1, <2>2 DEF Imports
<1>4. /\ CurrentLine.name \in Dests /\ CurrentLine.dest \in Dests /\ import.name \in Dests
  BY <1>1 DEF ListWell, CurrentLine
<1>5. CASE /\ RowsMore(FoundDest(CurrentLine, CurrentLine.name), "Stopped")
           /\ NextLine(CurrentLine, CurrentLine.name)
  <2>1. ~import.dest => FoundDest(CurrentLine, CurrentLine.name) = CurrentLine.name
    BY DEF FoundDest
  <2>2. "Stopped" # "Invalid"
    OBVIOUS
  <2> QED
    BY <2>1, <2>2, <1>1, <1>2, <1>3, <1>4, <1>5, NextLineIs
<1>6. CASE /\ RowsMore(LostDest(CurrentLine, import.name), "Invalid")
           /\ NextLine(CurrentLine, import.name)
  <2>1. ~import.dest => /\ LostDest(CurrentLine, import.name) = import.name
                        /\ import.name # Folder => RowsOf(import.name) # {}
    BY <1>1 DEF LostDest, ListRows
  <2> QED
    BY <2>1, <1>1, <1>2, <1>3, <1>4, <1>6, NextLineIs
<1> QED
  BY <1>5, <1>6, ImportLineIs

LEMMA ImportsStep ==
  ASSUME Identified, Table, OneItem, Sessions, Imports, [Next]_vars
  PROVE  Imports'
<1>1. CASE UNCHANGED vars
  <2>1. UNCHANGED <<rows, import>>
    BY <1>1 DEF vars
  <2> QED
    BY <2>1 DEF Imports, ListWell, ListRows, Importing, NoImport, RowsOf, Dests
<1>2. CASE Next /\ ~Importing
  <2>1. CASE import' = import
    BY <1>2, <2>1, NoImportIs DEF Imports, Importing
  <2>2. ASSUME NEW list \in Lists, BeginImport(list) PROVE Imports'
    BY <2>2, BeginImports DEF Table
  <2>3. ~ImportLine
    BY <1>2 DEF ImportLine
  <2> QED
    BY <1>2, <2>1, <2>2, <2>3, ImportSteps
<1>3. CASE Next /\ Importing
  <2>1. up = TRUE
    BY <1>3 DEF Sessions, Importing
  <2>2. ListWell /\ ListRows
    BY <1>3 DEF Imports
  <2>3. CASE ImportLine
    BY <1>3, <2>1, <2>3, LineImports
  <2>4. ASSUME import' = import, DOMAIN rows' = DOMAIN rows,
               \A i \in DOMAIN rows : /\ rows'[i].id = rows[i].id /\ rows'[i].dest = rows[i].dest
                                      /\ rows'[i].status \in {rows[i].status, "Completed"}
        PROVE  Imports'
    <3>1. ListWell'
      BY <2>2, <2>4 DEF ListWell, Dests
    <3>2. ListRows'
      BY <2>2, <2>4 DEF ListRows, RowsOf
    <3> QED
      BY <3>1, <3>2 DEF Imports
  <2>5. CASE Deliver
    <3>1. /\ SameRows
          /\ \A k \in DOMAIN rows : rows'[k].status \in {rows[k].status, "Completed"}
      BY <2>1, <2>5, DeliverTable DEF Sessions
    <3>2. import' = import
      BY <2>5 DEF Deliver
    <3> QED
      BY <3>1, <3>2, <2>4 DEF SameRows
  <2>6. ASSUME NEW d \in Dests, Report(d) \/ TransferLost(d) PROVE Imports'
    <3>1. rows' = rows /\ import' = import
      BY <2>6 DEF Report, TransferLost
    <3> QED
      BY <3>1, <2>4
  <2> QED
    BY <1>3, <2>1, <2>3, <2>5, <2>6, WhileImporting
<1> QED
  BY <1>1, <1>2, <1>3

LEMMA TableStep ==
  ASSUME Identified, Table, OneItem, Sessions, Imports, [Next]_vars
  PROVE  Table'
<1>1. CASE UNCHANGED vars
  BY <1>1, QuietTable DEF vars
<1>2. CASE Next
  <2>1. CASE up /\ up' = up
    <3>1. up = TRUE
      BY <2>1 DEF Sessions
    <3>2. ASSUME NEW n \in DOMAIN Chosen, AddUrl(n) PROVE Table'
      BY <3>1, <3>2, AddUrlTable, ChosenAssumption
    <3>3. ASSUME NEW t \in Torrents, AddTorrent(t) PROVE Table'
      BY <3>1, <3>3, AddTorrentTable
    <3>4. ASSUME NEW list \in Lists, BeginImport(list) PROVE Table'
      BY <3>4, QuietTable DEF BeginImport, session
    <3>5. CASE ImportLine
      BY <3>1, <3>5, ImportLineIs DEF ImportLine
    <3>6. ASSUME NEW i \in DOMAIN rows, RowCommand(i) PROVE Table'
      BY <3>1, <3>6, CommandTable
    <3>7. ASSUME NEW d \in Dests, Report(d) \/ TransferLost(d) PROVE Table'
      BY <3>7, QuietTable DEF Report, TransferLost, session
    <3>8. CASE Deliver
      BY <3>1, <3>8, DeliverTable DEF Sessions
    <3>9. CASE clearOldHistory
      BY <3>1, <3>9, ClearTable
    <3>10. ~EndSession /\ ~StartSession
      BY <2>1 DEF EndSession, StartSession
    <3> QED
      BY <1>2, <3>2, <3>3, <3>4, <3>5, <3>6, <3>7, <3>8, <3>9, <3>10 DEF Next
  <2>2. CASE EndSession
    BY <2>2, EndTable
  <2>3. CASE StartSession
    BY <2>3, StartKeeps DEF Table
  <2> QED
    BY <1>2, <2>1, <2>2, <2>3, InSession
<1> QED
  BY <1>1, <1>2

----------------------------------------------------------------------------
(* The inductive invariant, and what follows.                              *)

\* RowsSaved and EntryPerRow speak of a session; what a session starts with is
\* what the last one saved, one item for a destination.
IndInv == Identified /\ Table /\ OneItem /\ Sessions /\ Imports

LEMMA InitIndInv ==
  Init => IndInv
<1> SUFFICES ASSUME Init PROVE IndInv
  OBVIOUS
<1>1. Identified /\ Table /\ OneItem
  BY IdentifiedInit, InitTable
<1>2. Sessions
  <2>1. /\ rows = <<>> /\ cache = <<>> /\ mail = <<>> /\ import = NoImport /\ up = FALSE
    BY DEF Init
  <2>2. Fields(import)
    BY <2>1, NoImportIs
  <2>3. <<>> \in Seq({"stats", "fin"} \X Dests)
    OBVIOUS
  <2> QED
    BY <2>1, <2>2, <2>3 DEF Sessions
<1>3. Imports
  BY DEF Init, Imports, Importing
<1> QED
  BY <1>1, <1>2, <1>3 DEF IndInv

LEMMA StepIndInv ==
  IndInv /\ [Next]_vars => IndInv'
<1> SUFFICES ASSUME IndInv, [Next]_vars PROVE IndInv'
  OBVIOUS
<1>1. Identified /\ Table /\ OneItem /\ Sessions /\ Imports
  BY DEF IndInv
<1>2. Identified' /\ Table' /\ Sessions' /\ Imports'
  BY <1>1, StepIdentified, TableStep, SessionsStep, ImportsStep
<1>3. OneItem'
  <2>1. CASE up'
    BY <1>2, <2>1, OneItemFollows DEF Table
  <2>2. CASE ~up'
    <3>1. UNCHANGED <<saved, cleared>>
      <4>1. CASE Next
        <5>1. EndSession
          <6>1. StartSession => up' = TRUE
            BY DEF StartSession
          <6> QED
            BY <4>1, <2>2, <6>1, InSession
        <5> QED
          BY <5>1 DEF EndSession
      <4>2. CASE UNCHANGED vars
        BY <4>2 DEF vars
      <4> QED
        BY <4>1, <4>2
    <3> QED
      BY <3>1, <1>1 DEF OneItem
  <2> QED
    BY <2>1, <2>2
<1> QED
  BY <1>2, <1>3 DEF IndInv

\* Every row has one entry of the cache, its own, whatever was added, removed,
\* cleared, imported or read back before, and an entry without a row is one that
\* clearOldHistory left.
THEOREM EntriesMatchRows == Spec => []EntryPerRow
<1>1. IndInv => EntryPerRow
  <2> SUFFICES ASSUME IndInv PROVE EntryPerRow
    OBVIOUS
  <2>1. CacheWell /\ Paired
    BY DEF IndInv, Table
  <2>2. ASSUME NEW i \in DOMAIN rows
        PROVE  \E j \in DOMAIN cache :
                  /\ EntryOf(rows[i]) = {j}
                  /\ cache[j].dest = rows[i].dest /\ cache[j].kind = rows[i].kind
    BY <2>1, OwnEntry
  <2> QED
    BY <2>1, <2>2 DEF EntryPerRow, Paired
<1> QED
  BY <1>1, InitIndInv, StepIndInv, PTL DEF Spec

\* Table and database stay in step through every command, report, list and
\* restart: a saved download of known length has one row, its own, with its status.
THEOREM RowsShowSaved == Spec => []RowsSaved
<1>1. IndInv => RowsSaved
  <2> SUFFICES ASSUME IndInv, up, NEW x \in saved, IsHttp(x.kind),
                      x.dest \notin Unsized \cup cleared
               PROVE  \E i \in DOMAIN rows :
                 /\ RowsOf(x.dest) = {i}
                 /\ rows[i].id = x.id
                 /\ \/ convDlStat_StringToEnum(rows[i].status) = convDlStat_IntToEnum(x.stat)
                    \/ rows[i].status = "Stopped" /\ convDlStat_IntToEnum(x.stat) = "Unknown"
    BY DEF RowsSaved
  <2>1. PICK i \in DOMAIN rows : /\ rows[i].dest = x.dest /\ rows[i].id = x.id
                                 /\ Shows(rows[i].status, x.stat)
    BY DEF IndInv, Table, RowShown
  <2>2. x.dest \notin Torrents
    BY NamesAssumption DEF IndInv, Table, ItemsWell, OwnKind, IsHttp, Dests
  <2>3. RowsOf(x.dest) = {i}
    BY <2>1, <2>2 DEF IndInv, Table, OneRow, RowsOf
  <2> QED
    BY <2>1, <2>3 DEF Shows
<1> QED
  BY <1>1, InitIndInv, StepIndInv, PTL DEF Spec

\* A report's figures are shown in the row of the download it is about, and in
\* its details, whatever was removed, added again and reordered meanwhile.
THEOREM StatsAreShown == Spec => StatsReachRow
<1>1. IndInv /\ [Next]_vars
        => [\A i \in DOMAIN rows :
              /\ up' /\ mail # <<>> /\ mail' = Tail(mail)
              /\ Head(mail) = <<"stats", rows[i].dest>>
              /\ rows[i].dest \notin cleared
              => rows'[i].shown # "none" /\ Details(i)'.figures]_vars
  <2> SUFFICES ASSUME IndInv, [Next]_vars, NEW i \in DOMAIN rows,
                      up', mail # <<>>, mail' = Tail(mail),
                      Head(mail) = <<"stats", rows[i].dest>>, rows[i].dest \notin cleared
               PROVE  rows'[i].shown # "none" /\ Details(i)'.figures
    OBVIOUS
  <2> DEFINE M == {"stats", "fin"} \X Dests
  <2>1. RowsWell /\ CacheWell /\ Paired /\ OneRow /\ mail \in Seq(M)
    BY DEF IndInv, Table, Sessions
  <2>2. Head(mail) \in M /\ Len(mail) \in Nat /\ Len(mail') = Len(mail) - 1
    BY <2>1
  <2>3. rows[i].dest \in Dests
    <3>1. <<"stats", rows[i].dest>> \in M
      <4> HIDE DEF M
      <4> QED
        BY <2>2, Zenon
    <3>2. \A a, b : <<a, b>> \in {"stats", "fin"} \X Dests => b \in Dests
      OBVIOUS
    <3> QED
      BY <3>1, <3>2, Zenon
  <2>4. mail' # mail
    BY ONLY <2>2
  <2>5. \A m : Len(Append(mail, m)) = Len(mail) + 1
    <3> HIDE DEF M
    <3>1. ASSUME NEW m PROVE Len(Append(mail, m)) = Len(mail) + 1
      <4>1. mail \in Seq(M \cup {m})
        BY <2>1
      <4> QED
        BY <4>1
    <3> QED
      BY <3>1
  <2>6. Deliver
    <3>1. Next
      BY <2>4 DEF vars
    <3>2. ~EndSession
      BY DEF EndSession
    <3>3. ASSUME NEW m, mail' = Append(mail, m) PROVE FALSE
      <4>1. Len(mail') = Len(mail) + 1
        BY <2>5, <3>3, Zenon
      <4> QED
        BY ONLY <4>1, <2>2
    <3> QED
      BY <3>1, <3>2, <3>3, <2>4, MailSteps
  <2>7. recvCurl_XferStats(rows[i].dest)
    <3>1. Head(mail)[1] = "stats" /\ Head(mail)[2] = rows[i].dest
      OBVIOUS
    <3> QED
      BY <2>6, <3>1 DEF Deliver
  <2> QED
    BY <2>1, <2>3, <2>7, StatsReach
<1> QED
  BY <1>1, InitIndInv, StepIndInv, PTL DEF Spec, StatsReachRow

\* A URL of a list that answers with its file's name has a row with its own
\* destination that is not the row of a dead URL of the list, although the loop
\* carries the name of the last one found over to the dead ones.
THEOREM ImportsKeepLive == Spec => ImportKeepsLive
<1>1. IndInv /\ [Next]_vars
        => [\A k \in DOMAIN import.lines :
              /\ k = import.at /\ made' = made + 1
              /\ import.lines[k].found /\ import.lines[k].name # Folder /\ ~import.dest
              => \E i \in DOMAIN rows' :
                    /\ rows'[i].dest = import.lines[k].name
                    /\ rows'[i].status # "Invalid" \/ rows'[i].id < import.first]_vars
  <2> SUFFICES ASSUME IndInv, [Next]_vars, NEW k \in DOMAIN import.lines,
                      k = import.at, made' = made + 1, import.lines[k].found,
                      import.lines[k].name # Folder, ~import.dest
               PROVE  \E i \in DOMAIN rows' :
                         /\ rows'[i].dest = import.lines[k].name
                         /\ rows'[i].status # "Invalid" \/ rows'[i].id < import.first
    OBVIOUS
  <2>1. Identified /\ Table /\ Sessions /\ Imports
    BY DEF IndInv
  <2>2. Importing
    BY NoImportIs DEF Importing
  <2>3. up = TRUE
    BY <2>1, <2>2 DEF Sessions, Importing
  <2>4. ListWell /\ ListRows
    BY <2>1, <2>2 DEF Imports
  <2>5. made' # made
    BY <2>1 DEF Identified
  <2>6. ImportLine
    <3>1. Next
      BY <2>5 DEF vars
    <3>2. Deliver => made' = made
      BY DEF Deliver
    <3>3. \A d \in Dests : Report(d) \/ TransferLost(d) => made' = made
      BY DEF Report, TransferLost
    <3> QED
      BY <3>1, <3>2, <3>3, <2>2, <2>3, <2>5, WhileImporting
  <2> DEFINE n == import.lines[k].name
  <2>7. RowsMore(n, "Stopped")
    <3>1. CurrentLine.found /\ CurrentLine.name = n
      BY DEF CurrentLine
    <3>2. FoundDest(CurrentLine, CurrentLine.name) = n
      BY <3>1 DEF FoundDest
    <3> QED
      BY <3>1, <3>2, <2>1, <2>2, <2>3, <2>6, ImportLineIs
  <2>8. PICK i \in DOMAIN rows' : rows'[i].dest = n
    BY <2>7 DEF RowsMore
  <2>9. CASE rows'[i].status = "Stopped"
    BY <2>8, <2>9
  <2>10. ASSUME NEW p \in DOMAIN rows, rows'[i] = rows[p]
         PROVE  rows'[i].status # "Invalid" \/ rows'[i].id < import.first
    <3>1. ~(rows[p].status = "Invalid" /\ rows[p].id >= import.first)
      BY <2>4, <2>8, <2>10 DEF ListRows
    <3>2. rows[p].id \in Nat /\ import.first \in Nat
      BY <2>1, <2>4 DEF Table, RowsWell, ListWell
    <3> QED
      BY <3>1, <3>2, <2>10
  <2> QED
    BY <2>7, <2>8, <2>9, <2>10 DEF RowsMore
<1> QED
  BY <1>1, InitIndInv, StepIndInv, PTL DEF Spec, ImportKeepsLive
=============================================================================
