------------------------------ MODULE CurlMulti ------------------------------
(***************************************************************************)
(* The transfer engine of FyreDL: GekkoFyre::CurlMulti (curl_multi.cpp).   *)
(*                                                                         *)
(* Two threads run its code.  The curl thread takes queued                 *)
(* sendStartDownload signals one at a time and runs recvNewDl, which adds  *)
(* an easy handle to the one multi handle and then stays inside            *)
(* fileStream() until the multi handle has nothing left to run.  The GUI   *)
(* thread runs recvStopDl, called directly by MainWindow's stop signal.    *)
(* Both read and write the same static members, and no lock guards them:   *)
(* every shared read and write that the other thread can come between is a *)
(* step of its own below, and one search or update of a map is one step:   *)
(* that two threads are inside the same std::map at once, which C++ leaves *)
(* undefined whatever they do there, is not described.                     *)
(*                                                                         *)
(* What is described is the use of memory that was freed: undefined is set *)
(* by the step that makes it, and nothing is said of the program after it. *)
(*                                                                         *)
(* A start request is numbered when recvNewDl takes it, and the number     *)
(* stands for all that it creates: the UUID and the easy handle that       *)
(* new_conn makes, and the UUID of the transfer_monitoring entry.          *)
(***************************************************************************)
EXTENDS Integers, Sequences, FiniteSets

CONSTANTS
    Files,        \* destinations on local storage (the downloads)
    NoFile,       \* not a file
    MaxRequests,  \* bound: start requests in one behaviour
    LibcurlFails, \* whether calls into libcurl may report an error
    TimerReports  \* whether libcurl reports an expired or absent timeout
                  \* (timeout_ms <= 0) through CURLMOPT_TIMERFUNCTION

ASSUME FilesAssumption == NoFile \notin Files
ASSUME RequestsAssumption == MaxRequests \in Nat
ASSUME LibcurlAssumption == {LibcurlFails, TimerReports} \subseteq BOOLEAN

Ids == 1 .. MaxRequests

VARIABLES
    \* the static members of CurlMulti
    eh_vec,              \* requests with an easy handle recorded in eh_vec
    transfer_monitoring, \* requests that own an entry of transfer_monitoring
    isActive,            \* the entries whose isActive is set
    active_downloads,    \* the counter
    still_running,       \* gi->still_running # 0, as last reported
    \* the start requests
    requests,            \* sendStartDownload signals queued to the curl thread
    served,              \* how many of them recvNewDl has taken
    fileOf,              \* the destination of each request taken
    resumeDl,            \* the resumeDl argument of the last request taken
    \* libcurl
    multi,               \* easy handles added to gi->multi
    running,             \* those still transferring
    done,                \* those with an unread CURLMSG_DONE message
    freed,               \* easy handles given to curl_easy_cleanup
    \* the curl thread
    pc, hnd, ent, reg,
    \* the GUI thread, inside recvStopDl
    gpc, ghnd, gent, greg,
    finished,            \* sendDlFinished signals queued to the GUI thread
    disk,                \* destinations at which a regular file exists
    undefined            \* memory was used after it was freed, or an exception
                         \* has left a callback through libcurl's own frames

statics  == <<eh_vec, transfer_monitoring, isActive, active_downloads>>
libcurl  == <<still_running, multi, running, done, freed>>
intake   == <<requests, served, fileOf, resumeDl>>
curlPc   == <<pc, hnd, ent, reg>>
guiPc    == <<gpc, ghnd, gent, greg>>
outside  == <<finished, disk>>
vars     == <<statics, libcurl, intake, curlPc, guiPc, outside>>
engineVars == <<vars, undefined>>

\* The request that recvNewDl is serving: always the last one it took.
cur == served

(***************************************************************************)
(* Lookups by file destination.                                            *)
(***************************************************************************)

\* The easy handles recorded for a file.  A stopped transfer leaves its
\* handle in eh_vec, so there may be several; the map is unordered and
\* keyed by random UUIDs, so a search may meet any of them first.
HandlesFor(f) == {h \in eh_vec : fileOf[h] = f}

\* The transfer_monitoring entries with file_dest = f.
EntriesFor(f) == {e \in transfer_monitoring : fileOf[e] = f}

-----------------------------------------------------------------------------
(***************************************************************************)
(* libcurl.  On return from a call that may update its timers, libcurl     *)
(* has mem in the multi handle, run of it transferring, msg with an unread *)
(* message, and gone have been freed.  If it reports a timeout <= 0 on the *)
(* way, multi_timer_cb calls timer_cb at once; that runs the transfers     *)
(* again, and check_multi_info reads every message and frees its handle    *)
(* and its ConnInfo, leaving eh_vec, transfer_monitoring and               *)
(* active_downloads as they are: an eh_vec entry of a freed handle keeps a *)
(* conn_info that points nowhere (SearchUsesFreed).  When the call that    *)
(* runs the transfers again fails, timer_cb throws (TimerThrows).          *)
(***************************************************************************)
check_multi_info_Unread(mem, msg, gone) ==   \* mutant: messages not consumed
    /\ done'  = msg
    /\ multi' = mem \ msg
    /\ freed' = gone \cup msg

check_multi_info(mem, msg, gone) ==
    /\ done'  = {}
    /\ multi' = mem \ msg
    /\ freed' = gone \cup msg

multi_timer_cb(mem, run, msg, gone) ==
    /\ TimerReports
    /\ \E fin \in SUBSET run :
         /\ running' = run \ fin
         /\ still_running' = (run # fin)
         /\ check_multi_info(mem, msg \cup fin, gone)

NoTimer(mem, run, msg, gone) ==
    /\ multi'   = mem
    /\ running' = run
    /\ done'    = msg
    /\ freed'   = gone

-----------------------------------------------------------------------------
(***************************************************************************)
(* The curl thread: recvNewDl, new_conn and fileStream.                    *)
(***************************************************************************)

\* MainWindow::startHttpDownload connects sendDlFinished to its slot, once
\* more each time, and emits sendStartDownload over a queued connection.
RequestStart(f, resume) ==
    /\ served + Len(requests) < MaxRequests
    /\ requests' = Append(requests, [file |-> f, resume |-> resume])

\* How many times the slot is connected: once per start request ever sent.
connections == served + Len(requests)

\* A destination with no monitoring entry gets one.
EnterBlank(s, f) ==      \* mutant: file_dest is not assigned
    /\ fileOf' = fileOf
    /\ transfer_monitoring' = transfer_monitoring \cup {s}

EnterAlways(s, f) ==     \* mutant: the search for an entry is not consulted
    /\ fileOf' = [fileOf EXCEPT ![s] = f]
    /\ transfer_monitoring' = transfer_monitoring \cup {s}

Enter(s, f) ==
    /\ fileOf' = [fileOf EXCEPT ![s] = f]
    /\ transfer_monitoring' = IF EntriesFor(f) = {}
                              THEN transfer_monitoring \cup {s}
                              ELSE transfer_monitoring

\* recvNewDl up to its test of isActive: a request for a file whose entry is
\* active is dropped without a word.
TakeRequest ==
    /\ pc = "idle"
    /\ requests # <<>>
    /\ LET f == Head(requests).file
           s == served + 1
       IN /\ requests' = Tail(requests)
          /\ served'   = s
          /\ resumeDl' = Head(requests).resume
          /\ Enter(s, f)
          /\ pc' = IF EntriesFor(f) \cap isActive = {} THEN "inc" ELSE "idle"
    /\ UNCHANGED <<eh_vec, isActive, active_downloads, libcurl,
                   hnd, ent, reg, guiPc, outside>>

\* ++active_downloads: a load and a store that nothing makes atomic.
IncLoad ==
    /\ pc = "inc"
    /\ reg' = active_downloads
    /\ pc' = "incStore"
    /\ UNCHANGED <<statics, libcurl, intake, hnd, ent, guiPc, outside>>

IncStore ==
    /\ pc = "incStore"
    /\ active_downloads' = reg + 1
    /\ pc' = "open"
    /\ UNCHANGED <<eh_vec, transfer_monitoring, isActive, libcurl, intake,
                   hnd, ent, reg, guiPc, outside>>

\* getFileSize is -1 for the file to resume, an offset new_conn refuses.
NegativeOffset == resumeDl /\ fileOf[cur] \notin disk

\* new_conn throws before a handle is in the multi handle: for a negative
\* offset, or because curl_easy_init or curl_multi_add_handle fails, the
\* latter when the output file has been opened.  Nothing that was done so far
\* is undone.  recvNewDl's catch shows a message box, whose event loop runs
\* inside the slot; nothing is left to do behind the box, so the slot counts
\* as over when it opens.
OpenFails ==
    /\ pc = "open"
    /\ \/ NegativeOffset /\ UNCHANGED disk
       \/ LibcurlFails /\ ~NegativeOffset /\ disk' \in {disk, disk \cup {fileOf[cur]}}
    /\ pc' = "idle"
    /\ UNCHANGED <<statics, libcurl, intake, hnd, ent, reg, guiPc, finished>>

\* new_conn up to curl_multi_add_handle: it opens the output file, which
\* creates it if need be.
AddHandle ==
    /\ pc = "open"
    /\ ~NegativeOffset
    /\ disk' = disk \cup {fileOf[cur]}
    /\ LET mem == multi \cup {cur}
           run == running \cup {cur}
       IN \/ NoTimer(mem, run, done, freed) /\ UNCHANGED still_running
          \/ multi_timer_cb(mem, run, done, freed)
    /\ pc' = "mark"
    /\ UNCHANGED <<statics, intake, hnd, ent, reg, guiPc, finished>>

\* new_conn: transfer_monitoring[stat_uuid].isActive = true
MarkActive ==
    /\ pc = "mark"
    /\ isActive' = isActive \cup EntriesFor(fileOf[cur])
    /\ pc' = "record"
    /\ UNCHANGED <<eh_vec, transfer_monitoring, active_downloads, libcurl,
                   intake, hnd, ent, reg, guiPc, outside>>

\* new_conn: eh_vec[uuid] = *ci
RecordHandleOnce ==      \* mutant: the map is keyed by destination
    /\ pc = "record"
    /\ eh_vec' = IF HandlesFor(fileOf[cur]) = {} THEN eh_vec \cup {cur} ELSE eh_vec
    /\ pc' = "start"
    /\ UNCHANGED <<transfer_monitoring, isActive, active_downloads, libcurl,
                   intake, hnd, ent, reg, guiPc, outside>>

RecordHandle ==
    /\ pc = "record"
    /\ eh_vec' = eh_vec \cup {cur}
    /\ pc' = "start"
    /\ UNCHANGED <<transfer_monitoring, isActive, active_downloads, libcurl,
                   intake, hnd, ent, reg, guiPc, outside>>

\* curl_multi_perform, the first one of fileStream and those of its loop.
\* Any of the running transfers may end, with success or with an error:
\* fileStream never looks at the result.
Perform ==
    /\ pc \in {"start", "perform"}
    /\ \E fin \in SUBSET running :
         LET run == running \ fin
             msg == done \cup fin
         IN \/ NoTimer(multi, run, msg, freed) /\ still_running' = (run # {})
            \/ multi_timer_cb(multi, run, msg, freed)
    /\ pc' = IF still_running' THEN "wait" ELSE "drain"
    /\ UNCHANGED <<statics, intake, hnd, ent, reg, guiPc, outside>>

\* curl_multi_wait, then the look at active_downloads that decides whether
\* fileStream performs again or leaves its loop.
Wait ==
    /\ pc = "wait"
    /\ pc' = IF active_downloads > 0 THEN "perform" ELSE "drain"
    /\ UNCHANGED <<statics, libcurl, intake, hnd, ent, reg, guiPc, outside>>

\* The first curl_multi_perform, or curl_multi_wait, reports an error:
\* fileStream's catch returns false and the transfers stay where they are.
StreamFails ==
    /\ LibcurlFails
    /\ pc \in {"start", "wait"}
    /\ pc' = "idle"
    /\ UNCHANGED <<statics, libcurl, intake, hnd, ent, reg, guiPc, outside>>

\* No message left: fileStream returns false.
DrainWaits ==            \* mutant: fileStream waits for a message
    /\ pc = "drain"
    /\ done = {}
    /\ pc' = "drain"
    /\ UNCHANGED <<statics, libcurl, intake, hnd, ent, reg, guiPc, outside>>

DrainEmpty ==
    /\ pc = "drain"
    /\ done = {}
    /\ pc' = "idle"
    /\ UNCHANGED <<statics, libcurl, intake, hnd, ent, reg, guiPc, outside>>

\* curl_multi_info_read returns a CURLMSG_DONE: find the eh_vec entry by
\* handle and the monitoring entry by file.  Without both fileStream throws;
\* the message is gone and the handle stays in the multi handle.  The search
\* by handle reads the conn_info of each entry that it meets before the one
\* it looks for: here it meets none of a freed handle.
DrainRead ==
    /\ pc = "drain"
    /\ \E h \in done :
         /\ done' = done \ {h}
         /\ h \notin eh_vec => eh_vec \cap freed = {}
         /\ \/ /\ h \in eh_vec
               /\ \E e \in EntriesFor(fileOf[h]) : ent' = e
               /\ hnd' = h
               /\ pc' = "retire"
            \/ /\ h \notin eh_vec \/ EntriesFor(fileOf[h]) = {}
               /\ pc' = "idle"
               /\ UNCHANGED <<hnd, ent>>
    /\ UNCHANGED <<statics, still_running, multi, running, freed, intake,
                   reg, guiPc, outside>>

\* Both map entries are erased.
EraseOne ==              \* mutant: eh_vec keeps its entry
    /\ eh_vec' = eh_vec
    /\ transfer_monitoring' = transfer_monitoring \ {ent}
    /\ isActive' = isActive \ {ent}

EraseEntries ==
    /\ eh_vec' = eh_vec \ {hnd}
    /\ transfer_monitoring' = transfer_monitoring \ {ent}
    /\ isActive' = isActive \ {ent}

\* The handle is removed from the multi handle and freed.
Retire ==
    /\ pc = "retire"
    /\ LET mem  == multi \ {hnd}
           gone == freed \cup {hnd}
       IN \/ NoTimer(mem, running, done, gone) /\ UNCHANGED still_running
          \/ multi_timer_cb(mem, running, done, gone)
    /\ EraseEntries
    /\ pc' = "dec"
    /\ UNCHANGED <<active_downloads, intake, hnd, ent, reg, guiPc, outside>>

\* --active_downloads, again a load and a store; after the store fileStream
\* emits sendDlFinished, which queues one call of the slot per connection,
\* and returns, whatever messages are still unread.
DecLoad ==
    /\ pc = "dec"
    /\ reg' = active_downloads
    /\ pc' = "decStore"
    /\ UNCHANGED <<statics, libcurl, intake, hnd, ent, guiPc, outside>>

DecStore ==
    /\ pc = "decStore"
    /\ active_downloads' = reg - 1
    /\ finished' = finished \o [i \in 1 .. connections |-> hnd]
    /\ pc' = "idle"
    /\ UNCHANGED <<eh_vec, transfer_monitoring, isActive, libcurl, intake,
                   hnd, ent, reg, guiPc, disk>>

-----------------------------------------------------------------------------
(***************************************************************************)
(* The GUI thread: recvStopDl.                                             *)
(***************************************************************************)

\* The search of eh_vec: curl_struct points into the entry from here on.
\* Without a handle recvStopDl will throw, whatever the second search finds.
StopLookup(f) ==
    /\ \/ HandlesFor(f) = {} /\ gpc' = "threw" /\ UNCHANGED ghnd
       \/ \E h \in HandlesFor(f) : ghnd' = h /\ gpc' = "find"
    /\ UNCHANGED <<statics, libcurl, intake, curlPc, gent, greg, outside>>

\* The search of transfer_monitoring, and the copy of the entry into dl_stat.
StopFind ==
    /\ gpc = "find"
    /\ LET f == fileOf[ghnd]
       IN \/ EntriesFor(f) = {} /\ gpc' = "threw" /\ UNCHANGED gent
          \/ \E e \in EntriesFor(f) :
               /\ gent' = e
               /\ gpc' = IF e \in isActive THEN "mark" ELSE "returned"
    /\ UNCHANGED <<statics, libcurl, intake, curlPc, ghnd, greg, outside>>

\* transfer_monitoring[stat_uuid].isActive = false.  If the curl thread has
\* erased the entry meanwhile, operator[] makes one with an empty file_dest,
\* which no lookup can meet.
StopMarkKeeps ==         \* mutant: the flag stays set
    /\ gpc = "mark"
    /\ gpc' = "dec"
    /\ UNCHANGED <<statics, libcurl, intake, curlPc, ghnd, gent, greg, outside>>

StopMark ==
    /\ gpc = "mark"
    /\ isActive' = isActive \ {gent}
    /\ gpc' = "dec"
    /\ UNCHANGED <<eh_vec, transfer_monitoring, active_downloads, libcurl,
                   intake, curlPc, ghnd, gent, greg, outside>>

StopDecLoad ==
    /\ gpc = "dec"
    /\ greg' = active_downloads
    /\ gpc' = "decStore"
    /\ UNCHANGED <<statics, libcurl, intake, curlPc, ghnd, gent, outside>>

StopDecStore ==
    /\ gpc = "decStore"
    /\ active_downloads' = greg - 1
    /\ gpc' = "remove"
    /\ UNCHANGED <<eh_vec, transfer_monitoring, isActive, libcurl, intake,
                   curlPc, ghnd, gent, greg, outside>>

\* curl_multi_remove_handle: libcurl also drops the handle's unread message,
\* and does nothing for a handle that is not in a multi handle.  The handle
\* is one that nobody has freed since the search of eh_vec; StopUsesFreed is
\* the other case.
StopRemoveFrees ==       \* mutant: the stopped handle is cleaned up as well
    /\ gpc = "remove"
    /\ ghnd \notin freed
    /\ NoTimer(multi \ {ghnd}, running \ {ghnd}, done \ {ghnd}, freed \cup {ghnd})
    /\ gpc' = "returned"
    /\ UNCHANGED <<statics, still_running, intake, curlPc, ghnd, gent, greg, outside>>

StopRemove ==
    /\ gpc = "remove"
    /\ ghnd \notin freed
    /\ LET mem == multi \ {ghnd}
           run == running \ {ghnd}
           msg == done \ {ghnd}
       IN \/ NoTimer(mem, run, msg, freed) /\ UNCHANGED still_running
          \/ ghnd \in multi /\ multi_timer_cb(mem, run, msg, freed)
    /\ gpc' = "returned"
    /\ UNCHANGED <<statics, intake, curlPc, ghnd, gent, greg, outside>>

\* recvStopDl has returned, or thrown, to the slot that emitted the signal.
StopReturn ==
    /\ gpc \in {"returned", "threw"}
    /\ gpc' = "idle"
    /\ UNCHANGED <<statics, libcurl, intake, curlPc, ghnd, gent, greg, outside>>

\* The GUI thread's event loop delivers a sendDlFinished.
TakeFinished ==
    /\ finished # <<>>
    /\ finished' = Tail(finished)
-----------------------------------------------------------------------------

Init ==
    /\ eh_vec = {} /\ transfer_monitoring = {} /\ isActive = {}
    /\ active_downloads = 0
    /\ still_running = FALSE
    /\ multi = {} /\ running = {} /\ done = {} /\ freed = {}
    /\ requests = <<>> /\ served = 0 /\ resumeDl = FALSE
    /\ fileOf = [i \in Ids |-> NoFile]
    /\ pc = "idle" /\ hnd = 0 /\ ent = 0 /\ reg = 0
    /\ gpc = "idle" /\ ghnd = 0 /\ gent = 0 /\ greg = 0
    /\ finished = <<>>
    /\ disk \in SUBSET Files
    /\ undefined = FALSE

NewConn    == OpenFails \/ AddHandle \/ MarkActive \/ RecordHandle
FileStream == Perform \/ Wait \/ StreamFails \/ DrainEmpty \/ DrainRead
                \/ Retire \/ DecLoad \/ DecStore
CurlThread == TakeRequest \/ IncLoad \/ IncStore \/ NewConn \/ FileStream

StopStep == StopFind \/ StopMark \/ StopDecLoad \/ StopDecStore \/ StopRemove

\* The rest of the program, at its most general.  A step outside this module
\* may send a request, take a finish signal, and remove files.
GoOn ==
    /\ gpc' = "idle"
    /\ \/ UNCHANGED requests
       \/ \E f \in Files, resume \in BOOLEAN : RequestStart(f, resume)
    /\ UNCHANGED finished \/ TakeFinished
    /\ disk' \in SUBSET disk
    /\ UNCHANGED <<statics, libcurl, served, fileOf, resumeDl, curlPc,
                   ghnd, gent, greg>>

\* When recvStopDl does not hold it up, the GUI thread calls it, for any
\* file, or goes on.
GuiThread ==
    /\ gpc \in {"idle", "returned", "threw"}
    /\ \/ gpc # "threw" /\ \E f \in Files : StopLookup(f)
       \/ GoOn

Step == CurlThread \/ StopStep \/ GuiThread

\* recvStopDl uses curl_struct, conn_info and the easy handle that fileStream
\* has erased and freed since recvStopDl found them, or check_multi_info has
\* freed: the stop was overtaken by the end of the transfer.
StopUsesFreed == gpc = "remove" /\ ghnd \in freed

\* fileStream's search by handle meets an eh_vec entry whose conn_info
\* check_multi_info has deleted.
SearchUsesFreed == pc = "drain" /\ done # {} /\ eh_vec \cap freed # {}

\* In a call of libcurl that reports an expired timeout, timer_cb's
\* mcode_or_die throws through libcurl, which is not made for it.
TimerThrows ==
    /\ TimerReports /\ LibcurlFails
    /\ \/ pc = "open" /\ ~NegativeOffset
       \/ pc \in {"start", "perform", "retire"}
       \/ gpc = "remove" /\ ghnd \in multi

\* Nothing is known of the program from here on.
Lapse ==
    /\ ~undefined
    /\ StopUsesFreed \/ SearchUsesFreed \/ TimerThrows
    /\ undefined' = TRUE
    /\ UNCHANGED vars

Going  == ~undefined /\ UNCHANGED undefined
Lapsed == undefined /\ UNCHANGED engineVars

Next == (Step /\ Going) \/ Lapse \/ Lapsed

Spec == Init /\ [][Next]_engineVars

\* A transfer comes to its end.
TransferEnds == Perform /\ running' # running

-----------------------------------------------------------------------------
(***************************************************************************)
(* Properties.                                                             *)
(***************************************************************************)

\* Every variable has its type: requests in range, destinations known, and
\* the program counters of recvNewDl and recvStopDl at a step they have.
TypeOK ==
    /\ eh_vec \in SUBSET Ids
    /\ transfer_monitoring \in SUBSET Ids
    /\ isActive \in SUBSET Ids
    /\ active_downloads \in Int
    /\ still_running \in BOOLEAN
    /\ requests \in Seq([file : Files, resume : BOOLEAN])
    /\ served \in 0 .. MaxRequests
    /\ fileOf \in [Ids -> Files \cup {NoFile}]
    /\ resumeDl \in BOOLEAN
    /\ multi \in SUBSET Ids
    /\ running \in SUBSET Ids
    /\ done \in SUBSET Ids
    /\ freed \in SUBSET Ids
    /\ pc \in {"idle", "inc", "incStore", "open", "mark", "record", "start",
               "wait", "perform", "drain", "retire", "dec", "decStore"}
    /\ hnd \in 0 .. MaxRequests
    /\ ent \in 0 .. MaxRequests
    /\ reg \in Int
    /\ gpc \in {"idle", "find", "mark", "dec", "decStore", "remove",
                "returned", "threw"}
    /\ ghnd \in 0 .. MaxRequests
    /\ gent \in 0 .. MaxRequests
    /\ greg \in Int
    /\ finished \in Seq(Ids)
    /\ disk \in SUBSET Files
    /\ undefined \in BOOLEAN

\* Every handle in the multi handle can be found in eh_vec, by fileStream's
\* search by handle and recvStopDl's by file, except while new_conn is
\* between curl_multi_add_handle and its last assignment.
MultiTracked ==
    \A h \in multi : h \in eh_vec \/ (h = cur /\ pc \in {"mark", "record"})

\* transfer_monitoring never holds two entries for one destination: both
\* threads search it and stop at the first hit.
MonitoringUnique ==
    \A e1, e2 \in transfer_monitoring : fileOf[e1] = fileOf[e2] => e1 = e2

\* The handles whose end is still to come, or is being handled.
Live == running \cup done \cup (IF pc = "retire" THEN {hnd} ELSE {})

\* An entry marked active stands for a transfer that can still end and so
\* reset it: otherwise recvNewDl would drop every later request for the
\* file.  It holds although a stop may find a stale handle of the file, or
\* lose a race with the end of the transfer it stops.
NoPhantomActive ==
    \A e \in isActive : \E h \in Live : fileOf[h] = fileOf[e]

\* A finish signal under way to the GUI is about a handle that the engine
\* has let go of for good, and the calls queued for one handle stand
\* together (one emission, never two), whatever stop requests came between
\* its message and its removal.
FinishedRetired ==
    /\ \A i \in DOMAIN finished : finished[i] \notin multi \cup eh_vec
    /\ \A i, j \in DOMAIN finished :
          finished[i] = finished[j] => \A k \in i .. j : finished[k] = finished[i]

\* No handle is freed while libcurl or fileStream still has it, and so none
\* is given to curl_easy_cleanup twice by them: a freed handle is not in the
\* multi handle, has no unread message and is not the one fileStream works
\* on, although check_multi_info, called from inside libcurl by either
\* thread, frees handles behind fileStream's back.  It says nothing of what
\* recvStopDl holds: a stop that the end of its transfer overtakes does use
\* a freed handle (StopUsesFreed), and so may fileStream's search once
\* check_multi_info has freed one (SearchUsesFreed).
FreedOnce ==
    freed \cap (multi \cup done \cup (IF pc = "retire" THEN {hnd} ELSE {})) = {}

\* As long as libcurl reports no expired timeout, no freed handle can be met
\* by a search any more either: eh_vec holds none.  What then remains of the
\* use of freed memory is the stop that found its handle before fileStream
\* freed it, and that one only.
FreedOutOfReach ==
    /\ freed \cap (eh_vec \cup multi \cup Live) = {}
    /\ undefined => gpc = "remove" /\ ghnd \notin eh_vec
=============================================================================
