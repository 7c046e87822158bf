------------------------------ MODULE Downloads ------------------------------
(***************************************************************************)
(* MainWindow (gui/mainwindow.cpp) over the transfer engine: the rows of   *)
(* the download view for HTTP(S)/FTP(S) items, what the user's commands do *)
(* to them, and the signals between the GUI thread and the curl thread,    *)
(* in one session of the program.                                          *)
(*                                                                         *)
(* Each command is one slot of the GUI thread.  The ones that stop a       *)
(* transfer call recvStopDl in the middle, which the curl thread           *)
(* interleaves with.  The answer to a message box is part of the command:  *)
(* the box is modal, and of the signals handled while it is open only      *)
(* recvDlFinished changes a row, as it could just before the command.      *)
(***************************************************************************)
EXTENDS CurlMulti

CONSTANTS
    RemovesFiles,  \* whether the user ever lets the program remove a file
    MaxConnections \* bound: connections of sendStopDownload told apart

ASSUME RemovesAssumption == RemovesFiles \in BOOLEAN
ASSUME ConnectionsAssumption == MaxConnections \in Nat \ {0}

\* What a command reads in a row's status column; "none" is a file with no
\* row.  convDlStat_StringToEnum knows no "Invalid" and answers Unknown for a
\* row that shows it, and nothing ever sets Failed.
Status == {"none", "Downloading", "Completed", "Paused", "Stopped", "Unknown"}

\* What resetDlStateStartup leaves in the rows read from the history.
StartupStatus == Status \ {"Downloading"}

VARIABLES
    row,      \* status column of each file's row, as commands read it
    gfile,    \* the row that pauseDownload or haltDownload is working on
    gnew,     \* the status it will show when recvStopDl returns
    stopConns,\* connections of sendStopDownload to recvStopDl
    gcalls,   \* calls of recvStopDl the signal under way has still to make
    closing   \* ~MainWindow waits for the curl thread to quit

command == <<gfile, gnew, stopConns, gcalls>>
allVars == <<engineVars, row, command, closing>>

-----------------------------------------------------------------------------

\* startHttpDownload, when the disk-space check and the request for the
\* remote file's size succeed; when they fail it only shows a message.
startHttpDownload(f, resume) ==
    /\ row[f] # "Downloading"
    /\ row' = [row EXCEPT ![f] = "Downloading"]
    /\ RequestStart(f, resume)

Remove(f) == RemovesFiles /\ disk' = disk \ {f}

\* resumeDownload.  The user decides what happens to a file that is there;
\* once it is removed, startHttpDownload may still fail.
resumeDownload(f) ==
    \/ /\ row[f] = "Paused"
       /\ startHttpDownload(f, f \in disk)
       /\ UNCHANGED disk
    \/ /\ row[f] \in {"Unknown", "Stopped"}
       /\ \/ f \notin disk /\ startHttpDownload(f, FALSE) /\ UNCHANGED disk
          \/ f \in disk /\ startHttpDownload(f, TRUE) /\ UNCHANGED disk
          \/ f \in disk /\ startHttpDownload(f, FALSE) /\ Remove(f)
          \/ f \in disk /\ Remove(f) /\ UNCHANGED <<row, requests>>

\* restartDownload: the file is removed first.  A row that is Downloading is
\* then not started again, and for any other startHttpDownload may fail.
restartDownload(f) ==
    /\ row[f] # "none"
    /\ f \in disk
    /\ Remove(f)
    /\ startHttpDownload(f, FALSE) \/ UNCHANGED <<row, requests>>

\* sendDetails for an item from the Add URL window, which shows as Stopped or
\* as Invalid; a destination that has a row already is refused.
sendDetails(f) ==
    /\ row[f] = "none"
    /\ \E status \in {"Stopped", "Unknown"} : row' = [row EXCEPT ![f] = status]

\* removeSelRows: the transfer, if there is one, is left running.
removeSelRows(f) ==
    /\ row[f] # "none"
    /\ row' = [row EXCEPT ![f] = "none"]

\* clearOldHistory, when the user applies it.
clearOldHistory ==
    row' = [f \in Files |-> IF row[f] = "Completed" THEN "none" ELSE row[f]]

\* recvDlFinished: the row is found by destination, and only a row that
\* shows Downloading is changed.
recvDlFinished ==
    /\ TakeFinished
    /\ LET f == fileOf[Head(finished)]
       IN row' = IF row[f] = "Downloading"
                 THEN [row EXCEPT ![f] = "Completed"] ELSE row

\* pauseDownload and haltDownload connect sendStopDownload to recvStopDl
\* once more each time, then emit it: one call per connection, in turn.
EmitStop(f, status) ==
    /\ StopLookup(f)
    /\ gfile' = f
    /\ gnew' = status
    /\ stopConns' = IF stopConns < MaxConnections THEN stopConns + 1 ELSE stopConns
    /\ gcalls' = stopConns' - 1

pauseDownload(f) ==
    /\ row[f] \in {"Downloading", "Unknown"}
    /\ EmitStop(f, "Paused")

haltDownload(f) ==
    /\ row[f] \in {"Downloading", "Paused", "Unknown"}
    /\ EmitStop(f, "Stopped")

\* recvStopDl returned and another connection calls it again.
StopAgain ==
    /\ gpc = "returned"
    /\ gcalls > 0
    /\ StopLookup(gfile)
    /\ gcalls' = gcalls - 1
    /\ UNCHANGED <<row, gfile, gnew, stopConns, closing>>

\* The last call returned: the row changes, and haltDownload asks whether to
\* erase the file.  An exception skips all of this.
StopEndsEarly ==         \* mutant: the signal is not delivered directly
    /\ gpc \in {"remove", "returned"} /\ gcalls = 0
    /\ row' = [row EXCEPT ![gfile] = gnew]
    /\ \/ UNCHANGED disk
       \/ gnew = "Stopped" /\ Remove(gfile)
    /\ gpc' = "idle"
    /\ UNCHANGED <<statics, libcurl, intake, curlPc, ghnd, gent, greg,
                   finished, command, closing>>

StopEnds ==
    /\ gpc = "returned" /\ gcalls = 0
    /\ row' = [row EXCEPT ![gfile] = gnew]
    /\ \/ UNCHANGED disk
       \/ gnew = "Stopped" /\ Remove(gfile)
    /\ gpc' = "idle"
    /\ UNCHANGED <<statics, libcurl, intake, curlPc, ghnd, gent, greg,
                   finished, command, closing>>

StopThrew ==
    /\ gpc = "threw"
    /\ StopReturn
    /\ UNCHANGED <<row, command, closing>>

-----------------------------------------------------------------------------
\* The commands that start or forget transfers, and the finish slot.
Command ==
    /\ gpc = "idle"
    /\ ~closing
    /\ \/ /\ \E f \in Files : resumeDownload(f) \/ restartDownload(f)
          /\ UNCHANGED finished
       \/ /\ \/ \E f \in Files : sendDetails(f) \/ removeSelRows(f)
             \/ clearOldHistory
          /\ UNCHANGED <<requests, outside>>
       \/ recvDlFinished /\ UNCHANGED <<requests, disk>>
    /\ UNCHANGED <<statics, libcurl, served, fileOf, resumeDl, curlPc, guiPc,
                   command, closing>>

StopCommand ==
    /\ gpc = "idle"
    /\ ~closing
    /\ \E f \in Files : pauseDownload(f) \/ haltDownload(f)
    /\ UNCHANGED <<row, closing>>

\* ~MainWindow: terminate_curl_downloads tells the curl thread's event loop
\* to quit and waits for it, so the GUI thread does nothing more.
terminate_curl_downloads ==
    /\ gpc = "idle"
    /\ ~closing
    /\ closing' = TRUE
    /\ UNCHANGED <<vars, row, command>>

\* The event loop of the curl thread takes no further signal once it has
\* been told to quit; a slot that is running runs to its end.
Engine ==
    /\ CurlThread
    /\ closing => pc # "idle"
    /\ UNCHANGED <<row, command, closing>>

Stopping ==
    \/ StopStep /\ UNCHANGED <<row, command, closing>>
    \/ StopAgain
    \/ StopEnds
    \/ StopThrew

Exited == (undefined \/ (closing /\ pc = "idle")) /\ UNCHANGED allVars

AppInit ==
    /\ Init
    /\ row \in [Files -> StartupStatus]
    /\ gfile = NoFile /\ gnew = "none" /\ stopConns = 0 /\ gcalls = 0
    /\ closing = FALSE

AppStep ==
    Engine \/ Stopping \/ Command \/ StopCommand \/ terminate_curl_downloads

AppNext ==
    \/ AppStep /\ Going
    \/ Lapse /\ UNCHANGED <<row, command, closing>>
    \/ Exited

AppSpec == AppInit /\ [][AppNext]_allVars

(***************************************************************************)
(* Fairness.  The curl thread's event loop and the GUI thread keep running *)
(* what they have begun, the GUI thread delivers finish signals, and a     *)
(* transfer that is performed again and again                              *)
(* ends some time, because new_conn sets CURLOPT_CONNECTTIMEOUT and        *)
(* CURLOPT_LOW_SPEED_TIME.                                                 *)
(***************************************************************************)
AppFairness ==
    /\ WF_allVars(Engine /\ Going)
    /\ SF_allVars(Engine /\ TransferEnds /\ Going)
    /\ WF_allVars(Stopping /\ Going)
    /\ WF_allVars(Command /\ recvDlFinished /\ Going)

AppFairSpec == AppSpec /\ AppFairness
-----------------------------------------------------------------------------

\* The program still holds something that may end f's transfer: a start
\* request under way, a live handle, or a finish signal under way.
Pending(f) ==
    \/ \E i \in DOMAIN requests : requests[i].file = f
    \/ pc \in {"inc", "incStore", "open", "mark", "record"} /\ fileOf[cur] = f
    \/ \E h \in Live : fileOf[h] = f
    \/ pc \in {"dec", "decStore"} /\ fileOf[hnd] = f
    \/ \E i \in DOMAIN finished : fileOf[finished[i]] = f

\* Between commands, a row that shows Downloading has something behind it
\* that may still change it: otherwise startHttpDownload would refuse the
\* row, recvStopDl would find nothing to stop, and recvDlFinished would never
\* be called for it, until resetDlStateStartup of the next session.
DownloadingBacked ==
    gpc = "idle" => \A f \in Files : row[f] = "Downloading" => Pending(f)

\* ~MainWindow, which waits for the curl thread, returns in the end: the
\* slot that the curl thread is in, fileStream included, comes to its end
\* whatever stops came before, unless one of them used freed memory.
CloseEnds == closing ~> (pc = "idle" \/ undefined)

\* A start request that MainWindow has sent is taken by recvNewDl some time,
\* unless the window is closed first, although the slot that precedes it in
\* the curl thread blocks until the multi handle has nothing left to run; or
\* unless a stop has used freed memory before.
RequestsServed ==
    \A s \in Ids : (served + Len(requests) = s) ~> (served >= s \/ closing \/ undefined)
=============================================================================
