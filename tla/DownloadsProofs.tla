--------------------------- MODULE DownloadsProofs ---------------------------
(***************************************************************************)
(* Proofs about MainWindow and the transfer engine together.               *)
(*                                                                         *)
(* First, the program is one of the environments that CurlMulti allows:    *)
(* what is proved there of the engine holds in the program.  Then, when    *)
(* libcurl reports neither errors nor expired timeouts and the user lets   *)
(* no file be removed, a row that shows Downloading is never left alone.   *)
(***************************************************************************)
EXTENDS Downloads, CurlMultiProofs

\* The slot that recvStopDl was called from goes on with a row.
SlotTypes ==
    /\ row \in [Files -> Status]
    /\ gpc # "idle" => gfile \in Files /\ gnew \in {"Paused", "Stopped"}

\* What the two threads and MainWindow change; undefined is left out.
appVars == <<vars, row, command, closing>>

\* A step of the program is one of AppStep's, or changes nothing of appVars.
LEMMA NextIsAppStep ==
  ASSUME [AppNext]_allVars
  PROVE  [AppStep]_appVars
  BY DEF AppNext, Going, Lapse, Exited, allVars, appVars, engineVars

LEMMA SlotTypesInit == AppInit => SlotTypes
  BY DEF AppInit, Init, SlotTypes, StartupStatus

LEMMA SlotTypesNext ==
  ASSUME SlotTypes, [AppStep]_appVars
  PROVE  SlotTypes'
<1> USE DEF SlotTypes
<1>1. CASE Engine
  BY <1>1 DEF Engine, CurlThread, NewConn, FileStream, TakeRequest, IncLoad, IncStore,
              OpenFails, AddHandle, MarkActive, RecordHandle, Perform, Wait, StreamFails,
              DrainEmpty, DrainRead, Retire, DecLoad, DecStore, command, guiPc
<1>2. CASE Stopping
  <2>1. CASE StopStep /\ UNCHANGED <<row, command, closing>>
    BY <2>1 DEF StopStep, StopFind, StopMark, StopDecLoad, StopDecStore, StopRemove, command
  <2>2. CASE StopAgain
    BY <2>2 DEF StopAgain
  <2>3. CASE StopEnds
    BY <2>3 DEF StopEnds, Status
  <2>4. CASE StopThrew
    BY <2>4 DEF StopThrew, StopReturn
  <2> QED
    BY <1>2, <2>1, <2>2, <2>3, <2>4 DEF Stopping
<1>3. CASE Command
  <2>1. gpc = "idle" /\ UNCHANGED <<gpc, gfile, gnew>>
    BY <1>3 DEF Command, guiPc, command
  <2>2. row' \in [Files -> Status]
    <3>1. ASSUME NEW f \in Files, resumeDownload(f) \/ restartDownload(f)
          PROVE  row' \in [Files -> Status]
      BY <3>1 DEF resumeDownload, restartDownload, startHttpDownload, Status
    <3>2. ASSUME NEW f \in Files, sendDetails(f) \/ removeSelRows(f)
          PROVE  row' \in [Files -> Status]
      BY <3>2 DEF sendDetails, removeSelRows, Status
    <3>3. CASE clearOldHistory \/ recvDlFinished
      BY <3>3 DEF clearOldHistory, recvDlFinished, Status
    <3> QED
      BY <1>3, <3>1, <3>2, <3>3 DEF Command
  <2> QED
    BY <2>1, <2>2
<1>4. CASE StopCommand
  BY <1>4 DEF StopCommand, pauseDownload, haltDownload, EmitStop
<1>5. CASE terminate_curl_downloads \/ UNCHANGED appVars
  BY <1>5 DEF terminate_curl_downloads, appVars, vars, command, guiPc
<1> QED
  BY <1>1, <1>2, <1>3, <1>4, <1>5 DEF AppStep

\* A step of the program is a step of the engine and its environment: a step
\* of the curl thread, of recvStopDl, or one that GuiThread allows.
LEMMA EngineStep ==
  ASSUME SlotTypes, [AppStep]_appVars
  PROVE  [Step]_vars
<1>1. CASE Engine
  BY <1>1 DEF Engine, Step
<1>2. CASE Stopping
  <2>1. CASE StopStep
    BY <2>1 DEF Step
  <2>2. CASE StopAgain
    <3>1. gfile \in Files /\ gpc = "returned" /\ StopLookup(gfile)
      BY <2>2 DEF StopAgain, SlotTypes
    <3> QED
      BY <3>1 DEF Step, GuiThread
  <2>3. CASE StopEnds
    <3>1. GoOn
      BY <2>3 DEF StopEnds, GoOn, Remove, intake
    <3>2. gpc = "returned"
      BY <2>3 DEF StopEnds
    <3> QED
      BY <3>1, <3>2 DEF Step, GuiThread
  <2>4. CASE StopThrew
    <3>1. GoOn /\ gpc = "threw"
      BY <2>4 DEF StopThrew, StopReturn, GoOn, intake, outside
    <3> QED
      BY <3>1 DEF Step, GuiThread
  <2> QED
    BY <1>2, <2>1, <2>2, <2>3, <2>4 DEF Stopping
<1>3. CASE Command
  <2>1. /\ gpc = "idle" /\ gpc' = "idle"
        /\ UNCHANGED <<statics, libcurl, served, fileOf, resumeDl, curlPc, ghnd, gent, greg>>
    BY <1>3 DEF Command, guiPc
  <2>2. /\ \/ UNCHANGED requests
           \/ \E f \in Files, resume \in BOOLEAN : RequestStart(f, resume)
        /\ UNCHANGED finished \/ TakeFinished
        /\ disk' \in SUBSET disk
    <3>1. ASSUME NEW f \in Files, resumeDownload(f) \/ restartDownload(f)
          PROVE  /\ \/ UNCHANGED requests
                    \/ \E resume \in BOOLEAN : RequestStart(f, resume)
                 /\ disk' \in SUBSET disk
      <4>1. (f \in disk) \in BOOLEAN /\ TRUE \in BOOLEAN /\ FALSE \in BOOLEAN
        OBVIOUS
      <4>2. \/ UNCHANGED requests
            \/ RequestStart(f, TRUE) \/ RequestStart(f, FALSE)
            \/ RequestStart(f, f \in disk)
        BY <3>1 DEF resumeDownload, restartDownload, startHttpDownload
      <4>3. disk' \in SUBSET disk
        BY <3>1 DEF resumeDownload, restartDownload, Remove
      <4> QED
        BY <4>1, <4>2, <4>3, Zenon
    <3>2. CASE /\ UNCHANGED finished
               /\ \E f \in Files : resumeDownload(f) \/ restartDownload(f)
      <4>1. PICK f \in Files : resumeDownload(f) \/ restartDownload(f)
        BY <3>2
      <4> QED
        BY <3>1, <3>2, <4>1
    <3>3. CASE UNCHANGED <<requests, outside>>
      BY <3>3 DEF outside
    <3>4. CASE recvDlFinished /\ UNCHANGED <<requests, disk>>
      BY <3>4 DEF recvDlFinished
    <3> QED
      BY <1>3, <3>2, <3>3, <3>4 DEF Command
  <2> QED
    BY <2>1, <2>2 DEF Step, GuiThread, GoOn
<1>4. CASE StopCommand
  <2>1. gpc = "idle" /\ \E f \in Files : StopLookup(f)
    BY <1>4 DEF StopCommand, pauseDownload, haltDownload, EmitStop
  <2> QED
    BY <2>1 DEF Step, GuiThread
<1>5. CASE terminate_curl_downloads \/ UNCHANGED appVars
  BY <1>5 DEF terminate_curl_downloads, appVars
<1> QED
  BY <1>1, <1>2, <1>3, <1>4, <1>5 DEF AppStep

THEOREM SlotTypesAlways == AppSpec => []SlotTypes
<1>1. SlotTypes /\ [AppNext]_allVars => SlotTypes'
  BY SlotTypesNext, NextIsAppStep
<1> QED
  BY <1>1, SlotTypesInit, PTL DEF AppSpec

\* The program uses the engine as its specification allows: MainWindow's
\* slots are among the most general ones of CurlMulti, so that every theorem
\* about Spec holds of the program.
THEOREM ProgramImplementsEngine == AppSpec => Spec
<1>1. AppInit => Init
  BY DEF AppInit
<1>2. ASSUME SlotTypes, [AppNext]_allVars
      PROVE  [Next]_engineVars
  <2>1. [Step]_vars
    BY <1>2, NextIsAppStep, EngineStep
  <2>2. CASE AppStep /\ Going
    BY <2>1, <2>2 DEF Next, Going, engineVars
  <2>3. CASE Lapse
    BY <2>3 DEF Next
  <2>4. CASE Exited \/ UNCHANGED allVars
    BY <2>4 DEF Exited, allVars
  <2> QED
    BY <1>2, <2>2, <2>3, <2>4 DEF AppNext
<1> QED
  BY <1>1, <1>2, SlotTypesAlways, PTL DEF AppSpec, Spec
-----------------------------------------------------------------------------
\* What makes it sure that something will still happen to f's row: a request
\* on its way, a transfer with the entry that fileStream will look for, or a
\* finish signal that is sent or about to be.
Sure(f) ==
    \/ \E i \in DOMAIN requests : requests[i].file = f
    \/ pc \in Opening /\ fileOf[cur] = f
    \/ EntriesFor(f) # {} /\ \E h \in Live : fileOf[h] = f
    \/ pc \in {"dec", "decStore"} /\ fileOf[hnd] = f
    \/ \E i \in DOMAIN finished : fileOf[finished[i]] = f

\* A stop of f finds what it looks for, or the end of the transfer is known.
Held(f) ==
    \/ EntriesFor(f) # {} /\ HandlesFor(f) # {}
    \/ pc \in {"dec", "decStore"} /\ fileOf[hnd] = f
    \/ \E i \in DOMAIN finished : fileOf[finished[i]] = f

\* The part of it that recvStopDl has seen when it has found a handle of f.
Met(f) ==
    \/ HandlesFor(f) # {}
    \/ pc \in {"dec", "decStore"} /\ fileOf[hnd] = f
    \/ \E i \in DOMAIN finished : fileOf[finished[i]] = f

\* pauseDownload or haltDownload is at work on f and will not throw, unless
\* the end of the transfer is known by then.
BeingStopped(f) ==
    /\ gfile = f
    /\ gpc \in StoppingSteps \cup {"returned"} \/ (gpc = "find" /\ Held(f))

\* The request being opened has an entry, and a file if it wants to resume.
OpeningWell ==
    /\ \A i \in DOMAIN requests : requests[i].resume => requests[i].file \in disk
    /\ pc \in {"inc", "incStore", "open"} /\ resumeDl => fileOf[cur] \in disk
    /\ pc \in Opening => EntriesFor(fileOf[cur]) # {}
    /\ pc \in {"mark", "record"} => cur \in running

\* recvStopDl works on the file of its slot.
StoppingWell ==
    /\ gpc \in StoppingSteps \cup {"find"} => ghnd \in 1 .. served /\ fileOf[ghnd] = gfile
    /\ gpc = "find" => Met(gfile)
    /\ gpc \in StoppingSteps \cup {"returned"} => Held(gfile)

RowsBacked ==
    \A f \in Files : row[f] = "Downloading" => Sure(f) \/ BeingStopped(f)

\* The facts about the engine that every behaviour of the program has.
EngineInv == Tracked /\ Backed /\ Announced /\ SlotTypes

Quiet == ~LibcurlFails /\ ~TimerReports /\ ~RemovesFiles

LEMMA RowsInit == AppInit => OpeningWell /\ StoppingWell /\ RowsBacked
  BY DEF AppInit, Init, OpeningWell, StoppingWell, RowsBacked, Opening, StoppingSteps,
         StartupStatus

\* What the curl thread does to a file, the file stays held and sure.
LEMMA CurlThreadKeeps ==
  ASSUME Quiet, EngineInv, OpeningWell, CurlThread, NEW f \in Files
  PROVE  /\ Sure(f) => Sure(f)'
         /\ Held(f) => Held(f)'
         /\ Met(f) => Met(f)'
<1> USE DEF EngineInv, Quiet
<1>0. /\ served \in Nat /\ requests \in Seq([file : Files, resume : BOOLEAN])
      /\ finished \in Seq(Ids)
      /\ transfer_monitoring \subseteq 1 .. served /\ eh_vec \subseteq 1 .. served
      /\ Live \subseteq 1 .. served
      /\ \A i \in DOMAIN finished : finished[i] \in 1 .. served
  BY DEF Tracked, TypeOK, Made, Backed, Announced, Found, Retiring, Live
<1>1. CASE TakeRequest
  <2> DEFINE r == Head(requests)
  <2>1. /\ requests' = Tail(requests) /\ served' = served + 1
        /\ \A s \in 1 .. served : fileOf'[s] = fileOf[s]
        /\ fileOf'[served + 1] = r.file
        /\ transfer_monitoring \subseteq transfer_monitoring'
        /\ pc = "idle"
        /\ pc' = IF EntriesFor(r.file) \cap isActive = {} THEN "inc" ELSE "idle"
        /\ UNCHANGED <<eh_vec, isActive, running, done, finished>>
    <3>1. /\ requests' = Tail(requests) /\ served' = served + 1 /\ pc = "idle"
          /\ pc' = IF EntriesFor(r.file) \cap isActive = {} THEN "inc" ELSE "idle"
          /\ UNCHANGED <<eh_vec, isActive, running, done, finished>>
          /\ requests # <<>>
      BY <1>1 DEF TakeRequest, libcurl, outside
    <3>2. /\ fileOf' = [fileOf EXCEPT ![served + 1] = r.file]
          /\ transfer_monitoring \subseteq transfer_monitoring'
      BY <1>1 DEF TakeRequest, Enter
    <3>3. fileOf \in [Ids -> Files \cup {NoFile}]
      BY DEF Tracked, TypeOK
    <3>4. served + 1 \in Ids /\ 1 .. served \subseteq Ids
      <4>1. Len(requests) \in Nat /\ Len(requests) > 0
        BY <1>0, <3>1
      <4>2. served + Len(requests) <= MaxRequests
        BY DEF Tracked, Made
      <4> QED
        BY <1>0, <4>1, <4>2, RequestsAssumption DEF Ids
    <3> QED
      BY <1>0, <3>1, <3>2, <3>3, <3>4
  <2>2. Live' = Live
    BY <2>1 DEF Live
  <2>3. \A g \in Files : EntriesFor(g) \subseteq EntriesFor(g)'
    BY <1>0, <2>1 DEF EntriesFor
  <2>4. ASSUME NEW i \in DOMAIN requests, requests[i].file = f
        PROVE  Sure(f)'
    <3>1. CASE i = 1
      <4>1. r.file = f
        BY <2>4, <3>1
      <4>2. CASE EntriesFor(f) \cap isActive = {}
        BY <2>1, <4>1, <4>2 DEF Sure, Opening, cur
      <4>3. CASE EntriesFor(f) \cap isActive # {}
        <5>1. PICK e \in EntriesFor(f) \cap isActive : TRUE
          BY <4>3
        <5>2. fileOf[e] = f
          BY <5>1 DEF EntriesFor
        <5>3. PICK h \in Live : fileOf[h] = f
          BY <5>1, <5>2 DEF Backed
        <5>4. h \in Live' /\ fileOf'[h] = f /\ EntriesFor(f)' # {}
          BY <1>0, <2>1, <2>2, <2>3, <5>1, <5>3
        <5> QED
          BY <5>4 DEF Sure
      <4> QED
        BY <4>2, <4>3
    <3>2. CASE i # 1
      <4>1. i - 1 \in DOMAIN requests' /\ requests'[i - 1] = requests[i]
        BY <1>0, <2>1, <3>2
      <4> QED
        BY <2>4, <4>1 DEF Sure
    <3> QED
      BY <3>1, <3>2
  <2>5. (\E h \in Live : fileOf[h] = f) => (\E h \in Live' : fileOf'[h] = f)
    BY <1>0, <2>1, <2>2
  <2>6. (\E i \in DOMAIN finished : fileOf[finished[i]] = f) =>
            (\E i \in DOMAIN finished' : fileOf'[finished'[i]] = f)
    BY <1>0, <2>1
  <2>7. Sure(f) => Sure(f)'
    BY <2>1, <2>3, <2>4, <2>5, <2>6 DEF Sure, Opening
  <2>8. HandlesFor(f) \subseteq HandlesFor(f)'
    BY <1>0, <2>1 DEF HandlesFor
  <2> QED
    BY <2>1, <2>3, <2>6, <2>7, <2>8 DEF Held, Met
<1>2. CASE IncLoad \/ IncStore
  BY <1>2 DEF IncLoad, IncStore, Sure, Held, Met, Opening, EntriesFor, HandlesFor, Live, cur,
              statics, libcurl, intake, outside
<1>3. CASE OpenFails
  <2>1. pc = "open" /\ NegativeOffset
    BY <1>3 DEF OpenFails
  <2> QED
    BY <2>1 DEF NegativeOffset, OpeningWell, cur
<1>4. CASE AddHandle
  <2>1. /\ running' = running \cup {cur} /\ done' = done
        /\ pc = "open" /\ pc' = "mark"
        /\ UNCHANGED <<eh_vec, transfer_monitoring, requests, served, fileOf, hnd, finished>>
    BY <1>4 DEF AddHandle, NoTimer, multi_timer_cb, statics, intake
  <2>2. Live \subseteq Live'
    BY <2>1 DEF Live
  <2> QED
    BY <2>1, <2>2 DEF Sure, Held, Met, Opening, EntriesFor, HandlesFor, cur
<1>5. CASE MarkActive \/ RecordHandle
  <2>1. /\ eh_vec \subseteq eh_vec'
        /\ pc \in {"mark", "record"} /\ pc' \in {"record", "start"}
        /\ pc' = "record" => pc = "mark"
        /\ UNCHANGED <<transfer_monitoring, requests, served, fileOf, hnd, finished,
                       running, done>>
    BY <1>5 DEF MarkActive, RecordHandle, statics, intake, libcurl, outside
  <2>2. Live' = Live
    BY <2>1 DEF Live
  <2>3. EntriesFor(fileOf[cur]) # {} /\ cur \in Live
    BY <2>1 DEF OpeningWell, Opening, Live
  <2>4. EntriesFor(f)' = EntriesFor(f) /\ HandlesFor(f) \subseteq HandlesFor(f)'
    BY <2>1 DEF EntriesFor, HandlesFor
  <2> QED
    BY <2>1, <2>2, <2>3, <2>4 DEF Sure, Held, Met, Opening, cur
<1>6. CASE Perform
  <2>1. PICK fin \in SUBSET running : NoTimer(multi, running \ fin, done \cup fin, freed)
    BY <1>6 DEF Perform, multi_timer_cb
  <2>2. /\ pc \in {"start", "perform"} /\ pc' \in {"wait", "drain"}
        /\ UNCHANGED <<eh_vec, transfer_monitoring, requests, served, fileOf, hnd, finished>>
    BY <1>6, Zenon DEF Perform, statics, intake, outside
  <2>3. Live' = Live
    BY <2>1, <2>2 DEF NoTimer, Live
  <2>4. EntriesFor(f)' = EntriesFor(f) /\ HandlesFor(f)' = HandlesFor(f)
    BY <2>2 DEF EntriesFor, HandlesFor
  <2> QED
    BY <2>2, <2>3, <2>4 DEF Sure, Held, Met, Opening
<1>7. CASE Wait \/ StreamFails \/ DrainEmpty
  <2>1. /\ pc \in {"start", "wait", "drain"} /\ pc' \in {"perform", "drain", "idle"}
        /\ UNCHANGED <<eh_vec, transfer_monitoring, requests, served, fileOf, hnd, finished,
                       running, done>>
    BY <1>7 DEF Wait, StreamFails, DrainEmpty, statics, intake, outside, libcurl
  <2>2. Live' = Live /\ EntriesFor(f)' = EntriesFor(f) /\ HandlesFor(f)' = HandlesFor(f)
    BY <2>1 DEF Live, EntriesFor, HandlesFor
  <2> QED
    BY <2>1, <2>2 DEF Sure, Held, Met, Opening
<1>8. CASE DrainRead
  <2>1. PICK h \in done :
            /\ done' = done \ {h}
            /\ \/ h \in eh_vec /\ hnd' = h /\ pc' = "retire"
               \/ (h \notin eh_vec \/ EntriesFor(fileOf[h]) = {}) /\ pc' = "idle"
    BY <1>8 DEF DrainRead
  <2>2. /\ pc = "drain"
        /\ UNCHANGED <<eh_vec, transfer_monitoring, requests, served, fileOf, finished, running>>
    BY <1>8 DEF DrainRead, statics, intake, outside
  <2>3. EntriesFor(f)' = EntriesFor(f) /\ HandlesFor(f)' = HandlesFor(f)
    BY <2>2 DEF EntriesFor, HandlesFor
  <2>4. h \in eh_vec
    BY <2>2 DEF Backed, Tracked, MultiTracked
  <2>5. CASE pc' = "retire"
    <3>1. Live \subseteq Live'
      BY <2>1, <2>2, <2>5 DEF Live
    <3> QED
      BY <2>2, <2>3, <2>5, <3>1 DEF Sure, Held, Met, Opening
  <2>6. CASE pc' # "retire"
    <3>1. EntriesFor(fileOf[h]) = {} /\ Live \ {h} \subseteq Live'
      BY <2>1, <2>2, <2>4, <2>6 DEF Live
    <3> QED
      BY <2>1, <2>2, <2>3, <2>6, <3>1 DEF Sure, Held, Met, Opening
  <2> QED
    BY <2>5, <2>6
<1>9. CASE Retire
  <2>1. /\ NoTimer(multi \ {hnd}, running, done, freed \cup {hnd})
        /\ eh_vec' = eh_vec \ {hnd}
        /\ transfer_monitoring' = transfer_monitoring \ {ent}
        /\ pc = "retire" /\ pc' = "dec"
        /\ UNCHANGED <<requests, served, fileOf, hnd, finished>>
    BY <1>9 DEF Retire, EraseEntries, multi_timer_cb, intake, outside
  <2>2. fileOf[ent] = fileOf[hnd]
    BY <2>1 DEF Tracked, Found
  <2>3. CASE fileOf[hnd] = f
    BY <2>1, <2>3 DEF Sure, Held, Met
  <2>4. CASE fileOf[hnd] # f
    <3>1. EntriesFor(f)' = EntriesFor(f) /\ HandlesFor(f)' = HandlesFor(f)
      BY <2>1, <2>2, <2>4 DEF EntriesFor, HandlesFor
    <3>2. Live \ {hnd} \subseteq Live'
      BY <2>1 DEF Live, NoTimer
    <3> QED
      BY <2>1, <2>4, <3>1, <3>2 DEF Sure, Held, Met, Opening
  <2> QED
    BY <2>3, <2>4
<1>10. CASE DecLoad
  <2>1. /\ pc = "dec" /\ pc' = "decStore"
        /\ UNCHANGED <<eh_vec, transfer_monitoring, requests, served, fileOf, hnd, finished,
                       running, done>>
    BY <1>10 DEF DecLoad, statics, intake, outside, libcurl
  <2>2. Live' = Live /\ EntriesFor(f)' = EntriesFor(f) /\ HandlesFor(f)' = HandlesFor(f)
    BY <2>1 DEF Live, EntriesFor, HandlesFor
  <2> QED
    BY <2>1, <2>2 DEF Sure, Held, Met, Opening
<1>11. CASE DecStore
  <2> DEFINE calls == [i \in 1 .. connections |-> hnd]
  <2>1. /\ pc = "decStore" /\ pc' = "idle" /\ finished' = finished \o calls
        /\ UNCHANGED <<eh_vec, transfer_monitoring, requests, served, fileOf, hnd,
                       running, done>>
    BY <1>11 DEF DecStore, intake, libcurl
  <2>2. hnd \in 1 .. served /\ connections \in Nat /\ connections >= 1
    BY <1>0, <2>1 DEF Tracked, Found, Retiring, connections
  <2>3. hnd \in Ids
    BY <2>2 DEF Tracked, TypeOK, Ids
  <2>4. calls \in Seq(Ids) /\ Len(calls) = connections /\ calls[1] = hnd
    BY <2>2, <2>3
  <2> HIDE DEF calls
  <2>5. /\ Len(finished) + 1 \in DOMAIN finished' /\ finished'[Len(finished) + 1] = hnd
        /\ \A i \in DOMAIN finished : i \in DOMAIN finished' /\ finished'[i] = finished[i]
    <3>1. Len(finished') = Len(finished) + connections /\ finished' \in Seq(Ids)
      BY <1>0, <2>1, <2>4, ConcatProperties
    <3>2. \A i \in 1 .. Len(finished) : finished'[i] = finished[i]
      BY <1>0, <2>1, <2>4, ConcatProperties
    <3>3. finished'[Len(finished) + 1] = calls[1]
      BY <1>0, <2>1, <2>2, <2>4, ConcatProperties
    <3>4. DOMAIN finished' = 1 .. Len(finished) + connections
      BY <3>1
    <3>5. DOMAIN finished = 1 .. Len(finished) /\ Len(finished) \in Nat
      BY <1>0
    <3> QED
      BY <2>2, <2>4, <3>2, <3>3, <3>4, <3>5
  <2>6. Live' = Live /\ EntriesFor(f)' = EntriesFor(f) /\ HandlesFor(f)' = HandlesFor(f)
    BY <2>1 DEF Live, EntriesFor, HandlesFor
  <2> QED
    BY <2>1, <2>5, <2>6 DEF Sure, Held, Met, Opening
<1> QED
  BY <1>1, <1>2, <1>3, <1>4, <1>5, <1>6, <1>7, <1>8, <1>9, <1>10, <1>11
  DEF CurlThread, NewConn, FileStream

\* What the curl thread opens keeps its entry, its transfer and its file.
LEMMA OpeningKept ==
  ASSUME Quiet, EngineInv, OpeningWell, [AppStep]_appVars
  PROVE  OpeningWell'
<1> USE DEF EngineInv, Quiet
<1>0. /\ served \in Nat /\ requests \in Seq([file : Files, resume : BOOLEAN])
      /\ transfer_monitoring \subseteq 1 .. served
      /\ pc \in {"idle", "inc", "incStore", "open", "mark", "record", "start",
                 "wait", "perform", "drain", "retire", "dec", "decStore"}
  BY DEF Tracked, TypeOK, Made
<1>1. CASE Engine
  <2>0. UNCHANGED <<row, command, closing>> /\ CurlThread
    BY <1>1 DEF Engine
  <2>1. CASE TakeRequest
    <3> PICK r : r = Head(requests)
      OBVIOUS
    <3>1. /\ requests # <<>> /\ requests' = Tail(requests) /\ served' = served + 1
          /\ resumeDl' = r.resume
          /\ Enter(served + 1, r.file)
          /\ pc' \in {"inc", "idle"} /\ UNCHANGED disk
      BY <2>1 DEF TakeRequest, outside
    <3>2. Len(requests) \in Nat /\ Len(requests) > 0
      BY <1>0, <3>1
    <3>3. served + 1 \in Ids /\ 1 .. served \subseteq Ids
      BY <1>0, <3>2, RequestsAssumption DEF Tracked, Made, Ids
    <3>4. fileOf \in [Ids -> Files \cup {NoFile}]
      BY DEF Tracked, TypeOK
    <3>5. fileOf'[cur'] = r.file
      BY <3>1, <3>3, <3>4 DEF Enter, cur
    <3>6. \A s \in 1 .. served : fileOf'[s] = fileOf[s]
      BY <1>0, <3>1, <3>3, <3>4 DEF Enter
    <3>7. \E e \in transfer_monitoring' : fileOf'[e] = r.file
      <4>1. CASE EntriesFor(r.file) = {}
        BY <3>1, <3>5, <4>1 DEF Enter, EntriesFor, cur
      <4>2. CASE EntriesFor(r.file) # {}
        BY <1>0, <3>1, <3>6, <4>2 DEF Enter, EntriesFor
      <4> QED
        BY <4>1, <4>2
    <3>8. \A i \in DOMAIN requests' : i + 1 \in DOMAIN requests
                                      /\ requests'[i] = requests[i + 1]
      BY <1>0, <3>1
    <3>9. 1 \in DOMAIN requests /\ r = requests[1]
      BY <1>0, <3>2
    <3>10. EntriesFor(fileOf[cur])' # {}
      BY <3>5, <3>7 DEF EntriesFor
    <3>11. pc' \in {"inc", "incStore", "open"} /\ resumeDl' => fileOf'[cur'] \in disk'
      BY <3>1, <3>5, <3>9 DEF OpeningWell
    <3> QED
      BY <3>1, <3>8, <3>10, <3>11 DEF OpeningWell
  <2>2. CASE IncLoad \/ IncStore
    BY <2>2 DEF IncLoad, IncStore, OpeningWell, Opening, EntriesFor, cur,
                statics, libcurl, intake, outside
  <2>3. CASE AddHandle
    <3>1. /\ running' = running \cup {cur} /\ disk \subseteq disk'
          /\ pc = "open" /\ pc' = "mark"
          /\ UNCHANGED <<transfer_monitoring, requests, served, fileOf, resumeDl>>
      BY <2>3 DEF AddHandle, NoTimer, multi_timer_cb, statics, intake
    <3> QED
      BY <3>1 DEF OpeningWell, Opening, EntriesFor, cur
  <2>4. CASE MarkActive
    BY <2>4 DEF MarkActive, OpeningWell, Opening, EntriesFor, cur, intake, libcurl, outside
  <2>5. CASE DecStore
    BY <2>5 DEF DecStore, OpeningWell, Opening, EntriesFor, intake
  <2>6. CASE OpenFails \/ RecordHandle \/ Perform \/ Wait \/ StreamFails \/ DrainEmpty
               \/ DrainRead \/ Retire \/ DecLoad
    <3>1. UNCHANGED requests
      BY <2>6 DEF OpenFails, RecordHandle, Perform, Wait, StreamFails, DrainEmpty,
                  DrainRead, Retire, DecLoad, intake
    <3>2. disk \subseteq disk'
      BY <2>6 DEF OpenFails, RecordHandle, Perform, Wait, StreamFails, DrainEmpty,
                  DrainRead, Retire, DecLoad, outside
    <3>3. pc' \notin Opening
      <4>1. CASE Perform
        BY <4>1, Zenon DEF Perform, Opening
      <4>2. CASE ~Perform
        BY <2>6, <4>2 DEF OpenFails, RecordHandle, Wait, StreamFails, DrainEmpty,
                          DrainRead, Retire, DecLoad, Opening
      <4> QED
        BY <4>1, <4>2
    <3> QED
      BY <3>1, <3>2, <3>3 DEF OpeningWell, Opening
  <2> QED
    BY <2>0, <2>1, <2>2, <2>3, <2>4, <2>5, <2>6 DEF CurlThread, NewConn, FileStream
<1>2. ASSUME UNCHANGED <<pc, served, fileOf, transfer_monitoring, resumeDl>>,
             cur \in running /\ pc \in {"mark", "record"} => cur \in running',
             disk' = disk,
             \A i \in DOMAIN requests' :
                \/ i \in DOMAIN requests /\ requests'[i] = requests[i]
                \/ requests'[i].resume => requests'[i].file \in disk
      PROVE  OpeningWell'
  BY <1>2 DEF OpeningWell, EntriesFor, cur
<1>3. CASE Stopping
  <2>1. UNCHANGED <<pc, served, fileOf, transfer_monitoring, resumeDl, requests, disk>>
    BY <1>3 DEF Stopping, StopStep, StopFind, StopMark, StopDecLoad, StopDecStore, StopRemove,
                StopAgain, StopLookup, StopEnds, StopThrew, StopReturn, Remove,
                statics, intake, curlPc, outside
  <2>2. cur \in running /\ pc \in {"mark", "record"} => cur \in running'
    <3>1. CASE StopRemove
      <4>1. running' = running \ {ghnd}
        BY <3>1 DEF StopRemove, NoTimer, multi_timer_cb
      <4> QED
        BY <4>1 DEF Tracked, Fresh, Opening
    <3>2. CASE ~StopRemove
      BY <1>3, <3>2 DEF Stopping, StopStep, StopFind, StopMark, StopDecLoad, StopDecStore, StopAgain,
                        StopLookup, StopEnds, StopThrew, StopReturn, libcurl
    <3> QED
      BY <3>1, <3>2
  <2> QED
    BY <1>2, <2>1, <2>2
<1>4. CASE Command
  <2>1. UNCHANGED <<pc, served, fileOf, transfer_monitoring, resumeDl, running>>
    BY <1>4 DEF Command, statics, libcurl, curlPc
  <2>2. CASE UNCHANGED <<requests, disk>>
    BY <1>2, <2>1, <2>2
  <2>3. CASE \E f \in Files : resumeDownload(f) \/ restartDownload(f)
    <3>1. PICK f \in Files : resumeDownload(f) \/ restartDownload(f)
      BY <2>3
    <3>2. disk' = disk
      BY <3>1 DEF resumeDownload, restartDownload, Remove
    <3>3. PICK r : requests' = Append(requests, r) /\ (r.resume => r.file \in disk)
      <4>1. \/ RequestStart(f, f \in disk)
            \/ f \in disk /\ RequestStart(f, TRUE)
            \/ RequestStart(f, FALSE)
        BY <3>1 DEF resumeDownload, restartDownload, startHttpDownload, Remove
      <4>2. CASE RequestStart(f, f \in disk)
        <5>1. (f \in disk) \in BOOLEAN
          OBVIOUS
        <5>2. \E there \in BOOLEAN : RequestStart(f, there) /\ there = (f \in disk)
          BY <4>2, <5>1, Zenon
        <5>3. PICK there \in BOOLEAN : RequestStart(f, there) /\ there = (f \in disk)
          BY <5>2
        <5>4. CASE there = TRUE
          <6>1. f \in disk /\ RequestStart(f, TRUE)
            BY <5>3, <5>4, Zenon
          <6> QED
            BY <6>1 DEF RequestStart
        <5>5. CASE there = FALSE
          BY <5>3, <5>5 DEF RequestStart
        <5> QED
          BY <5>4, <5>5
      <4>3. CASE f \in disk /\ RequestStart(f, TRUE)
        BY <4>3 DEF RequestStart
      <4>4. CASE RequestStart(f, FALSE)
        BY <4>4 DEF RequestStart
      <4> QED
        BY <4>1, <4>2, <4>3, <4>4
    <3>4. \A i \in DOMAIN requests' :
              \/ i \in DOMAIN requests /\ requests'[i] = requests[i]
              \/ requests'[i] = r
      BY <1>0, <3>3
    <3> QED
      BY <1>2, <2>1, <3>2, <3>3, <3>4
  <2> QED
    BY <1>4, <2>2, <2>3 DEF Command, outside
<1>5. CASE StopCommand \/ terminate_curl_downloads \/ UNCHANGED appVars
  <2>1. UNCHANGED <<pc, served, fileOf, transfer_monitoring, resumeDl, requests, disk, running>>
    BY <1>5 DEF StopCommand, pauseDownload, haltDownload, EmitStop, StopLookup,
                terminate_curl_downloads, appVars, vars,
                statics, libcurl, intake, curlPc, outside
  <2> QED
    BY <1>2, <2>1
<1> QED
  BY <1>1, <1>3, <1>4, <1>5 DEF AppStep

\* While recvStopDl works for a slot, it works on that slot's file.
LEMMA StoppingKept ==
  ASSUME Quiet, EngineInv, OpeningWell, StoppingWell, [AppStep]_appVars
  PROVE  StoppingWell'
<1> USE DEF EngineInv, Quiet
<1>0. served \in Nat /\ eh_vec \subseteq 1 .. served
  BY DEF Tracked, TypeOK, Made
<1>1. CASE Engine
  <2>1. CurlThread /\ UNCHANGED gfile
    BY <1>1 DEF Engine, command
  <2>2. UNCHANGED <<gpc, ghnd>>
    BY <2>1 DEF CurlThread, NewConn, FileStream, TakeRequest, IncLoad, IncStore,
                OpenFails, AddHandle, MarkActive, RecordHandle, Perform, Wait, StreamFails,
                DrainEmpty, DrainRead, Retire, DecLoad, DecStore, guiPc
  <2>3. \A s \in 1 .. served : s \in 1 .. served' /\ fileOf'[s] = fileOf[s]
    <3>1. CASE TakeRequest
      <4>1. served' = served + 1
            /\ \E f : fileOf' = [fileOf EXCEPT ![served + 1] = f]
        BY <3>1 DEF TakeRequest, Enter
      <4> QED
        BY <1>0, <4>1 DEF Tracked, TypeOK, Made, Ids
    <3>2. CASE ~TakeRequest
      BY <2>1, <3>2 DEF CurlThread, NewConn, FileStream, IncLoad, IncStore,
                OpenFails, AddHandle, MarkActive, RecordHandle, Perform, Wait, StreamFails,
                DrainEmpty, DrainRead, Retire, DecLoad, DecStore, intake
    <3> QED
      BY <3>1, <3>2
  <2>4. CASE gpc \in StoppingSteps \cup {"find", "returned"}
    <3>1. gfile \in Files
      BY <2>4 DEF SlotTypes, StoppingSteps
    <3> PICK f \in Files : f = gfile
      BY <3>1
    <3>2. (gpc # "find" => Held(f)') /\ (gpc = "find" => Met(f)')
      BY <2>1, <2>4, CurlThreadKeeps DEF StoppingWell
    <3>3. (gpc # "find" => Held(gfile)') /\ (gpc = "find" => Met(gfile)')
      BY <2>1, <3>2 DEF Held, Met, EntriesFor, HandlesFor
    <3> QED
      BY <2>1, <2>2, <2>3, <2>4, <3>3 DEF StoppingWell, StoppingSteps
  <2> QED
    BY <2>2, <2>4 DEF StoppingWell, StoppingSteps
<1>2. ASSUME NEW f \in Files, StopLookup(f), gfile' = f
      PROVE  StoppingWell'
  <2>1. /\ UNCHANGED <<served, fileOf, pc, hnd, finished, eh_vec, transfer_monitoring>>
        /\ gpc' # "threw" => HandlesFor(f) # {} /\ ghnd' \in HandlesFor(f)
        /\ gpc' \in {"threw", "find"}
    BY <1>2 DEF StopLookup, statics, intake, curlPc, outside
  <2>2. gpc' # "threw" => ghnd' \in 1 .. served' /\ fileOf'[ghnd'] = gfile'
    BY <1>0, <1>2, <2>1 DEF HandlesFor
  <2>3. gpc' # "threw" => Met(gfile)'
    BY <1>2, <2>1 DEF Met, HandlesFor
  <2> QED
    BY <2>1, <2>2, <2>3 DEF StoppingWell, StoppingSteps
<1>3. CASE Stopping
  <2>1. CASE StopStep /\ UNCHANGED <<row, command, closing>>
    <3>1. /\ UNCHANGED <<served, fileOf, pc, hnd, finished, eh_vec, transfer_monitoring,
                         ghnd, gfile>>
          /\ gpc \in StoppingSteps \cup {"find"}
      BY <2>1 DEF StopStep, StopFind, StopMark, StopDecLoad, StopDecStore, StopRemove,
                  StoppingSteps, statics, intake, curlPc, outside, command
    <3>2. CASE gpc # "find"
      <4>1. gpc' \in StoppingSteps \cup {"returned"}
        BY <2>1, <3>2 DEF StopStep, StopFind, StopMark, StopDecLoad, StopDecStore, StopRemove,
                          StoppingSteps
      <4> QED
        BY <3>1, <3>2, <4>1 DEF StoppingWell, StoppingSteps, Held, EntriesFor, HandlesFor
    <3>3. CASE gpc = "find"
      <4>1. /\ gpc' \in {"threw", "mark", "returned"}
            /\ gpc' # "threw" => EntriesFor(gfile) # {}
        BY <2>1, <3>3 DEF StopStep, StopFind, StopMark, StopDecLoad, StopDecStore, StopRemove,
                          StoppingWell
      <4>2. gpc' # "threw" => Held(gfile)
        BY <3>3, <4>1 DEF StoppingWell, Held, Met
      <4> QED
        BY <3>1, <3>3, <4>1, <4>2 DEF StoppingWell, StoppingSteps, Held, EntriesFor, HandlesFor
    <3> QED
      BY <3>2, <3>3
  <2>2. CASE StopAgain
    <3>1. gfile \in Files /\ StopLookup(gfile) /\ gfile' = gfile
      BY <2>2 DEF StopAgain, SlotTypes
    <3> QED
      BY <1>2, <3>1
  <2>3. CASE StopEnds \/ StopThrew
    BY <2>3 DEF StopEnds, StopThrew, StopReturn, StoppingWell, StoppingSteps
  <2> QED
    BY <1>3, <2>1, <2>2, <2>3 DEF Stopping
<1>4. CASE StopCommand
  <2>1. PICK f \in Files : StopLookup(f) /\ gfile' = f
    BY <1>4 DEF StopCommand, pauseDownload, haltDownload, EmitStop
  <2> QED
    BY <1>2, <2>1
<1>5. CASE Command \/ terminate_curl_downloads
  BY <1>5 DEF Command, terminate_curl_downloads, vars, guiPc, StoppingWell, StoppingSteps
<1>6. CASE UNCHANGED appVars
  BY <1>6 DEF appVars, vars, command, statics, libcurl, intake, curlPc, guiPc, outside,
              StoppingWell, Held, Met, EntriesFor, HandlesFor
<1> QED
  BY <1>1, <1>3, <1>4, <1>5, <1>6 DEF AppStep

\* No step leaves a row that shows Downloading with nothing under way for it.
LEMMA RowsKept ==
  ASSUME Quiet, EngineInv, OpeningWell, StoppingWell, RowsBacked, [AppStep]_appVars
  PROVE  RowsBacked'
<1> USE DEF EngineInv, Quiet
<1>0. /\ requests \in Seq([file : Files, resume : BOOLEAN]) /\ finished \in Seq(Ids)
      /\ row \in [Files -> Status]
      /\ gpc \in StoppingSteps \cup {"idle", "find", "returned", "threw"}
  BY DEF Tracked, TypeOK, SlotTypes, StoppingSteps
<1> SUFFICES ASSUME NEW f \in Files, row'[f] = "Downloading"
             PROVE  Sure(f)' \/ BeingStopped(f)'
  BY DEF RowsBacked
<1>1. CASE Engine
  <2>1. CurlThread /\ UNCHANGED <<row, gfile>>
    BY <1>1 DEF Engine, command
  <2>2. UNCHANGED gpc
    BY <2>1 DEF CurlThread, NewConn, FileStream, TakeRequest, IncLoad, IncStore,
                OpenFails, AddHandle, MarkActive, RecordHandle, Perform, Wait, StreamFails,
                DrainEmpty, DrainRead, Retire, DecLoad, DecStore, guiPc
  <2> QED
    BY <2>1, <2>2, CurlThreadKeeps DEF RowsBacked, BeingStopped
<1>2. ASSUME UNCHANGED <<pc, served, fileOf, transfer_monitoring, requests, hnd, finished,
                         running, done>>
      PROVE  Sure(f) <=> Sure(f)'
  BY <1>2 DEF Sure, EntriesFor, Live, cur
<1>3. ASSUME NEW g \in Files, StopLookup(g), gfile' = g, row' = row,
             gpc = "idle" \/ (gpc = "returned" /\ gfile = g)
      PROVE  Sure(f)' \/ BeingStopped(f)'
  <2>1. Sure(f) <=> Sure(f)'
    BY <1>2, <1>3 DEF StopLookup, statics, libcurl, intake, curlPc, outside
  <2>2. CASE gpc' = "threw"
    <3>1. HandlesFor(g) = {}
      BY <1>3, <2>2 DEF StopLookup
    <3>2. gpc = "returned" => Sure(g)
      BY <1>3, <3>1 DEF StoppingWell, Held, Sure
    <3> QED
      BY <1>3, <2>1, <3>2 DEF RowsBacked, BeingStopped, StoppingSteps
  <2>3. CASE gpc' # "threw"
    <3>1. gpc' = "find"
      BY <1>3, <2>3 DEF StopLookup
    <3>2. gpc = "returned" => Held(g)'
      BY <1>3 DEF StoppingWell, StopLookup, Held, EntriesFor, HandlesFor,
                  statics, intake, curlPc, outside
    <3> QED
      BY <1>3, <2>1, <3>1, <3>2 DEF RowsBacked, BeingStopped, StoppingSteps
  <2> QED
    BY <2>2, <2>3
<1>4. CASE Stopping
  <2>1. CASE StopStep /\ gpc # "find" /\ UNCHANGED <<row, command, closing>>
    <3>1. /\ UNCHANGED <<row, gfile, pc, served, fileOf, transfer_monitoring, requests, hnd,
                         finished>>
          /\ gpc \in StoppingSteps /\ gpc' \in StoppingSteps \cup {"returned"}
      BY <2>1 DEF StopStep, StopFind, StopMark, StopDecLoad, StopDecStore, StopRemove, StoppingSteps,
                  statics, intake, curlPc, outside, command
    <3>2. CASE f = gfile
      BY <3>1, <3>2 DEF BeingStopped
    <3>3. CASE f # gfile
      <4>1. Sure(f)
        BY <3>1, <3>3 DEF RowsBacked, BeingStopped
      <4>2. \A h \in Live : fileOf[h] = f => h \in Live'
        <5>1. CASE StopRemove
          <6>1. running' = running \ {ghnd} /\ done' = done \ {ghnd} /\ fileOf[ghnd] = gfile
            BY <5>1 DEF StopRemove, NoTimer, multi_timer_cb, StoppingWell, StoppingSteps
          <6> QED
            BY <3>1, <3>3, <6>1 DEF Live
        <5>2. CASE ~StopRemove
          BY <2>1, <5>2 DEF StopStep, StopFind, StopMark, StopDecLoad, StopDecStore, Live, libcurl, curlPc
        <5> QED
          BY <5>1, <5>2
      <4> QED
        BY <3>1, <4>1, <4>2 DEF Sure, EntriesFor, cur
    <3> QED
      BY <3>2, <3>3
  <2>5. CASE StopFind /\ UNCHANGED <<row, command, closing>>
    <3>1. /\ gpc = "find" /\ gpc' \in {"threw", "mark", "returned"}
          /\ gpc' = "threw" => EntriesFor(gfile) = {}
          /\ UNCHANGED <<row, gfile>>
      BY <2>5 DEF StopFind, StoppingWell, command
    <3>2. Sure(f) <=> Sure(f)'
      BY <1>2, <2>5 DEF StopFind, statics, libcurl, intake, curlPc, outside
    <3>3. gpc' = "threw" /\ Held(gfile) => Sure(gfile)
      BY <3>1 DEF Held, Sure
    <3> QED
      BY <3>1, <3>2, <3>3 DEF RowsBacked, BeingStopped, StoppingSteps
  <2>2. CASE StopAgain
    <3>1. gfile \in Files /\ StopLookup(gfile) /\ gfile' = gfile /\ row' = row /\ gpc = "returned"
      BY <2>2 DEF StopAgain, SlotTypes
    <3> QED
      BY <1>3, <3>1
  <2>3. CASE StopEnds
    <3>1. row' = [row EXCEPT ![gfile] = gnew] /\ gpc = "returned"
      BY <2>3 DEF StopEnds
    <3>2. f # gfile
      BY <1>0, <3>1 DEF SlotTypes
    <3>3. Sure(f)
      BY <1>0, <3>1, <3>2 DEF RowsBacked, BeingStopped
    <3>4. Sure(f)'
      BY <1>2, <2>3, <3>3 DEF StopEnds, statics, libcurl, intake, curlPc
    <3> QED
      BY <3>4
  <2>4. CASE StopThrew
    <3>1. row' = row /\ gpc = "threw"
      BY <2>4 DEF StopThrew
    <3>2. Sure(f)
      BY <3>1 DEF RowsBacked, BeingStopped, StoppingSteps
    <3>3. Sure(f)'
      BY <1>2, <2>4, <3>2 DEF StopThrew, StopReturn, statics, libcurl, intake, curlPc, outside
    <3> QED
      BY <3>3
  <2> QED
    BY <1>4, <2>1, <2>2, <2>3, <2>4, <2>5
    DEF Stopping, StopStep, StopFind, StopMark, StopDecLoad, StopDecStore, StopRemove
<1>5. CASE Command
  <2>1. /\ gpc = "idle"
        /\ UNCHANGED <<pc, served, fileOf, transfer_monitoring, hnd, running, done>>
    BY <1>5 DEF Command, statics, libcurl, curlPc
  <2>2. row[f] = "Downloading" => Sure(f)
    BY <2>1 DEF RowsBacked, BeingStopped, StoppingSteps
  <2>3. CASE UNCHANGED finished /\ \E g \in Files : resumeDownload(g) \/ restartDownload(g)
    <3>1. PICK g \in Files : resumeDownload(g) \/ restartDownload(g)
      BY <2>3
    <3>2. PICK resume : RequestStart(g, resume) /\ row' = [row EXCEPT ![g] = "Downloading"]
      <4>1. /\ row' = [row EXCEPT ![g] = "Downloading"]
            /\ RequestStart(g, g \in disk) \/ RequestStart(g, TRUE) \/ RequestStart(g, FALSE)
        BY <3>1 DEF resumeDownload, restartDownload, startHttpDownload, Remove
      <4> QED
        BY <4>1, Zenon
    <3> DEFINE n == Len(requests)
    <3>3. /\ n + 1 \in DOMAIN requests' /\ requests'[n + 1].file = g
          /\ \A i \in DOMAIN requests : i \in DOMAIN requests' /\ requests'[i] = requests[i]
      BY <1>0, <3>2 DEF RequestStart
    <3>4. CASE f = g
      BY <3>3, <3>4 DEF Sure
    <3>5. CASE f # g
      BY <1>0, <2>1, <2>2, <2>3, <3>2, <3>3, <3>5 DEF Sure, EntriesFor, Live, cur
    <3> QED
      BY <3>4, <3>5
  <2>4. CASE /\ (\E g \in Files : sendDetails(g) \/ removeSelRows(g)) \/ clearOldHistory
             /\ UNCHANGED <<requests, outside>>
    <3>1. row[f] = "Downloading"
      BY <1>0, <2>4 DEF sendDetails, removeSelRows, clearOldHistory
    <3> QED
      BY <1>2, <2>1, <2>2, <2>4, <3>1 DEF outside
  <2>5. CASE recvDlFinished /\ UNCHANGED <<requests, disk>>
    <3> DEFINE g == fileOf[Head(finished)]
    <3>1. /\ finished # <<>> /\ finished' = Tail(finished)
          /\ row' = IF row[g] = "Downloading" THEN [row EXCEPT ![g] = "Completed"] ELSE row
      BY <2>5 DEF recvDlFinished, TakeFinished
    <3>2. f # g /\ row[f] = "Downloading"
      <4> HIDE DEF g
      <4> QED
        BY <1>0, <3>1
    <3>3. \A i \in DOMAIN finished : fileOf[finished[i]] = f =>
              i - 1 \in DOMAIN finished' /\ finished'[i - 1] = finished[i]
      <4>1. /\ \A i \in DOMAIN finished : i # 1 =>
                   i - 1 \in DOMAIN finished' /\ finished'[i - 1] = finished[i]
            /\ Head(finished) = finished[1]
        BY <1>0, <3>1
      <4> QED
        BY <3>2, <4>1
    <3> QED
      BY <2>1, <2>2, <2>5, <3>2, <3>3 DEF Sure, EntriesFor, Live, cur
  <2> QED
    BY <1>5, <2>3, <2>4, <2>5 DEF Command
<1>6. CASE StopCommand
  <2>1. PICK g \in Files : StopLookup(g) /\ gfile' = g
    BY <1>6 DEF StopCommand, pauseDownload, haltDownload, EmitStop
  <2>2. gpc = "idle" /\ row' = row
    BY <1>6 DEF StopCommand
  <2> QED
    BY <1>3, <2>1, <2>2
<1>7. CASE terminate_curl_downloads \/ UNCHANGED appVars
  <2>1. UNCHANGED <<vars, row, command>>
    BY <1>7 DEF terminate_curl_downloads, appVars
  <2>2. Sure(f) => Sure(f)'
    BY <1>2, <2>1 DEF vars, statics, libcurl, intake, curlPc, outside
  <2>3. Held(f) => Held(f)'
    BY <2>1 DEF Held, EntriesFor, HandlesFor, vars, statics, intake, curlPc, outside
  <2> QED
    BY <2>1, <2>2, <2>3 DEF RowsBacked, BeingStopped, vars, guiPc, command
<1> QED
  BY <1>1, <1>4, <1>5, <1>6, <1>7 DEF AppStep

\* A row that shows Downloading is never left alone: whatever commands, stops
\* and ends of transfers come together, there is a request, a transfer that
\* fileStream will find the entry of, or a finish signal for it.  libcurl
\* reports neither an error nor an expired timeout, and no file is removed.
THEOREM RowsAreBacked ==
  ASSUME ~LibcurlFails, ~TimerReports, ~RemovesFiles
  PROVE  AppSpec => []DownloadingBacked
<1> DEFINE Rows == OpeningWell /\ StoppingWell /\ RowsBacked
<1>1. Rows => DownloadingBacked
  BY DEF RowsBacked, DownloadingBacked, Sure, BeingStopped, Pending, Opening, StoppingSteps
<1>2. AppInit => Rows
  BY RowsInit
<1>3. EngineInv /\ Rows /\ [AppNext]_allVars => Rows'
  BY NextIsAppStep, OpeningKept, StoppingKept, RowsKept DEF Quiet
<1>4. AppSpec => []EngineInv
  <2>1. Spec => []Tracked /\ []Backed /\ []Announced
    BY TrackedAlways, BackedAlways, AnnouncedAlways
  <2> QED
    BY <2>1, ProgramImplementsEngine, SlotTypesAlways, PTL DEF EngineInv
<1> QED
  BY <1>1, <1>2, <1>3, <1>4, PTL DEF AppSpec
=============================================================================
