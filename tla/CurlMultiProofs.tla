--------------------------- MODULE CurlMultiProofs ---------------------------
(***************************************************************************)
(* Proofs about the transfer engine, for any set of files and any number   *)
(* of start requests.                                                      *)
(*                                                                         *)
(* Tracked is inductive whatever libcurl does with its timer, and so are,  *)
(* relative to it, Owned (which gives FreedOnce) and Announced (which      *)
(* gives FinishedRetired).  Backed, which strengthens NoPhantomActive, is  *)
(* inductive relative to Tracked when libcurl reports no expired timeout:  *)
(* check_multi_info would take messages away from fileStream.              *)
(***************************************************************************)
EXTENDS CurlMulti, SequenceTheorems, TLAPS

\* The steps of recvNewDl in which the last request has no eh_vec entry yet.
Opening == {"inc", "incStore", "open", "mark", "record"}

\* The steps of fileStream that deal with the handle of one message.
Retiring == {"retire", "dec", "decStore"}

\* The steps of recvStopDl after it has found the transfer active.
StoppingSteps == {"mark", "dec", "decStore", "remove"}

\* Whatever the program holds was made by a request that it has taken.
Made ==
    /\ served + Len(requests) <= MaxRequests
    /\ eh_vec \subseteq 1 .. served
    /\ multi \subseteq 1 .. served
    /\ transfer_monitoring \subseteq 1 .. served
    /\ ghnd \in 0 .. served
    /\ \A s \in 1 .. served : fileOf[s] \in Files

\* The handle that new_conn is making is unknown to recvStopDl.
Fresh ==
    pc \in Opening => cur \in Ids /\ cur \notin eh_vec /\ cur # ghnd

\* The handle that fileStream retires, and the entry it found for it.
Found ==
    /\ pc \in Retiring => hnd \in 1 .. served
    /\ pc = "retire" => ent \in transfer_monitoring /\ fileOf[ent] = fileOf[hnd]

Tracked ==
    /\ TypeOK
    /\ Made
    /\ Fresh
    /\ Found
    /\ MultiTracked
    /\ MonitoringUnique

\* Each active entry has a live handle of its file, and one that the stop
\* under way, if any, is not about to remove; the entry that this stop is
\* about to reset is excepted.
Backed ==
    /\ running \subseteq multi
    /\ done \subseteq multi \ running
    /\ pc = "retire" => hnd \notin running \cup done
    /\ isActive \subseteq transfer_monitoring
    /\ pc = "mark" => cur \in running
    /\ gpc = "find" => ghnd \in 1 .. served
    /\ gpc = "mark" => /\ ghnd \in 1 .. served /\ gent \in 1 .. served
                       /\ fileOf[ghnd] = fileOf[gent]
    /\ \A e \in isActive : \E h \in Live :
          /\ fileOf[h] = fileOf[e]
          /\ gpc \in StoppingSteps /\ (gpc = "mark" => e # gent) => h # ghnd
-----------------------------------------------------------------------------
USE DEF GoOn, cur, Ids, statics, libcurl, intake, curlPc, guiPc, outside,
        Opening, Retiring

\* A step of the engine is one of its two threads', or it changes nothing
\* but undefined.
LEMMA NextIsStep ==
  ASSUME [Next]_engineVars
  PROVE  [Step]_vars
  BY DEF Next, Going, Lapse, Lapsed, engineVars

\* The initial state satisfies Tracked: nothing is held and nothing queued.
LEMMA TrackedInit == Init => Tracked
<1> SUFFICES ASSUME Init
             PROVE  Tracked
  OBVIOUS
<1> USE FilesAssumption, RequestsAssumption DEF Init
<1>1. requests \in Seq([file : Files, resume : BOOLEAN]) /\ Len(requests) = 0
  OBVIOUS
<1>2. finished \in Seq(Ids)
  OBVIOUS
<1>3. still_running \in BOOLEAN /\ resumeDl \in BOOLEAN /\ undefined \in BOOLEAN
  BY Zenon
<1>4. TypeOK
  BY <1>1, <1>2, <1>3 DEF TypeOK
<1>5. Made /\ Fresh /\ Found
  BY <1>1 DEF Made, Fresh, Found
<1>6. MultiTracked /\ MonitoringUnique
  BY DEF MultiTracked, MonitoringUnique
<1> QED
  BY <1>4, <1>5, <1>6 DEF Tracked

LEMMA TrackedNext ==
  ASSUME Tracked, [Step]_vars, undefined' \in BOOLEAN
  PROVE  Tracked'
<1> USE FilesAssumption, RequestsAssumption, LibcurlAssumption
    DEF Tracked, TypeOK, Made, Fresh, Found, MultiTracked, MonitoringUnique
<1>1. CASE TakeRequest
  <2> DEFINE f == Head(requests).file
  <2>1. /\ f \in Files
        /\ Head(requests).resume \in BOOLEAN
        /\ Tail(requests) \in Seq([file : Files, resume : BOOLEAN])
        /\ Len(Tail(requests)) = Len(requests) - 1
        /\ Len(requests) \in Nat /\ Len(requests) > 0
    <3> DEFINE Request == [file : Files, resume : BOOLEAN]
    <3>1. requests \in Seq(Request) /\ requests # <<>>
      BY <1>1 DEF TakeRequest
    <3>2. Head(requests) \in Request /\ Tail(requests) \in Seq(Request)
      BY <3>1, HeadTailProperties
    <3>3. f \in Files /\ Head(requests).resume \in BOOLEAN
      BY <3>2, Zenon
    <3> HIDE DEF Request
    <3>4. /\ Len(Tail(requests)) = Len(requests) - 1
          /\ Len(requests) \in Nat /\ Len(requests) > 0
      BY <3>1
    <3> QED
      BY <3>2, <3>3, <3>4 DEF Request
  <2>2. /\ requests' = Tail(requests)
        /\ served' = served + 1
        /\ fileOf' = [fileOf EXCEPT ![served + 1] = f]
        /\ resumeDl' = Head(requests).resume
        /\ transfer_monitoring' = IF EntriesFor(f) = {}
                                  THEN transfer_monitoring \cup {served + 1}
                                  ELSE transfer_monitoring
        /\ pc = "idle" /\ pc' \in {"inc", "idle"}
        /\ UNCHANGED <<eh_vec, isActive, active_downloads, libcurl,
                       hnd, ent, reg, guiPc, outside>>
    BY <1>1 DEF TakeRequest, Enter
  <2> HIDE DEF f
  <2>3. served' \in Ids /\ served' + Len(requests') <= MaxRequests
    BY <2>1, <2>2
  <2>4. TypeOK'
    BY <2>1, <2>2, <2>3
  <2>5. \A s \in 1 .. served : fileOf'[s] = fileOf[s]
    BY <2>2, <2>3
  <2>6. Made'
    BY <2>1, <2>2, <2>3, <2>5
  <2>7. MultiTracked' /\ Fresh' /\ Found'
    BY <2>2, <2>3
  <2>8. MonitoringUnique'
    <3>1. fileOf'[served + 1] = f
      BY <2>2, <2>3
    <3>2. CASE EntriesFor(f) = {}
      <4>1. \A e \in transfer_monitoring : e \in 1 .. served /\ fileOf[e] # f
        BY <3>2 DEF EntriesFor
      <4>2. transfer_monitoring' = transfer_monitoring \cup {served + 1}
        BY <2>2, <3>2
      <4> QED
        BY <2>5, <3>1, <4>1, <4>2
    <3>3. CASE EntriesFor(f) # {}
      BY <2>2, <2>5, <3>3
    <3> QED
      BY <3>2, <3>3
  <2> QED
    BY <2>4, <2>6, <2>7, <2>8
<1>2. CASE IncLoad
  BY <1>2 DEF IncLoad
<1>3. CASE IncStore
  BY <1>3 DEF IncStore
<1>4. CASE OpenFails
  BY <1>4 DEF OpenFails
<1>5. CASE AddHandle
  <2>1. /\ pc = "open" /\ pc' = "mark"
        /\ multi' \subseteq multi \cup {cur}
        /\ disk' = disk \cup {fileOf[cur]}
        /\ UNCHANGED <<statics, intake, hnd, ent, reg, guiPc, finished>>
    BY <1>5 DEF AddHandle, NoTimer, multi_timer_cb, check_multi_info
  <2>2. /\ running' \subseteq Ids /\ done' \subseteq Ids /\ freed' \subseteq Ids
    BY <1>5 DEF AddHandle, NoTimer, multi_timer_cb, check_multi_info
  <2>3. still_running' \in BOOLEAN
    BY <1>5 DEF AddHandle, NoTimer, multi_timer_cb, check_multi_info
  <2>4. TypeOK'
    BY <2>1, <2>2, <2>3
  <2> QED
    BY <2>1, <2>4
<1>6. CASE MarkActive
  BY <1>6 DEF MarkActive, EntriesFor
<1>7. CASE RecordHandle
  BY <1>7 DEF RecordHandle
<1>8. CASE Perform
  BY <1>8 DEF Perform, NoTimer, multi_timer_cb, check_multi_info
<1>9. CASE Wait
  BY <1>9 DEF Wait
<1>10. CASE StreamFails
  BY <1>10 DEF StreamFails
<1>11. CASE DrainEmpty
  BY <1>11 DEF DrainEmpty
<1>12. CASE DrainRead
  <2>1. /\ done' \subseteq done
        /\ \/ /\ hnd' \in eh_vec /\ ent' \in EntriesFor(fileOf[hnd'])
              /\ pc' = "retire"
           \/ pc' = "idle" /\ UNCHANGED <<hnd, ent>>
        /\ pc = "drain"
        /\ UNCHANGED <<statics, still_running, multi, running, freed, intake,
                       reg, guiPc, outside>>
    BY <1>12 DEF DrainRead
  <2>2. TypeOK'
    <3>1. CASE UNCHANGED <<hnd, ent>>
      BY <2>1, <3>1
    <3>2. CASE hnd' \in eh_vec /\ ent' \in EntriesFor(fileOf[hnd'])
      <4>1. hnd' \in 0 .. MaxRequests /\ ent' \in 0 .. MaxRequests
        BY <3>2 DEF EntriesFor
      <4> QED
        BY <2>1, <4>1
    <3> QED
      BY <2>1, <3>1, <3>2
  <2>3. Made' /\ Fresh' /\ MultiTracked' /\ MonitoringUnique'
    BY <2>1
  <2>4. Found'
    BY <2>1 DEF EntriesFor
  <2> QED
    BY <2>2, <2>3, <2>4
<1>13. CASE Retire
  <2>1. /\ pc = "retire" /\ pc' = "dec"
        /\ multi' \subseteq multi \ {hnd}
        /\ EraseEntries
        /\ UNCHANGED <<active_downloads, intake, hnd, ent, reg, guiPc, outside>>
    BY <1>13 DEF Retire, NoTimer, multi_timer_cb, check_multi_info
  <2>2. /\ running' \subseteq Ids /\ done' \subseteq Ids /\ freed' \subseteq Ids
    <3>1. {hnd} \subseteq Ids
      BY <2>1
    <3>2. CASE NoTimer(multi \ {hnd}, running, done, freed \cup {hnd})
      BY <3>1, <3>2 DEF NoTimer
    <3>3. CASE multi_timer_cb(multi \ {hnd}, running, done, freed \cup {hnd})
      BY <3>1, <3>3 DEF multi_timer_cb, check_multi_info
    <3> QED
      BY <1>13, <3>2, <3>3 DEF Retire
  <2>3. still_running' \in BOOLEAN
    <3>1. \/ still_running' = still_running
          \/ \E fin : still_running' = (running # fin)
      BY <1>13, Zenon DEF Retire, multi_timer_cb
    <3>2. still_running \in BOOLEAN
      OBVIOUS
    <3> QED
      BY <3>1, <3>2, Zenon
  <2>4. TypeOK'
    BY <2>1, <2>2, <2>3 DEF EraseEntries
  <2> QED
    BY <2>1, <2>4 DEF EraseEntries
<1>14. CASE DecLoad
  BY <1>14 DEF DecLoad
<1>15. CASE DecStore
  BY <1>15 DEF DecStore, connections
<1>16. CASE StopFind \/ StopMark
  <2>1. CASE StopMark
    BY <2>1 DEF StopMark
  <2>2. CASE StopFind
    <3>1. /\ UNCHANGED <<statics, libcurl, intake, curlPc, ghnd, greg, outside>>
          /\ gent' = gent \/ gent' \in transfer_monitoring
          /\ gpc' \in {"threw", "mark", "returned"}
      BY <2>2 DEF StopFind, EntriesFor
    <3>2. gent' \in 0 .. MaxRequests
      <4>1. transfer_monitoring \subseteq 0 .. MaxRequests /\ gent \in 0 .. MaxRequests
        OBVIOUS
      <4> QED
        BY <3>1, <4>1, Zenon
    <3>3. TypeOK'
      BY <3>1, <3>2
    <3>4. Made' /\ Fresh' /\ Found'
      BY <3>1
    <3>5. MultiTracked' /\ MonitoringUnique'
      BY <3>1
    <3> QED
      BY <3>3, <3>4, <3>5
  <2> QED
    BY <1>16, <2>1, <2>2
<1>17. CASE StopDecLoad
  BY <1>17 DEF StopDecLoad
<1>18. CASE StopDecStore
  BY <1>18 DEF StopDecStore
<1>19. CASE StopRemove
  BY <1>19 DEF StopRemove, NoTimer, multi_timer_cb, check_multi_info
<1>20. CASE GuiThread
  <2>1. CASE \E f \in Files : StopLookup(f)
    BY <2>1 DEF StopLookup, HandlesFor
  <2>2. CASE GoOn
    <3>1. /\ requests' \in Seq([file : Files, resume : BOOLEAN])
          /\ served + Len(requests') <= MaxRequests
      <4>1. CASE UNCHANGED requests
        BY <4>1
      <4>2. ASSUME NEW f \in Files, NEW resume \in BOOLEAN, RequestStart(f, resume)
            PROVE  /\ requests' \in Seq([file : Files, resume : BOOLEAN])
                   /\ served + Len(requests') <= MaxRequests
        BY <2>2, <4>2 DEF RequestStart
      <4> QED
        BY <2>2, <4>1, <4>2, Zenon
    <3>2. finished' \in Seq(Ids)
      <4>1. finished # <<>> => Tail(finished) \in Seq(Ids)
        BY HeadTailProperties
      <4> QED
        BY <2>2, <4>1, Zenon DEF TakeFinished
    <3> QED
      BY <2>2, <3>1, <3>2
  <2> QED
    BY <1>20, <2>1, <2>2 DEF GuiThread
<1>21. CASE UNCHANGED vars
  BY <1>21 DEF vars
<1> QED
  BY <1>1, <1>2, <1>3, <1>4, <1>5, <1>6, <1>7, <1>8, <1>9, <1>10, <1>11,
     <1>12, <1>13, <1>14, <1>15, <1>16, <1>17, <1>18, <1>19, <1>20, <1>21
  DEF Step, CurlThread, NewConn, FileStream, StopStep

\* Every behaviour of the engine satisfies Tracked.
THEOREM TrackedAlways == Spec => []Tracked
<1>1. ASSUME Tracked, [Next]_engineVars
      PROVE  undefined' \in BOOLEAN
  <2>1. undefined \in BOOLEAN
    BY <1>1 DEF Tracked, TypeOK
  <2>2. undefined' = TRUE \/ undefined' = undefined
    BY <1>1, Zenon DEF Next, Going, Lapse, Lapsed, engineVars
  <2> QED
    BY <2>1, <2>2, Zenon
<1>2. Tracked /\ [Next]_engineVars => Tracked'
  BY <1>1, NextIsStep, TrackedNext
<1> QED
  BY <1>2, TrackedInit, PTL DEF Spec

\* The engine's variables always have their types: in particular no step
\* of either thread refers to a request that was never taken.
THEOREM TypesHold == Spec => []TypeOK
<1>1. Tracked => TypeOK
  BY DEF Tracked
<1> QED
  BY <1>1, TrackedAlways, PTL

\* Every handle in the multi handle is known to eh_vec, whatever happens in
\* libcurl's calls and however stops interleave with fileStream.
THEOREM HandlesTracked == Spec => []MultiTracked
<1>1. Tracked => MultiTracked
  BY DEF Tracked
<1> QED
  BY <1>1, TrackedAlways, PTL

\* The two threads' searches of transfer_monitoring by destination have at
\* most one answer.
THEOREM OneEntryPerFile == Spec => []MonitoringUnique
<1>1. Tracked => MonitoringUnique
  BY DEF Tracked
<1> QED
  BY <1>1, TrackedAlways, PTL
-----------------------------------------------------------------------------
\* Initially there is no active entry to back.
LEMMA BackedInit == Init => Backed
  BY DEF Init, Backed, Live, StoppingSteps

LEMMA BackedNext ==
  ASSUME ~TimerReports, Tracked, Backed, [Step]_vars
  PROVE  Backed'
<1> USE DEF Backed, Live, StoppingSteps
<1>1. CASE TakeRequest
  <2>1. /\ served' = served + 1 /\ served \in Nat
        /\ \A s \in 1 .. served : fileOf'[s] = fileOf[s]
        /\ transfer_monitoring \subseteq transfer_monitoring'
        /\ pc = "idle" /\ pc' \in {"inc", "idle"}
        /\ UNCHANGED <<isActive, multi, running, done, gpc, ghnd, gent>>
    BY <1>1 DEF TakeRequest, Enter, Tracked, TypeOK
  <2>2. multi \subseteq 1 .. served /\ transfer_monitoring \subseteq 1 .. served
    BY DEF Tracked, Made
  <2>3. Live' = Live /\ Live \subseteq 1 .. served
    BY <2>1, <2>2
  <2>4. ASSUME NEW e \in isActive'
        PROVE  \E h \in Live' :
                  /\ fileOf'[h] = fileOf'[e]
                  /\ gpc' \in StoppingSteps /\ (gpc' = "mark" => e # gent') => h # ghnd'
    <3>1. e \in isActive /\ fileOf'[e] = fileOf[e]
      BY <2>1, <2>2
    <3>2. PICK h \in Live : /\ fileOf[h] = fileOf[e]
                            /\ gpc \in StoppingSteps /\ (gpc = "mark" => e # gent) => h # ghnd
      BY <3>1
    <3>3. fileOf'[h] = fileOf[h]
      BY <2>1, <2>3
    <3> QED
      BY <2>1, <2>3, <3>1, <3>2, <3>3
  <2>5. gpc \in {"find", "mark"} => ghnd \in 1 .. served'
    BY <2>1
  <2>6. gpc = "mark" => fileOf'[ghnd] = fileOf'[gent] /\ ghnd \in 1 .. served' /\ gent \in 1 .. served'
    BY <2>1
  <2> QED
    BY <2>1, <2>2, <2>4, <2>5, <2>6
<1>2. CASE IncLoad
  BY <1>2 DEF IncLoad
<1>3. CASE IncStore
  BY <1>3 DEF IncStore
<1>4. CASE OpenFails
  BY <1>4 DEF OpenFails
<1>5. CASE AddHandle
  <2>1. /\ NoTimer(multi \cup {cur}, running \cup {cur}, done, freed)
        /\ pc = "open" /\ pc' = "mark"
        /\ UNCHANGED <<statics, intake, hnd, ent, reg, guiPc, finished>>
    BY <1>5 DEF AddHandle, multi_timer_cb
  <2>2. cur \notin multi
    BY <2>1 DEF Tracked, Fresh, MultiTracked
  <2>3. Live' = Live \cup {cur}
    BY <2>1 DEF NoTimer
  <2> QED
    BY <2>1, <2>2, <2>3 DEF NoTimer
<1>6. CASE MarkActive
  BY <1>6 DEF MarkActive, EntriesFor, Tracked, Fresh
<1>7. CASE RecordHandle
  BY <1>7 DEF RecordHandle
<1>8. CASE Perform
  <2>1. PICK fin \in SUBSET running : NoTimer(multi, running \ fin, done \cup fin, freed)
    BY <1>8 DEF Perform, multi_timer_cb
  <2>2. /\ pc \in {"start", "perform"} /\ pc' \in {"wait", "drain"}
        /\ UNCHANGED <<statics, intake, hnd, ent, reg, guiPc, outside>>
    BY <1>8, Zenon DEF Perform
  <2>3. Live' = Live
    BY <2>1, <2>2 DEF NoTimer
  <2> QED
    BY <2>1, <2>2, <2>3 DEF NoTimer
<1>9. CASE Wait
  BY <1>9 DEF Wait
<1>10. CASE StreamFails
  BY <1>10 DEF StreamFails
<1>11. CASE DrainEmpty
  BY <1>11 DEF DrainEmpty
<1>12. CASE DrainRead
  BY <1>12 DEF DrainRead, EntriesFor, Tracked, MultiTracked
<1>13. CASE Retire
  <2>1. /\ NoTimer(multi \ {hnd}, running, done, freed \cup {hnd})
        /\ EraseEntries
        /\ pc = "retire" /\ pc' = "dec"
        /\ UNCHANGED <<active_downloads, intake, hnd, ent, reg, guiPc, outside>>
    BY <1>13 DEF Retire, multi_timer_cb
  <2>2. \A e \in isActive' : e \in isActive /\ fileOf[e] # fileOf[hnd]
    BY <2>1 DEF EraseEntries, Tracked, MonitoringUnique, Found
  <2>3. Live = Live' \cup {hnd}
    BY <2>1 DEF NoTimer
  <2>4. ASSUME NEW e \in isActive'
        PROVE  \E h \in Live' :
                  /\ fileOf'[h] = fileOf'[e]
                  /\ gpc' \in StoppingSteps /\ (gpc' = "mark" => e # gent') => h # ghnd'
    BY <2>1, <2>2, <2>3
  <2>5. /\ running' \subseteq multi' /\ done' \subseteq multi' \ running'
        /\ isActive' \subseteq transfer_monitoring'
    BY <2>1 DEF EraseEntries, NoTimer, Tracked, Found
  <2>6. gpc = "mark" => fileOf'[ghnd] = fileOf'[gent] /\ ghnd \in 1 .. served' /\ gent \in 1 .. served'
    BY <2>1
  <2> QED
    BY <2>1, <2>4, <2>5, <2>6
<1>14. CASE DecLoad
  BY <1>14 DEF DecLoad
<1>15. CASE DecStore
  BY <1>15 DEF DecStore, connections
<1>16. CASE StopFind \/ StopMark
  <2>1. CASE StopMark
    BY <2>1 DEF StopMark
  <2>2. CASE StopFind
    <3>1. CASE gpc' = "mark"
      <4>1. /\ ghnd \in 1 .. served /\ gent' \in EntriesFor(fileOf[ghnd])
            /\ UNCHANGED <<statics, libcurl, intake, curlPc, ghnd>>
        BY <2>2, <3>1 DEF StopFind
      <4>2. \A e \in isActive : e # gent' => fileOf[e] # fileOf[ghnd]
        BY <4>1 DEF EntriesFor, Tracked, MonitoringUnique
      <4>3. gent' \in 1 .. served /\ fileOf[ghnd] = fileOf[gent']
        BY <4>1 DEF EntriesFor, Tracked, Made
      <4> QED
        BY <2>2, <3>1, <4>1, <4>2, <4>3
    <3>2. CASE gpc' # "mark"
      BY <2>2, <3>2 DEF StopFind
    <3> QED
      BY <3>1, <3>2
  <2> QED
    BY <1>16, <2>1, <2>2
<1>17. CASE StopDecLoad
  BY <1>17 DEF StopDecLoad
<1>18. CASE StopDecStore
  BY <1>18 DEF StopDecStore
<1>19. CASE StopRemove
  BY <1>19 DEF StopRemove, NoTimer, multi_timer_cb, Tracked, Fresh
<1>20. CASE GuiThread
  <2>1. ASSUME NEW f \in Files, StopLookup(f)
        PROVE  Backed'
    BY <2>1 DEF StopLookup, HandlesFor, Tracked, Made
  <2>2. CASE GoOn
    BY <2>2
  <2> QED
    BY <1>20, <2>1, <2>2 DEF GuiThread
<1>21. CASE UNCHANGED vars
  BY <1>21 DEF vars
<1> QED
  BY <1>1, <1>2, <1>3, <1>4, <1>5, <1>6, <1>7, <1>8, <1>9, <1>10, <1>11,
     <1>12, <1>13, <1>14, <1>15, <1>16, <1>17, <1>18, <1>19, <1>20, <1>21
  DEF Step, CurlThread, NewConn, FileStream, StopStep

\* Backed holds of every behaviour in which libcurl reports no expired timeout.
THEOREM BackedAlways ==
  ASSUME ~TimerReports
  PROVE  Spec => []Backed
<1>1. Tracked /\ Backed /\ [Next]_engineVars => Backed'
  BY BackedNext, NextIsStep
<1> QED
  BY <1>1, BackedInit, TrackedAlways, PTL DEF Spec

\* Unless libcurl reports an expired timeout, an entry marked active always
\* has a live handle of its file: recvNewDl never drops a start request for
\* a destination whose transfer is over.
THEOREM ActiveIsLive ==
  ASSUME ~TimerReports
  PROVE  Spec => []NoPhantomActive
<1>1. Backed => NoPhantomActive
  BY DEF Backed, NoPhantomActive
<1> QED
  BY <1>1, BackedAlways, PTL
-----------------------------------------------------------------------------
\* What libcurl has of a handle: it is transferring, has an unread message or
\* has been freed, one after the other; the handle that fileStream has read
\* the message of is none of these, and neither is one that is yet to be made.
Owned ==
    /\ running \cup done \cup freed \subseteq 1 .. served
    /\ running \cap done = {}
    /\ freed \cap (running \cup done \cup multi) = {}
    /\ pc \in {"inc", "incStore", "open"} => cur \notin running \cup done \cup freed
    /\ pc = "retire" => hnd \notin running \cup done \cup freed

LEMMA OwnedInit == Init => Owned
  BY DEF Init, Owned

\* What a call of libcurl leaves behind, whether or not it reports a timeout:
\* handles only move on, from running to done and from both to freed.
LEMMA CallMovesOn ==
  ASSUME NEW mem, NEW run, NEW msg, NEW gone,
         run \cap msg = {}, gone \cap (run \cup msg \cup mem) = {},
         NoTimer(mem, run, msg, gone) \/ multi_timer_cb(mem, run, msg, gone)
  PROVE  /\ running' \subseteq run
         /\ running' \cap done' = {}
         /\ freed' \cap (running' \cup done' \cup multi') = {}
         /\ running' \cup done' \cup freed' = run \cup msg \cup gone
         /\ gone \subseteq freed'
         /\ multi' \subseteq mem
  BY DEF NoTimer, multi_timer_cb, check_multi_info

LEMMA OwnedNext ==
  ASSUME Tracked, Owned, [Step]_vars
  PROVE  Owned'
<1> USE DEF Owned
<1>0. served \in Nat
  BY DEF Tracked, TypeOK
<1>1. CASE TakeRequest
  BY <1>0, <1>1 DEF TakeRequest
<1>2. CASE AddHandle
  <2>1. /\ pc = "open" /\ pc' = "mark" /\ cur \in 1 .. served
        /\ UNCHANGED <<served, hnd>>
    BY <1>0, <1>2 DEF AddHandle, Tracked, Fresh
  <2>2. \/ NoTimer(multi \cup {cur}, running \cup {cur}, done, freed)
        \/ multi_timer_cb(multi \cup {cur}, running \cup {cur}, done, freed)
    BY <1>2 DEF AddHandle
  <2>3. /\ running' \cap done' = {} /\ freed' \cap (running' \cup done' \cup multi') = {}
        /\ running' \cup done' \cup freed' = running \cup {cur} \cup done \cup freed
    <3>1. (running \cup {cur}) \cap done = {} /\ freed \cap (running \cup {cur} \cup done \cup multi) = {}
      BY <2>1
    <3> QED
      BY <2>2, <3>1, CallMovesOn
  <2> QED
    BY <2>1, <2>3
<1>3. CASE Perform
  <2>1. PICK fin \in SUBSET running :
            \/ NoTimer(multi, running \ fin, done \cup fin, freed)
            \/ multi_timer_cb(multi, running \ fin, done \cup fin, freed)
    BY <1>3 DEF Perform
  <2>2. pc' \in {"wait", "drain"} /\ UNCHANGED <<served, hnd>>
    BY <1>3, Zenon DEF Perform
  <2>3. /\ running' \cap done' = {} /\ freed' \cap (running' \cup done' \cup multi') = {}
        /\ running' \cup done' \cup freed' = running \cup done \cup freed
    <3>1. /\ (running \ fin) \cap (done \cup fin) = {}
          /\ freed \cap ((running \ fin) \cup done \cup fin \cup multi) = {}
      OBVIOUS
    <3> QED
      BY <2>1, <3>1, CallMovesOn
  <2> QED
    BY <2>2, <2>3
<1>4. CASE DrainRead
  <2>1. PICK h \in done : done' = done \ {h} /\ (pc' = "retire" => hnd' = h)
    BY <1>4 DEF DrainRead
  <2>2. pc' \in {"retire", "idle"} /\ UNCHANGED <<served, running, multi, freed>>
    BY <1>4 DEF DrainRead
  <2> QED
    BY <2>1, <2>2
<1>5. CASE Retire
  <2>1. /\ pc = "retire" /\ pc' = "dec" /\ hnd \in 1 .. served
        /\ UNCHANGED <<served, hnd>>
    BY <1>5 DEF Retire, Tracked, Found
  <2>2. \/ NoTimer(multi \ {hnd}, running, done, freed \cup {hnd})
        \/ multi_timer_cb(multi \ {hnd}, running, done, freed \cup {hnd})
    BY <1>5 DEF Retire
  <2>3. /\ running' \cap done' = {} /\ freed' \cap (running' \cup done' \cup multi') = {}
        /\ running' \cup done' \cup freed' = running \cup done \cup freed \cup {hnd}
    <3>1. running \cap done = {} /\ (freed \cup {hnd}) \cap (running \cup done \cup (multi \ {hnd})) = {}
      BY <2>1
    <3> QED
      BY <2>2, <3>1, CallMovesOn
  <2> QED
    BY <2>1, <2>3
<1>6. CASE StopRemove
  <2>1. UNCHANGED <<served, pc, hnd>>
    BY <1>6 DEF StopRemove
  <2>2. \/ NoTimer(multi \ {ghnd}, running \ {ghnd}, done \ {ghnd}, freed)
        \/ multi_timer_cb(multi \ {ghnd}, running \ {ghnd}, done \ {ghnd}, freed)
    BY <1>6 DEF StopRemove
  <2>3. /\ running' \cap done' = {} /\ freed' \cap (running' \cup done' \cup multi') = {}
        /\ running' \cup done' \cup freed' \subseteq running \cup done \cup freed
    <3>1. /\ (running \ {ghnd}) \cap (done \ {ghnd}) = {}
          /\ freed \cap ((running \ {ghnd}) \cup (done \ {ghnd}) \cup (multi \ {ghnd})) = {}
      OBVIOUS
    <3> QED
      BY <2>2, <3>1, CallMovesOn
  <2> QED
    BY <2>1, <2>3
<1>7. CASE IncLoad \/ IncStore \/ OpenFails \/ MarkActive \/ RecordHandle
             \/ Wait \/ StreamFails \/ DrainEmpty \/ DecLoad \/ DecStore
  BY <1>7 DEF IncLoad, IncStore, OpenFails, MarkActive, RecordHandle,
              Wait, StreamFails, DrainEmpty, DecLoad, DecStore
<1>8. CASE StopFind \/ StopMark \/ StopDecLoad \/ StopDecStore
  BY <1>8 DEF StopFind, StopMark, StopDecLoad, StopDecStore
<1>9. CASE GuiThread
  BY <1>9 DEF GuiThread, StopLookup
<1>10. CASE UNCHANGED vars
  BY <1>10 DEF vars
<1> QED
  BY <1>1, <1>2, <1>3, <1>4, <1>5, <1>6, <1>7, <1>8, <1>9, <1>10
  DEF Step, CurlThread, NewConn, FileStream, StopStep

\* Every behaviour of the engine satisfies Owned.
THEOREM OwnedAlways == Spec => []Owned
<1>1. Tracked /\ Owned /\ [Next]_engineVars => Owned'
  BY OwnedNext, NextIsStep
<1> QED
  BY <1>1, OwnedInit, TrackedAlways, PTL DEF Spec

\* Neither libcurl nor fileStream has a handle that was freed, whichever
\* thread is in libcurl when it calls check_multi_info, and whatever
\* fileStream holds meanwhile: until the first step, if there is one, in which
\* a stop or a search uses freed memory.
THEOREM FreesOnce == Spec => []FreedOnce
<1>1. Owned => FreedOnce
  BY DEF Owned, FreedOnce
<1> QED
  BY <1>1, OwnedAlways, PTL

\* Without expired timeouts it is fileStream that frees, and it erases the
\* entry of eh_vec with the handle.
Erased ==
    /\ freed \cap eh_vec = {}
    /\ pc \in Opening => cur \notin freed
    /\ undefined => StopUsesFreed

LEMMA ErasedNext ==
  ASSUME ~TimerReports, Tracked, Owned, Erased, [Next]_engineVars
  PROVE  Erased'
<1> USE DEF Erased
<1>0. served \in Nat /\ freed \subseteq 1 .. served
  BY DEF Tracked, TypeOK, Owned
<1>1. CASE Lapse
  BY <1>1 DEF Lapse, TimerThrows, SearchUsesFreed, StopUsesFreed, vars, statics,
              libcurl, curlPc, guiPc, intake
<1>2. CASE UNCHANGED engineVars
  BY <1>2 DEF engineVars, vars, StopUsesFreed
<1>3. CASE Step /\ Going
  <2>1. ~undefined' /\ ~undefined
    BY <1>3 DEF Going
  <2>2. CASE TakeRequest
    BY <1>0, <2>1, <2>2 DEF TakeRequest
  <2>3. CASE AddHandle \/ Perform \/ StopRemove
    <3>1. freed' = freed /\ UNCHANGED <<eh_vec, served>>
      BY <2>3 DEF AddHandle, Perform, StopRemove, NoTimer, multi_timer_cb
    <3>2. pc' \in Opening => pc \in Opening
      BY <2>3, Zenon DEF AddHandle, Perform, StopRemove
    <3> QED
      BY <2>1, <3>1, <3>2
  <2>4. CASE RecordHandle
    BY <2>1, <2>4 DEF RecordHandle
  <2>5. CASE Retire
    BY <2>1, <2>5 DEF Retire, NoTimer, multi_timer_cb, EraseEntries
  <2>6. CASE IncLoad \/ IncStore \/ OpenFails \/ MarkActive \/ Wait \/ StreamFails
               \/ DrainEmpty \/ DrainRead \/ DecLoad \/ DecStore
    BY <2>1, <2>6 DEF IncLoad, IncStore, OpenFails, MarkActive, Wait, StreamFails,
                      DrainEmpty, DrainRead, DecLoad, DecStore
  <2>7. CASE StopFind \/ StopMark \/ StopDecLoad \/ StopDecStore
    BY <2>1, <2>7 DEF StopFind, StopMark, StopDecLoad, StopDecStore
  <2>8. CASE GuiThread
    BY <2>1, <2>8 DEF GuiThread, StopLookup
  <2> QED
    BY <1>3, <2>2, <2>3, <2>4, <2>5, <2>6, <2>7, <2>8
    DEF Step, CurlThread, NewConn, FileStream, StopStep
<1> QED
  BY <1>1, <1>2, <1>3 DEF Next, Lapsed

\* Unless libcurl reports an expired timeout, no search and no list of libcurl
\* leads to a freed handle: the one use of freed memory that is left is that
\* of a stop which found its handle before fileStream freed it.
THEOREM FreedUnreachable ==
  ASSUME ~TimerReports
  PROVE  Spec => []FreedOutOfReach
<1>1. Init => Erased
  BY DEF Init, Erased
<1>2. Tracked /\ Owned /\ Erased /\ [Next]_engineVars => Erased'
  BY ErasedNext
<1>3. Owned /\ Erased => FreedOutOfReach
  BY DEF Owned, Erased, FreedOutOfReach, Live, StopUsesFreed
<1> QED
  BY <1>1, <1>2, <1>3, OwnedAlways, TrackedAlways, PTL DEF Spec
-----------------------------------------------------------------------------
\* FinishedRetired, with what it needs of the handles that are to come and of
\* the one that fileStream is about to announce.
Announced ==
    /\ \A i \in DOMAIN finished : finished[i] \in 1 .. served
    /\ FinishedRetired
    /\ pc \in Opening => \A i \in DOMAIN finished : finished[i] # cur
    /\ pc \in Retiring => \A i \in DOMAIN finished : finished[i] # hnd
    /\ pc \in {"dec", "decStore"} => hnd \notin multi \cup eh_vec

LEMMA AnnouncedInit == Init => Announced
  BY DEF Init, Announced, FinishedRetired

\* A step that announces nothing and takes no handle back keeps what the
\* announcements say.
LEMMA AnnouncedKept ==
  ASSUME Announced, UNCHANGED <<finished, served, hnd>>,
         multi' \subseteq multi, eh_vec' \subseteq eh_vec,
         pc' \in Opening => pc \in Opening,
         pc' \in Retiring => pc \in Retiring,
         pc' \in {"dec", "decStore"} /\ pc \notin {"dec", "decStore"} =>
             hnd \notin multi' \cup eh_vec'
  PROVE  Announced'
  BY DEF Announced, FinishedRetired

LEMMA AnnouncedNext ==
  ASSUME Tracked, Announced, [Step]_vars
  PROVE  Announced'
<1>0. /\ served \in Nat /\ hnd \in Int /\ finished \in Seq(Ids)
      /\ pc \in {"idle", "inc", "incStore", "open", "mark", "record", "start",
                 "wait", "perform", "drain", "retire", "dec", "decStore"}
  BY DEF Tracked, TypeOK
<1>1. CASE TakeRequest
  <2>1. /\ served' = served + 1 /\ pc = "idle" /\ pc' \in {"inc", "idle"}
        /\ UNCHANGED <<multi, eh_vec, finished, hnd>>
    BY <1>1 DEF TakeRequest
  <2>2. FinishedRetired'
    BY <2>1 DEF Announced, FinishedRetired
  <2> QED
    BY <1>0, <2>1, <2>2 DEF Announced
<1>2. CASE AddHandle
  <2>1. /\ pc = "open" /\ pc' = "mark" /\ multi' \subseteq multi \cup {cur}
        /\ UNCHANGED <<eh_vec, finished, served, hnd>>
    BY <1>2 DEF AddHandle, NoTimer, multi_timer_cb, check_multi_info
  <2> QED
    BY <2>1 DEF Announced, FinishedRetired
<1>3. CASE RecordHandle
  <2>1. /\ pc = "record" /\ pc' = "start" /\ eh_vec' = eh_vec \cup {cur}
        /\ UNCHANGED <<multi, finished, served, hnd>>
    BY <1>3 DEF RecordHandle
  <2> QED
    BY <2>1 DEF Announced, FinishedRetired
<1>4. CASE DrainRead
  <2>1. /\ pc' = "retire" => hnd' \in eh_vec
        /\ pc' \in {"retire", "idle"}
        /\ UNCHANGED <<multi, eh_vec, finished, served>>
    BY <1>4 DEF DrainRead
  <2> QED
    BY <2>1 DEF Announced, FinishedRetired
<1>5. CASE Retire
  <2>1. /\ pc = "retire" /\ pc' = "dec"
        /\ multi' \subseteq multi \ {hnd} /\ eh_vec' = eh_vec \ {hnd}
        /\ UNCHANGED <<finished, served, hnd>>
    BY <1>5 DEF Retire, EraseEntries, NoTimer, multi_timer_cb, check_multi_info
  <2> QED
    BY <2>1, AnnouncedKept
<1>6. CASE DecStore
  <2> DEFINE calls == [i \in 1 .. connections |-> hnd]
             n == Len(finished)
  <2>1. /\ pc = "decStore" /\ pc' = "idle" /\ finished' = finished \o calls
        /\ UNCHANGED <<multi, eh_vec, served, hnd>>
    BY <1>6 DEF DecStore
  <2>2. connections \in Nat /\ n \in Nat /\ hnd \in 1 .. served
    BY <2>1 DEF Tracked, TypeOK, Found, connections
  <2>3. hnd \in Ids
    BY <2>2 DEF Tracked, TypeOK
  <2>4. calls \in Seq(Ids) /\ Len(calls) = connections
    BY <2>2, <2>3
  <2> HIDE DEF calls
  <2>5. /\ DOMAIN finished' = 1 .. n + connections
        /\ \A i \in 1 .. n : finished'[i] = finished[i]
        /\ \A i \in n + 1 .. n + connections : finished'[i] = hnd
    <3>1. Len(finished') = n + connections
      BY <1>0, <2>1, <2>4, ConcatProperties
    <3>2. \A i \in 1 .. n : finished'[i] = finished[i]
      BY <1>0, <2>1, <2>4
    <3>3. \A i \in n + 1 .. n + connections : finished'[i] = calls[i - n]
      BY <1>0, <2>1, <2>2, <2>4
    <3>4. \A i \in n + 1 .. n + connections : calls[i - n] = hnd
      BY <2>2 DEF calls
    <3>5. DOMAIN finished' = 1 .. Len(finished')
      BY <1>0, <2>1, <2>4
    <3> QED
      BY <3>1, <3>2, <3>3, <3>4, <3>5
  <2>6. DOMAIN finished = 1 .. n
    BY <1>0
  <2>7. \A i \in 1 .. n : finished[i] # hnd /\ finished[i] \in 1 .. served
    BY <2>1, <2>6 DEF Announced
  <2>8. \A i \in DOMAIN finished' : finished'[i] \notin multi \cup eh_vec
    BY <2>1, <2>2, <2>5, <2>6 DEF Announced, FinishedRetired
  <2>9. ASSUME NEW i \in DOMAIN finished', NEW j \in DOMAIN finished',
               finished'[i] = finished'[j], NEW k \in i .. j
        PROVE  finished'[k] = finished'[i]
    <3>1. \/ i \in 1 .. n /\ j \in 1 .. n
          \/ i \in n + 1 .. n + connections /\ j \in n + 1 .. n + connections
      <4>1. /\ i \in 1 .. n \/ i \in n + 1 .. n + connections
            /\ j \in 1 .. n \/ j \in n + 1 .. n + connections
        BY <2>2, <2>5
      <4>2. ~(i \in 1 .. n /\ j \in n + 1 .. n + connections)
        BY <2>5, <2>7, <2>9
      <4>3. ~(j \in 1 .. n /\ i \in n + 1 .. n + connections)
        BY <2>5, <2>7, <2>9
      <4> QED
        BY <4>1, <4>2, <4>3
    <3>2. CASE i \in 1 .. n /\ j \in 1 .. n
      <4>1. k \in 1 .. n /\ finished[i] = finished[j]
        BY <2>2, <2>5, <2>9, <3>2
      <4> QED
        BY <2>5, <2>6, <2>9, <3>2, <4>1 DEF Announced, FinishedRetired
    <3>3. CASE i \in n + 1 .. n + connections /\ j \in n + 1 .. n + connections
      BY <2>2, <2>5, <2>9, <3>3
    <3> QED
      BY <3>1, <3>2, <3>3
  <2>10. FinishedRetired'
    BY <2>1, <2>8, <2>9 DEF FinishedRetired
  <2>11. \A i \in DOMAIN finished' : finished'[i] \in 1 .. served
    BY <2>2, <2>5, <2>7
  <2> QED
    BY <2>1, <2>10, <2>11 DEF Announced
<1>7. CASE Perform
  <2>1. /\ pc' \in {"wait", "drain"} /\ multi' \subseteq multi
        /\ UNCHANGED <<eh_vec, finished, served, hnd>>
    <3>1. pc' \in {"wait", "drain"} /\ UNCHANGED <<eh_vec, finished, served, hnd>>
      BY <1>7, Zenon DEF Perform
    <3>2. multi' \subseteq multi
      BY <1>7 DEF Perform, NoTimer, multi_timer_cb, check_multi_info
    <3> QED
      BY <3>1, <3>2
  <2> QED
    BY <2>1, AnnouncedKept
<1>8. CASE StopRemove
  <2>1. /\ multi' \subseteq multi /\ UNCHANGED <<eh_vec, finished, served, hnd, pc>>
    BY <1>8 DEF StopRemove, NoTimer, multi_timer_cb, check_multi_info
  <2> QED
    BY <2>1, AnnouncedKept
<1>9. CASE IncLoad \/ IncStore \/ OpenFails \/ MarkActive
             \/ Wait \/ StreamFails \/ DrainEmpty \/ DecLoad
  <2>1. /\ UNCHANGED <<multi, eh_vec, finished, served, hnd>>
        /\ pc' \in Opening => pc \in Opening
        /\ pc' \in Retiring => pc \in {"dec", "decStore"}
    BY <1>9 DEF IncLoad, IncStore, OpenFails, MarkActive,
                Wait, StreamFails, DrainEmpty, DecLoad
  <2> QED
    BY <2>1, AnnouncedKept
<1>10. CASE StopFind \/ StopMark \/ StopDecLoad \/ StopDecStore
  <2>1. UNCHANGED <<multi, eh_vec, finished, served, hnd, pc>>
    BY <1>10 DEF StopFind, StopMark, StopDecLoad, StopDecStore
  <2> QED
    BY <2>1, AnnouncedKept
<1>11. CASE GuiThread
  <2>1. UNCHANGED <<multi, eh_vec, served, hnd, pc>>
    BY <1>11 DEF GuiThread, StopLookup
  <2>2. CASE UNCHANGED finished
    BY <2>1, <2>2, AnnouncedKept
  <2>3. CASE TakeFinished
    <3>1. /\ DOMAIN finished' \subseteq Nat
          /\ \A i \in DOMAIN finished' : i + 1 \in DOMAIN finished
                                         /\ finished'[i] = finished[i + 1]
      BY <1>0, <2>3 DEF TakeFinished
    <3>2. ASSUME NEW i \in DOMAIN finished', NEW j \in DOMAIN finished',
                 finished'[i] = finished'[j], NEW k \in i .. j
          PROVE  finished'[k] = finished'[i]
      <4>1. k \in DOMAIN finished'
        BY <1>0, <2>3, <3>2 DEF TakeFinished
      <4>2. k + 1 \in i + 1 .. j + 1
        BY <3>1, <3>2
      <4>3. finished[k + 1] = finished[i + 1]
        BY <3>1, <3>2, <4>2 DEF Announced, FinishedRetired
      <4> QED
        BY <3>1, <3>2, <4>1, <4>3
    <3>3. FinishedRetired'
      BY <2>1, <3>1, <3>2 DEF Announced, FinishedRetired
    <3> QED
      BY <2>1, <3>1, <3>3 DEF Announced
  <2> QED
    BY <1>11, <2>2, <2>3 DEF GuiThread, StopLookup
<1>12. CASE UNCHANGED vars
  <2>1. UNCHANGED <<multi, eh_vec, finished, served, hnd, pc>>
    BY <1>12 DEF vars
  <2> QED
    BY <2>1, AnnouncedKept
<1> QED
  BY <1>1, <1>2, <1>3, <1>4, <1>5, <1>6, <1>7, <1>8, <1>9, <1>10, <1>11, <1>12
  DEF Step, CurlThread, NewConn, FileStream, StopStep

\* Every behaviour of the engine satisfies Announced.
THEOREM AnnouncedAlways == Spec => []Announced
<1>1. Tracked /\ Announced /\ [Next]_engineVars => Announced'
  BY AnnouncedNext, NextIsStep
<1> QED
  BY <1>1, AnnouncedInit, TrackedAlways, PTL DEF Spec

\* A finish signal is about a handle that no map and no multi handle holds any
\* more, and is sent once, however stops and timeouts interleave with
\* fileStream.
THEOREM FinishesRetired == Spec => []FinishedRetired
<1>1. Announced => FinishedRetired
  BY DEF Announced
<1> QED
  BY <1>1, AnnouncedAlways, PTL
=============================================================================
