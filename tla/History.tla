------------------------------- MODULE History -------------------------------
(***************************************************************************)
(* What the download history promises: an item that the user has added     *)
(* and the program has saved is there again in the next session with the   *)
(* status it had, a transfer that was under way being paused, until it is  *)
(* removed.  HistoryDb shows how the LevelDB database does it.             *)
(***************************************************************************)
CONSTANT Files   \* destinations of HTTP(S)/FTP(S) downloads

VARIABLES
    item,  \* the status of each file's item, as commands read it
    saved, \* the files whose item outlives the session
    up     \* whether a session is under way

\* "none" is no item.  A New item shows as Stopped, and as Unknown once the
\* session in which it was added is over.
Statuses ==
    {"none", "New", "Unknown", "Downloading", "Paused", "Stopped", "Completed"}

HistInit ==
    /\ item = [f \in Files |-> "none"]
    /\ saved = {}
    /\ up = FALSE

Add(f) ==
    /\ up
    /\ item[f] = "none"
    /\ \/ item' = [item EXCEPT ![f] = "New"] /\ saved' = saved \cup {f}
       \/ /\ \E s \in {"Stopped", "Unknown"} : item' = [item EXCEPT ![f] = s]
          /\ UNCHANGED saved
    /\ UNCHANGED up

Change(f) ==
    /\ up
    /\ item[f] # "none"
    /\ \E s \in {"Downloading", "Paused", "Stopped", "Completed"} :
          item' = [item EXCEPT ![f] = s]
    /\ UNCHANGED <<saved, up>>

Remove(f) ==
    /\ up
    /\ item[f] # "none"
    /\ item' = [item EXCEPT ![f] = "none"]
    /\ saved' = saved \ {f}
    /\ UNCHANGED up

EndSession ==
    /\ up
    /\ up' = FALSE
    /\ item' = [f \in Files |->
                  IF f \notin saved THEN "none"
                  ELSE IF item[f] = "New" THEN "Unknown" ELSE item[f]]
    /\ UNCHANGED saved

StartSession ==
    /\ ~up
    /\ up' = TRUE
    /\ item' = [f \in Files |->
                  IF item[f] = "Downloading" THEN "Paused" ELSE item[f]]
    /\ UNCHANGED saved

HistNext ==
    \/ \E f \in Files : Add(f) \/ Change(f) \/ Remove(f)
    \/ EndSession
    \/ StartSession

HistSpec == HistInit /\ [][HistNext]_<<item, saved, up>>
=============================================================================
