---------------------------- MODULE LevelPromise ----------------------------
(***************************************************************************)
(* What LevelDB promises about the writes of its clients                   *)
(* (include/leveldb/db.h, options.h): a write that returned OK survives    *)
(* the end of the process, and one that asked for a sync survives the      *)
(* machine; nothing is in the database that nobody wrote.  The promise has *)
(* an exception, which the headers do not name: a call of the file system  *)
(* that fails on a log leaves what that log holds to chance, though the    *)
(* writes returned OK.                                                     *)
(***************************************************************************)
EXTENDS Naturals

VARIABLES
    begun,    \* batches are numbered; this many have been handed to Write
    stored,   \* batches that a reader finds, now or when the database is opened
    told,     \* batches whose Write returned OK, but for those a loss of power took
    synced,   \* those of them written with WriteOptions::sync
    doubtful, \* batches that a failed call has left to chance
    ends,     \* times that the process or the machine came to an end
    faults    \* calls of the file system that failed

vars == <<begun, stored, told, synced, doubtful, ends, faults>>

Init == /\ begun = 0 /\ stored = {} /\ told = {} /\ synced = {} /\ doubtful = {}
        /\ ends = 0 /\ faults = 0

\* A client calls Write.
Begin ==
    /\ begun' = begun + 1
    /\ UNCHANGED <<stored, told, synced, doubtful, ends, faults>>

\* A group of batches becomes visible, and all its clients are told OK.
Take ==
    LET new == stored' \ stored
    IN /\ stored \subseteq stored' /\ stored' \subseteq 1 .. begun
       /\ told' = told \cup new
       /\ synced \subseteq synced' /\ synced' \ synced \subseteq new
       /\ doubtful' = doubtful \/ (faults > 0 /\ doubtful' = doubtful \cup new)
       /\ UNCHANGED <<begun, ends, faults>>

\* A call of the file system fails.
Fail ==
    /\ faults' = faults + 1
    /\ doubtful \subseteq doubtful' /\ doubtful' \subseteq doubtful \cup stored
    /\ UNCHANGED <<begun, stored, told, synced, ends>>

\* What was in doubt has become a table.
Settle ==
    /\ doubtful' \subseteq doubtful
    /\ UNCHANGED <<begun, stored, told, synced, ends, faults>>

\* The database has been opened: what is there from then on is in tables, and
\* only what was in doubt may be gone.
Reopen ==
    /\ stored \ doubtful \subseteq stored' /\ stored' \subseteq stored
    /\ doubtful' = doubtful \ stored'
    /\ UNCHANGED <<begun, told, synced, ends, faults>>

\* The process ends.  A batch that was still being written, or whose Write
\* failed, or that is in doubt, may be there afterwards or not.
Restart ==
    /\ told \ doubtful \subseteq stored' /\ stored' \subseteq 1 .. begun
    /\ ends' = ends + 1
    /\ UNCHANGED <<begun, told, synced, doubtful, faults>>

\* The machine stops: only what was synced is still promised.
PowerLoss ==
    /\ synced \ doubtful \subseteq stored' /\ stored' \subseteq 1 .. begun
    /\ told' = synced
    /\ ends' = ends + 1
    /\ UNCHANGED <<begun, synced, doubtful, faults>>

Next == Begin \/ Take \/ Fail \/ Settle \/ Reopen \/ Restart \/ PowerLoss

Spec == Init /\ [][Next]_vars
=============================================================================
