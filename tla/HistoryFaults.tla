---------------------------- MODULE HistoryFaults ----------------------------
(***************************************************************************)
(* HistoryDb with faults, and what it keeps until the first of them.       *)
(***************************************************************************)
EXTENDS HistoryDb, TLC

VARIABLE clean \* no crash, failed read or write, or vanished file so far

\* The program as it runs when nothing goes wrong.
Calm == INSTANCE HistoryDb WITH
            Crashes <- FALSE, WriteFails <- FALSE, ReadFails <- FALSE,
            FilesVanish <- FALSE

faultVars == <<index, lost, of, keys, stat, row, op, up, clean>>

FaultInit == Init /\ clean = TRUE
FaultNext == Next /\ clean' = (clean /\ Calm!Next)
FaultSpec == FaultInit /\ [][FaultNext]_faultVars

FileSymmetry == Permutations(Files)
-----------------------------------------------------------------------------
\* Until the first fault the database keeps the promise of History across
\* sessions: every saved item comes back with its status, a transfer under
\* way comes back paused, a removed item does not come back, and none of it
\* depends on the torrents that share the index.
KeepsHistory ==
    /\ H!HistInit
    /\ [][clean' => \/ H!HistNext
                    \/ UNCHANGED <<[f \in Files |-> HistItem(f)], HistSaved, up>>]_faultVars
=============================================================================
