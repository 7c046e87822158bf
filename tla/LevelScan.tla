----------------------------- MODULE LevelScan -----------------------------
(***************************************************************************)
(* What an iterator over the vendored LevelDB promises: a walk, in either  *)
(* direction and with turns, over the keys that were there when it was     *)
(* made, each with the value it had then.                                  *)
(***************************************************************************)
EXTENDS Integers, FiniteSetsExt

VARIABLES
    view,     \* the pairs <<key, value>> the iterator is to show
    at        \* {}, or the pair it stands at

\* The pairs of the smallest and of the largest key among some
FirstOf(ps) == {p \in ps : \A q \in ps : p[1] <= q[1]}
LastOf(ps) == {p \in ps : \A q \in ps : q[1] <= p[1]}

Init == at = {}

SeekToFirst == at' = FirstOf(view)
SeekToLast == at' = LastOf(view)
Seek(k) == at' = FirstOf({p \in view : p[1] >= k})
Next == \E p \in at : at' = FirstOf({q \in view : q[1] > p[1]})
Prev == \E p \in at : at' = LastOf({q \in view : q[1] < p[1]})

Step(targets) ==
    /\ view' = view
    /\ \/ SeekToFirst \/ SeekToLast
       \/ \E k \in targets : Seek(k)
       \/ Next \/ Prev
============================================================================
