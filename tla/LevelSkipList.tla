--------------------------- MODULE LevelSkipList ---------------------------
(***************************************************************************)
(* The skip list of a memory table (db/skiplist.h): one writer at a time   *)
(* adds nodes, readers walk it without a lock.  What one of them does      *)
(* between two accesses to memory the other may see is one operator here.  *)
(***************************************************************************)
EXTENDS Integers, TLC

CONSTANT kMaxHeight
ASSUME HeightAssumption == kMaxHeight \in Nat \ {0}

\* A node is the place of its key in the order of keys, which starts at 1.
HeadNode == 0
Null == -1
Unset == -2       \* memory the arena hands out and nobody has written yet
Infinity == 1000000

Levels == 0 .. kMaxHeight - 1

NewList == [max_height |-> 1, next |-> (HeadNode :> [l \in Levels |-> Null])]

\* compare_(n->key, key) < 0, and there is a node
KeyIsAfterNode(key, n) == n # Null /\ n < key

----------------------------------------------------------------------------
(* Walks.  FindGreaterOrEqual, FindLessThan and FindLast go the same way,  *)
(* right while the next node is before the target and down otherwise;      *)
(* FindLast has no target, and only the first returns the node after.      *)

StartWalk(target, height) == [x |-> HeadNode, level |-> height - 1, target |-> target]

Follow(list, w) == list.next[w.x][w.level]

EndsAfter(list, w) == w.level = 0 /\ ~KeyIsAfterNode(w.target, Follow(list, w))

Walk(list, w) ==
    IF KeyIsAfterNode(w.target, Follow(list, w))
    THEN [w EXCEPT !.x = Follow(list, w)]
    ELSE [w EXCEPT !.level = @ - 1]

\* FindLessThan and FindLast return the head for "none": Prev and SeekToLast
NodeOf(x) == IF x = HeadNode THEN Null ELSE x

----------------------------------------------------------------------------
(* Insertion.                                                              *)

\* The nodes after which a key belongs, level by level, as the writer finds
\* them: FindGreaterOrEqual with prev, and the head above the list's height
Prevs(list, key) ==
    LET Down[x \in DOMAIN list.next, l \in Levels] ==
            LET n == list.next[x][l] IN
            IF KeyIsAfterNode(key, n) THEN Down[n, l]
            ELSE (l :> x) @@ (IF l = 0 THEN <<>> ELSE Down[x, l - 1])
    IN  Down[HeadNode, list.max_height - 1] @@ [l \in Levels |-> HeadNode]

\* Insert, up to the first pointer: the height is stored before any node has it
Grow(list, x, height) ==
    [max_height |-> IF height > list.max_height THEN height ELSE list.max_height,
     next |-> list.next @@ (x :> [l \in 0 .. height - 1 |-> Unset])]

\* mutant: a node is always put at the end
LinkLast(list, x, prev, l) ==
    [list EXCEPT !.next = [@ EXCEPT ![x][l] = Null, ![prev[l]][l] = x]]

\* One turn of Insert's loop: the node's own pointer first, then the one to it
Link(list, x, prev, l) ==
    [list EXCEPT !.next = [@ EXCEPT ![x][l] = list.next[prev[l]][l],
                                    ![prev[l]][l] = x]]
============================================================================
