----------------------------- MODULE LevelCache -----------------------------
(***************************************************************************)
(* The cache of open tables (util/cache.cc, as db/table_cache.cc uses it): *)
(* a hash table from keys to entries, the list of entries by their last    *)
(* use, and counts of references.  Each operation is one step under the    *)
(* shard's mutex; every entry is charged 1, and one shard is modelled.     *)
(***************************************************************************)
EXTENDS Integers, FiniteSets, Sequences, SequencesExt, TLC

CONSTANTS
    Capacity,       \* entries a shard may use
    MaxOpen         \* bound on the entries in memory at once
ASSUME CacheAssumption == Capacity \in Nat /\ MaxOpen \in Nat

Handles == 1 .. MaxOpen

\* A handle is the memory of an entry: free at zero references, then used again.
NewLRUCache == [table |-> <<>>,                      \* HandleTable: key -> handle
                lru |-> <<>>,                        \* oldest first
                refs |-> [h \in Handles |-> 0],
                key |-> [h \in Handles |-> 0]]

InUse(c) == {h \in Handles : c.refs[h] > 0}
Usage(c) == Cardinality(InUse(c))
Listed(c) == {c.table[k] : k \in DOMAIN c.table}

Without(table, k) == [j \in DOMAIN table \ {k} |-> table[j]]

\* The last reference closes the table and frees the entry.
Unref(c, h) ==
    [c EXCEPT !.refs[h] = @ - 1, !.key[h] = IF c.refs[h] = 1 THEN 0 ELSE @]

Release(c, h) == Unref(c, h)

Found(c, k) == k \in DOMAIN c.table

Lookup(c, k) ==
    LET h == c.table[k]
    IN  [c EXCEPT !.refs[h] = @ + 1, !.lru = Append(Remove(@, h), h)]

\* Out of the table and the list, and one reference less
Drop(c, k) ==
    LET h == c.table[k]
    IN  Unref([c EXCEPT !.table = Without(@, k), !.lru = Remove(@, h)], h)

Erase(c, k) == IF Found(c, k) THEN Drop(c, k) ELSE c

\* The memory malloc returns for a new entry
Fresh(c) == CHOOSE h \in Handles : h \notin InUse(c) /\ \A g \in Handles \ InUse(c) : h <= g

\* The oldest go, the newest too, while the entries in use, listed or not, are
\* more than the capacity.
EvictOldest(c) ==
    LET Evicted[n \in 0 .. MaxOpen] ==
            LET d == Evicted[n - 1] IN
            IF n = 0 THEN c
            ELSE IF Usage(d) > Capacity /\ d.lru # <<>> THEN Drop(d, d.key[d.lru[1]])
                 ELSE d
    IN  Evicted[MaxOpen]

\* A new entry, which displaces one of the same key
Add(c, k, refs) ==
    LET h == Fresh(c)
    IN  [Erase(c, k) EXCEPT !.table = @ @@ (k :> h), !.lru = Append(@, h),
                            !.refs[h] = refs, !.key[h] = k]

\* mutant: the caller's handle is not counted
InsertUnheld(c, k) == EvictOldest(Add(c, k, 1))

\* One reference for the cache and one for the caller
Insert(c, k) == EvictOldest(Add(c, k, 2))
============================================================================
