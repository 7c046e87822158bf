---------------------------- MODULE MCLevelTables ----------------------------
(* The smaller key comes first, and each of the two at least twice. *)
EXTENDS LevelTables

MCOrders ==
    {o \in [1 .. MaxWrites -> Keys] :
        o[1] = 1 /\ \A k \in Keys : Cardinality({i \in DOMAIN o : o[i] = k}) > 1}
=============================================================================
