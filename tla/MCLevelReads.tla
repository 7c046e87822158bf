---------------------------- MODULE MCLevelReads ----------------------------
(* The second write comes before the first one's node, the third between both. *)
EXTENDS LevelReads

MCOrders == {<<2, 1, 2>>}
=============================================================================
