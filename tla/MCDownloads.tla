---------------------------- MODULE MCDownloads ----------------------------
(* Downloads with interchangeable files. *)
EXTENDS Downloads, TLC

FileSymmetry == Permutations(Files)
=============================================================================
