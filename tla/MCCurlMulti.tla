---------------------------- MODULE MCCurlMulti ----------------------------
(* CurlMulti with the two files as interchangeable model values. *)
EXTENDS CurlMulti, TLC

FileSymmetry == Permutations(Files)
=============================================================================
