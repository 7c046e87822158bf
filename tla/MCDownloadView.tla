---------------------------- MODULE MCDownloadView ----------------------------
(* The user gives one name, with the checksum of its file.  Two lists:         *)
(* mirrors of the same file, the first of which does not answer, for the       *)
(* dialog's folder; and one with a column of destinations and the folder.      *)
EXTENDS DownloadView, TLC

MCChosen == [a |-> [type |-> "SHA-256", given |-> Checksum("SHA256", "a")]]

Line(found, name, dest, sum) ==
    [found |-> found, name |-> name, dest |-> dest, sum |-> sum]

MCLists == {
    [lines |-> <<Line(FALSE, "a", "a", NoSum), Line(TRUE, "a", "a", Checksum("MD5", "a"))>>,
     dest |-> FALSE, dir |-> TRUE],
    [lines |-> <<Line(TRUE, "a", "b", NoSum), Line(FALSE, "b", "b", NoSum)>>,
     dest |-> TRUE, dir |-> TRUE]}
=============================================================================
