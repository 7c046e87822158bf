------------------------------ MODULE MCTorrents ------------------------------
(* Identifiers, paths and torrents.  A path is what stands between its      *)
(* commas: plain, with a number behind one, that reads as a torrent's type, *)
(* or with two commas in a row.  Of the torrents one has two files and two  *)
(* trackers, one a comma in its own path and no tracker, one a comma in the *)
(* path of its file, and one a tracker without address.                     *)
EXTENDS Torrents

Three == <<"a", "b", "c">>
Plains  == {<<"p">>}
Commas == {<<"t", "1", "u">>, <<"g", "", "b">>}
PlainOrComma == Plains \cup Commas
Torrent == {<<"m">>, <<"n", "1">>, <<"c">>, <<"x">>}

File(p, sha1, n) == [path |-> p, sha1 |-> sha1, pieces |-> <<ToString(n), ToString(n + 1)>>]
Info(files, trackers) == [files |-> files, trackers |-> trackers, decodes |-> TRUE]

MCMetainfo ==
    <<"m">> :> Info(<<File(<<"s/x.e">>, <<"h">>, 0), File(<<"s/d.i/y.e">>, <<"h">>, 1)>>, <<"u", "w">>)
    @@ <<"n", "1">> :> Info(<<File(<<"s/z.e">>, <<"h">>, 0)>>, <<>>)
    @@ <<"c">> :> Info(<<File(<<"s/c", "d.e">>, <<"h">>, 0)>>, <<"u">>)
    @@ <<"x">> :> Info(<<File(<<"s/z.e">>, <<"h">>, 0)>>, <<"u", "">>)

MCComponents ==
    "s/x.e" :> <<"s", "x.e">> @@ "s/d.i/y.e" :> <<"s", "d.i", "y.e">>
    @@ "s/z.e" :> <<"s", "z.e">>

MCExtended == {"x.e", "d.i", "y.e", "z.e"}
=============================================================================
