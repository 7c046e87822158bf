------------------------------ MODULE MCFastCsv ------------------------------
(* Lists for FastCsv: with one to three columns in several orders, rows that *)
(* fit them or not, empty and long ones, blanks, and both kinds of newline.  *)
EXTENDS FastCsv

MCHeads == {<<>>, <<"u", "\n">>, <<"d", ",", "u", "\r", "\n">>, <<"d", "\n">>, <<"u", ",", "x", "\n">>,
            <<"u", ",", "u", "\n">>, <<"EF", "BB", "BF", "u", "\n">>, <<"u", ",", "d", "\n">>}
MCLines == {<<"\n">>, <<"x", "\n">>, <<"y", " ", "\r", "\n">>, <<"x", ",", "y", "\n">>,
            <<"x", "x", "x", "x", "x", "\n">>}
=============================================================================
