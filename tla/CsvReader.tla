------------------------------ MODULE CsvReader ------------------------------
(***************************************************************************)
(* GkCsvReader (csv.hpp, csv.cpp), the reader of everything that FyreDL    *)
(* keeps as comma-separated values.  A text is a sequence of lines, a line *)
(* the sequence of its values, that is, of what stands between its commas. *)
(*                                                                         *)
(* The reader does not look a row up: each call of read_row takes values   *)
(* in turn from whatever columns it has not marked as processed, one level *)
(* of recursion for each argument, and static counters decide what it      *)
(* returns.                                                                *)
(***************************************************************************)
EXTENDS Naturals, Sequences, SequencesExt, FiniteSetsExt

\* std::getline(.., ',') yields no last value after a trailing comma.
Values(line) ==
    IF line # <<>> /\ Last(line) = "" THEN Front(line) ELSE line

\* parse_csv: a value beyond the last column is filed under the first again.
parse_csv(cols, text) ==
    [i \in DOMAIN text |->
        LET v == Values(text[i])
        IN [n \in DOMAIN v |-> [col |-> ((n - 1) % cols) + 1, val |-> v[n]]]]

\* A reader with its arguments.  The constructor also resets the three static
\* members, rows_parsed, ret_parsed_cols (ret) and proc_cols (proc), so that a
\* reader finds nothing of the one before it.  Without "key", the first line
\* holds the headers.  "ok" is what read_row returned, "hung" that it did not.
GkCsvReader(cols, key, text) ==
    [cols |-> cols,
     data |-> parse_csv(cols, IF key THEN text ELSE Tail(text)),
     rows_parsed |-> 0, ret |-> 0, proc |-> {},
     args |-> [n \in 1 .. cols |-> ""], ok |-> FALSE, hung |-> FALSE]

\* What read_csv_helper finds for a column of the current row.
Row(r)           == r.rows_parsed + 1
InData(r)        == Row(r) <= Len(r.data)
Processed(r, c)  == <<Row(r), c>> \in r.proc
Places(r, c)     == {n \in DOMAIN r.data[Row(r)] : r.data[Row(r)][n].col = c}

read_csv_helper(r, c) ==
    IF ~InData(r) \/ Processed(r, c) THEN "" ELSE r.data[Row(r)][Min(Places(r, c))].val

\* Its loop "while (col_no <= cols_count)" only ends by returning, and with
\* no value in that column it never does.
Hangs(r, c) == InData(r) /\ ~Processed(r, c) /\ Places(r, c) = {}

MarkedNot(r, c) == r.proc   \* mutant: insertMulti is forgotten
Marked(r, c)    == r.proc \cup {<<Row(r), c>>}

\* The end of read_row, on any level of the recursion.
ReturnLate(r) ==            \* mutant: the test is off by one
    IF r.ret = r.cols
    THEN [r EXCEPT !.ret = 0, !.rows_parsed = @ + 1, !.ok = TRUE]
    ELSE [r EXCEPT !.ret = @ + 1, !.ok = FALSE]

Return(r) ==
    IF r.ret = r.cols - 1
    THEN [r EXCEPT !.ret = 0, !.rows_parsed = @ + 1, !.ok = TRUE]
    ELSE [r EXCEPT !.ret = @ + 1, !.ok = FALSE]

\* read_row with the arguments from the n-th on, and the loop of this level
\* from column c on.  An argument that gets no value keeps its old one.
RECURSIVE read_row(_, _), Columns(_, _, _)

read_row(r, n) ==
    IF n > r.cols THEN [r EXCEPT !.ok = FALSE]
    ELSE IF r.data = <<>> \/ r.rows_parsed > Len(r.data)
         THEN [r EXCEPT !.ret = @ + 1, !.ok = FALSE]
    ELSE LET s == Columns(r, n, 1) IN IF s.hung THEN s ELSE Return(s)

Columns(r, n, c) ==
    IF r.hung \/ c > r.cols THEN r
    ELSE IF Hangs(r, c) THEN [r EXCEPT !.hung = TRUE]
    ELSE IF read_csv_helper(r, c) = "" THEN Columns(r, n, c + 1)
    ELSE LET s == [r EXCEPT !.proc = Marked(r, c),
                            !.args[n] = read_csv_helper(r, c)]
         IN Columns(read_row(s, n + 1), n, c + 1)

\* "while (reader.read_row(..))": the arguments after each row, and whether
\* the loop ends.
RECURSIVE Rows(_)
Rows(r) ==
    LET s == read_row(r, 1)
    IN IF s.hung \/ ~s.ok THEN [rows |-> <<>>, hung |-> s.hung]
       ELSE LET rest == Rows(s) IN [rest EXCEPT !.rows = <<s.args>> \o @]
=============================================================================
