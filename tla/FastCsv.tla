------------------------------- MODULE FastCsv -------------------------------
(***************************************************************************)
(* How a list of downloads is read: io::CSVReader (utils/fast-cpp-csv-     *)
(* parser/csv.h) as AddURL::on_buttonBox_accepted uses it.  The file comes  *)
(* in blocks; LineReader keeps three of them in its buffer, takes lines     *)
(* from the first two, and a worker thread reads ahead into the third.      *)
(*                                                                         *)
(* A text is a sequence of characters.  The words that matter are one       *)
(* character long: "u", "d" and "h" stand for the names of the columns.     *)
(* The worker holds the mutex while it reads, and the other thread only     *)
(* looks at what it wrote after finish_read, so each call is one step.      *)
(***************************************************************************)
EXTENDS Integers, Sequences, SequencesExt, FiniteSets

CONSTANTS
    BlockLen,   \* block_len
    Heads,      \* first lines of the files, with what ends them
    Lines,      \* other lines, with what ends them
    MaxLines,   \* bound: lines after the first
    BareEnds    \* the last line of a file may lack its newline

ASSUME CsvAssumption ==
    /\ BlockLen \in Nat \ {0} /\ MaxLines \in Nat /\ BareEnds \in BOOLEAN
    /\ IsFiniteSet(Heads) /\ IsFiniteSet(Lines)

VARIABLES
    text, pos,            \* the file, and how much of it has been read
    buffer,               \* three blocks; "0" where nothing was ever written
    data_begin, data_end, \* what of it is still to be taken
    worker,               \* the reading thread: "off", "on" or "gone"
    desired, count,       \* desired_byte_count and read_byte_count, -1 for none
    terminate,            \* termination_requested
    pc,                   \* where the dialog is
    col_order,            \* for each column of the file, which of ours it is
    row,                  \* url, dest, hash: the arguments of read_row
    csv_vec,              \* the rows handed to the dialog
    error                 \* the exception that ended it all, or "none"

file   == <<text, pos>>
reader == <<worker, desired, count, terminate>>
lines  == <<buffer, data_begin, data_end>>
parsed == <<col_order, row, csv_vec>>
vars   == <<file, reader, lines, parsed, pc, error>>

Names == <<<<"u">>, <<"d">>, <<"h">>>>   \* url, destination, hash
Empty == <<>>
BOM   == <<"EF", "BB", "BF">>   \* the byte order mark of UTF-8

\* The pieces of s between the places where c stands.
Split(s, c) ==
    LET cuts == {i \in DOMAIN s : s[i] = c}
        n    == Cardinality(cuts)
        cut(k) == CASE k = 0 -> 0
                    [] k > n -> Len(s) + 1
                    [] OTHER -> CHOOSE i \in cuts : Cardinality({j \in cuts : j <= i}) = k
    IN  [k \in 1 .. n + 1 |-> SubSeq(s, cut(k - 1) + 1, cut(k) - 1)]

\* trim_chars<' ', '\t'>
Trim(s) ==
    LET inner == {i \in DOMAIN s : s[i] \notin {" ", "\t"}}
        from == CHOOSE i \in inner : \A j \in inner : i <= j
        to   == CHOOSE i \in inner : \A j \in inner : j <= i
    IN  IF inner = {} THEN Empty ELSE SubSeq(s, from, to)

\* chop_next_column to the end of the line, without quotes
Columns(line) == LET cols == Split(line, ",") IN [k \in DOMAIN cols |-> Trim(cols[k])]

-----------------------------------------------------------------------------
(***************************************************************************)
(* AsynchronousReader.                                                     *)
(***************************************************************************)

\* What a read of n bytes gets.
Available(n) == IF Len(text) - pos < n THEN Len(text) - pos ELSE n

\* The buffer with n bytes of the file from place "at" on.
Filled(at, n) == [i \in DOMAIN buffer |-> IF i \in at .. at + n - 1 THEN text[pos + i - at + 1]
                                          ELSE buffer[i]]

\* mutant: the thread leaves at the end of the file without a word.
ReadBlockSilent ==
    /\ worker = "on" /\ desired # -1 /\ ~terminate
    /\ LET n == Available(desired)
       IN /\ buffer' = Filled(2 * BlockLen, n)
          /\ pos' = pos + n
          /\ count' = IF n = 0 THEN -1 ELSE n
          /\ worker' = IF n = 0 THEN "gone" ELSE "on"
    /\ desired' = -1
    /\ UNCHANGED <<text, data_begin, data_end, terminate, parsed, pc, error>>

\* The thread reads what it was asked for; nothing more is the end of it.
ReadBlock ==
    /\ worker = "on" /\ desired # -1 /\ ~terminate
    /\ LET n == Available(desired)
       IN /\ buffer' = Filled(2 * BlockLen, n)
          /\ pos' = pos + n
          /\ count' = n
          /\ worker' = IF n = 0 THEN "gone" ELSE "on"
    /\ desired' = -1
    /\ UNCHANGED <<text, data_begin, data_end, terminate, parsed, pc, error>>

Terminated ==
    /\ worker = "on" /\ terminate
    /\ worker' = "gone"
    /\ UNCHANGED <<file, desired, count, terminate, lines, parsed, pc, error>>

-----------------------------------------------------------------------------
(***************************************************************************)
(* LineReader.                                                             *)
(***************************************************************************)

\* init: the first two blocks at once; the thread if that was not all.
Open ==
    /\ pc = "open"
    /\ LET n == Available(2 * BlockLen)
       IN /\ buffer' = Filled(0, n)
          /\ pos' = n
          /\ data_end' = n
          /\ data_begin' = IF IsPrefix(BOM, text) THEN 3 ELSE 0
          /\ IF n = 2 * BlockLen
             THEN worker' = "on" /\ desired' = BlockLen ELSE UNCHANGED <<worker, desired>>
    /\ pc' = "header"
    /\ UNCHANGED <<text, count, terminate, parsed, error>>

InLine == pc \in {"header", "row"}

\* The block from "from" on takes the place of the one before it.
Down(from) == [i \in DOMAIN buffer |-> IF i \in from - BlockLen .. from - 1
                                       THEN buffer[i + BlockLen] ELSE buffer[i]]

\* next_line, when it comes past the first block: the second takes its place..
Shift ==
    /\ InLine
    /\ data_begin # data_end /\ data_begin >= BlockLen
    /\ buffer' = Down(BlockLen)
    /\ data_begin' = data_begin - BlockLen
    /\ data_end' = data_end - BlockLen
    /\ pc' = IF worker = "off" THEN pc ELSE pc \o "Finish"
    /\ UNCHANGED <<file, reader, parsed, error>>

\* mutant: every block is taken for a full one.
FinishReadFull ==
    /\ pc \in {"headerFinish", "rowFinish"}
    /\ count # -1
    /\ data_end' = data_end + BlockLen
    /\ buffer' = Down(2 * BlockLen)
    /\ desired' = BlockLen /\ count' = -1
    /\ pc' = IF pc = "headerFinish" THEN "header" ELSE "row"
    /\ UNCHANGED <<file, data_begin, worker, terminate, parsed, error>>

\* .. and once the third has been read, it takes that of the second, and the
\* next read begins (finish_read, start_read).
FinishRead ==
    /\ pc \in {"headerFinish", "rowFinish"}
    /\ count # -1
    /\ data_end' = data_end + count
    /\ buffer' = Down(2 * BlockLen)
    /\ desired' = BlockLen /\ count' = -1
    /\ pc' = IF pc = "headerFinish" THEN "header" ELSE "row"
    /\ UNCHANGED <<file, data_begin, worker, terminate, parsed, error>>

Throw(e) == error' = e /\ pc' = "close"

NextLine == InLine /\ data_begin < BlockLen /\ data_begin # data_end

\* Where the line ends: at a newline, or where the data do.
line_end == CHOOSE i \in data_begin .. 3 * BlockLen :
               /\ i = data_end \/ buffer[i] = "\n"
               /\ \A j \in data_begin .. i - 1 : j # data_end /\ buffer[j] # "\n"

Fits == line_end - data_begin + 1 <= BlockLen

\* The line without its carriage return
Line == LET end == line_end
            s   == [i \in 1 .. end - data_begin |-> buffer[data_begin + i - 1]]
        IN  IF s # Empty /\ Last(s) = "\r" THEN Front(s) ELSE s

\* The rest of next_line: the newline becomes the end of a string.
PastLine ==
    LET end == line_end
    IN /\ buffer' = [buffer EXCEPT ![end] = "0"]
       /\ data_end' = IF buffer[end] = "\n" THEN data_end ELSE data_end + 1
       /\ data_begin' = end + 1

LineTooLong ==
    /\ NextLine /\ ~Fits
    /\ Throw("line_length_limit_exceeded")
    /\ UNCHANGED <<file, reader, lines, parsed>>

-----------------------------------------------------------------------------
(***************************************************************************)
(* CSVReader.                                                              *)
(***************************************************************************)
Ours(name) == {i \in DOMAIN Names : Names[i] = name}

HeaderMissing ==
    /\ pc = "header" /\ data_begin = data_end
    /\ Throw("header_missing")
    /\ UNCHANGED <<file, reader, lines, parsed>>

has_column(i) == i \in Range(col_order)

\* read_header with ignore_missing_column: every column must be one of ours,
\* and none may come twice.
read_header ==
    /\ pc = "header" /\ NextLine /\ Fits
    /\ PastLine
    /\ \E cols \in {Columns(Line)} : LET
           bad  == {k \in DOMAIN cols : Ours(cols[k]) = {} \/ \E j \in 1 .. k - 1 : cols[j] = cols[k]}
       IN IF bad # {}
          THEN LET k == CHOOSE k \in bad : \A j \in bad : k <= j
               IN /\ Throw(IF Ours(cols[k]) = {} THEN "extra_column_in_header"
                           ELSE "duplicated_column_in_header")
                  /\ UNCHANGED col_order
          ELSE /\ col_order' = [k \in DOMAIN cols |-> CHOOSE i \in Ours(cols[k]) : TRUE]
               /\ pc' = "columns"
               /\ UNCHANGED error
    /\ UNCHANGED <<file, reader, row, csv_vec>>

\* The dialog wants to know where from, and where to (in the list, or from
\* its own field).
Check(dest_given) ==
    /\ pc = "columns"
    /\ IF ~has_column(1) \/ (~has_column(2) /\ ~dest_given)
       THEN Throw("invalid_argument") ELSE pc' = "row" /\ UNCHANGED error
    /\ UNCHANGED <<file, reader, lines, parsed>>

\* read_row, and what the dialog keeps of it.  An argument whose column the
\* file does not have is left alone.
read_row ==
    /\ pc = "row" /\ NextLine /\ Fits
    /\ PastLine
    /\ \E cols \in {Columns(Line)} :
          IF Len(cols) # Len(col_order)
          THEN /\ Throw(IF Len(cols) < Len(col_order) THEN "too_few_columns" ELSE "too_many_columns")
               /\ UNCHANGED <<row, csv_vec>>
          ELSE /\ row' = [i \in DOMAIN row |->
                             IF has_column(i) THEN cols[CHOOSE k \in DOMAIN cols : col_order[k] = i]
                             ELSE row[i]]
               /\ csv_vec' = Append(csv_vec, row')
               /\ UNCHANGED <<pc, error>>
    /\ UNCHANGED <<file, reader, col_order>>

\* next_line returns 0 and read_row false.
NoMoreRows ==
    /\ pc = "row" /\ data_begin = data_end
    /\ pc' = "close"
    /\ UNCHANGED <<file, reader, lines, parsed, error>>

\* ~AsynchronousReader: the thread is told, and waited for.
Close ==
    /\ pc = "close"
    /\ terminate' = (worker # "off")
    /\ pc' = "join"
    /\ UNCHANGED <<file, worker, desired, count, lines, parsed, error>>

Joined ==
    /\ pc = "join" /\ worker # "on"
    /\ pc' = "end"
    /\ UNCHANGED <<file, reader, lines, parsed, error>>

-----------------------------------------------------------------------------
Texts == {FlattenSeq(<<head>> \o body) : head \in Heads, body \in SeqOf(Lines, MaxLines)}

Init ==
    /\ text \in Texts \cup IF BareEnds THEN {Front(t) : t \in Texts} ELSE {}
    /\ pos = 0
    /\ buffer = [i \in 0 .. 3 * BlockLen - 1 |-> "0"]
    /\ data_begin = 0 /\ data_end = 0
    /\ worker = "off" /\ desired = -1 /\ count = -1 /\ terminate = FALSE
    /\ pc = "open" /\ col_order = <<>> /\ row = [i \in DOMAIN Names |-> Empty] /\ csv_vec = <<>>
    /\ error = "none"

Worker == ReadBlock \/ Terminated

Dialog ==
    \/ Open \/ Shift \/ FinishRead \/ LineTooLong
    \/ HeaderMissing \/ read_header \/ \E dest_given \in BOOLEAN : Check(dest_given)
    \/ read_row \/ NoMoreRows
    \/ Close \/ Joined

Next == Worker \/ Dialog

Spec == Init /\ [][Next]_vars /\ WF_vars(Worker) /\ WF_vars(Dialog)

-----------------------------------------------------------------------------
\* What the text says, whatever its blocks: its lines, without a BOM, and
\* without what follows the last newline if that is nothing.
Plain(s)   == IF s # Empty /\ Last(s) = "\r" THEN Front(s) ELSE s
Body       == IF IsPrefix(BOM, text) THEN SubSeq(text, 4, Len(text)) ELSE text
AllLines   == Split(Body, "\n")
Written    == [k \in DOMAIN AllLines |-> Columns(Plain(AllLines[k]))]
WrittenLen == IF Last(AllLines) = Empty THEN Len(AllLines) - 1 ELSE Len(AllLines)

\* The row that line k of the text makes: the cell under each of our names.
RowOf(k) ==
    [i \in DOMAIN Names |->
        LET under == {c \in DOMAIN Written[1] : Written[1][c] = Names[i]}
        IN  IF under = {} THEN Empty ELSE Written[k][CHOOSE c \in under : TRUE]]

\* The dialog gets the rows of the file, in their order, with each cell under
\* its own name, wherever the blocks end; and all of them, unless it is told
\* what is wrong with the next one.
RowsAsWritten ==
    /\ \A k \in DOMAIN csv_vec : csv_vec[k] = RowOf(k + 1)
    /\ pc = "end" /\ error = "none" => Len(csv_vec) = WrittenLen - 1
    /\ error = "too_few_columns" => Len(Written[Len(csv_vec) + 2]) < Len(Written[1])
    /\ error = "too_many_columns" => Len(Written[Len(csv_vec) + 2]) > Len(Written[1])
    /\ error = "line_length_limit_exceeded" =>
          \E k \in 1 .. WrittenLen : Len(AllLines[k]) >= BlockLen

\* The dialog comes to an end: finish_read never waits for a thread that has
\* left, and the thread never for a request when it should leave.
ReadingEnds == <>(pc = "end")
=============================================================================
