-------------------------------- MODULE TextBox --------------------------------
(***************************************************************************)
(* The text box of the curses front end (lxdialog/textbox.c), which shows  *)
(* a file of which only BUF_SIZE bytes are in memory at a time.            *)
(*                                                                         *)
(* A file is a sequence of bytes, "n" for a newline and "x" for any other. *)
(* A text box t has the file, the offset "fpos" of its descriptor, how     *)
(* much of the file before that offset is in "buf" ("bytes_read"), where   *)
(* "page" points in it, and the "rows" on the screen: for each, where the  *)
(* line printed there starts in the file and from which column it is       *)
(* printed.                                                                *)
(***************************************************************************)
EXTENDS Naturals, SequencesExt

CONSTANTS
  BUF_SIZE,   \* bytes of a file in memory
  Rows,       \* rows of text on the screen (height - 4)
  MAX_LEN     \* the most columns that a text is scrolled by

ASSUME BoxAssumption ==
  /\ BUF_SIZE \in Nat /\ BUF_SIZE >= 2 /\ BUF_SIZE % 2 = 0
  /\ Rows \in Nat \ {0}
  /\ MAX_LEN \in Nat

file_size(t) == Len(t.file)

(* Where buf starts, and where page points, in the file.                   *)
Base(t) == t.fpos - t.bytes_read
At(t) == Base(t) + t.page

(* *page is the byte there, and '\0' at the end of buf.                    *)
AtNewline(t) == t.page < t.bytes_read /\ t.file[At(t) + 1] = "n"
AtBufferEnd(t) == t.page = t.bytes_read

(* lseek(fd, at, SEEK_SET); bytes_read = read(fd, buf, BUF_SIZE)           *)
ReadFrom(t, at) ==
  LET end == Min({at + BUF_SIZE, file_size(t)})
  IN  [t EXCEPT !.fpos = end, !.bytes_read = end - at]

(* A loop that is gone through n times.                                    *)
Repeated(Step(_), t, n) ==
  LET done[i \in 0..n] == IF i = 0 THEN t ELSE Step(done[i - 1]) IN done[n]

(* get_line: to the end of the line, reading on where the buffer ends.     *)
Ahead(t) ==
  CASE AtNewline(t) -> t
    [] AtBufferEnd(t) /\ t.fpos < file_size(t) -> [ReadFrom(t, t.fpos) EXCEPT !.page = 0]
    [] AtBufferEnd(t) /\ t.fpos = file_size(t) -> t
    [] OTHER -> [t EXCEPT !.page = @ + 1]

(* To the start of the next line. The last line is not followed by one.    *)
(* Whenever a part of the file is read, a byte follows.                    *)
get_line(t) ==
  LET u == Repeated(Ahead, t, 2 * file_size(t))
  IN  IF AtNewline(u) THEN [u EXCEPT !.page = @ + 1, !.end_reached = FALSE]
      ELSE [u EXCEPT !.end_reached = TRUE]

Row(t) == [line |-> At(t), column |-> t.hscroll]

(* The loop of print_page and of "previous line": rows are counted as far  *)
(* as the last line.                                                       *)
NextRow(t) ==
  LET u == get_line(t)
  IN  [u EXCEPT !.page_length = IF t.passed_end THEN @ ELSE @ + 1,
                !.passed_end = @ \/ u.end_reached]

Uncounted(t) == [t EXCEPT !.page_length = 0, !.passed_end = FALSE]

PrintRow(t, i) == NextRow([t EXCEPT !.rows[i] = Row(t)])

print_page(t) ==
  LET printed[i \in 0..Rows] == IF i = 0 THEN Uncounted(t) ELSE PrintRow(printed[i - 1], i)
  IN  printed[Rows]

-----------------------------------------------------------------------------
(* back_lines                                                              *)

(* The file does not begin before buf.                                     *)
AtBegin(t) == t.page = 0 /\ t.fpos <= t.bytes_read

(* Mutant: half a buffer is always taken to be before the page.            *)
EarlierHalf(t) ==
  [ReadFrom(t, IF t.fpos < BUF_SIZE \div 2 + t.bytes_read THEN 0
               ELSE t.fpos - (BUF_SIZE \div 2 + t.bytes_read)) EXCEPT !.page = BUF_SIZE \div 2]

(* The part of the file before buf is read in, half a buffer of it if      *)
(* there is as much.                                                       *)
Earlier(t) ==
  IF t.fpos < BUF_SIZE \div 2 + t.bytes_read
  THEN [ReadFrom(t, 0) EXCEPT !.page = Base(t)]
  ELSE [ReadFrom(t, t.fpos - (BUF_SIZE \div 2 + t.bytes_read)) EXCEPT !.page = BUF_SIZE \div 2]

(* --page                                                                  *)
Backward(t) == LET u == IF t.page = 0 THEN Earlier(t) ELSE t
               IN  [u EXCEPT !.page = @ - 1]

Begun(t) == [t EXCEPT !.begin_reached = TRUE]

Back(t) == IF AtBegin(t) THEN Begun(t) ELSE Backward(t)

Behind(t) == IF t.begin_reached \/ AtNewline(t) THEN t ELSE Back(t)

(* At least one byte back, and on to a newline or the beginning.           *)
BackToNewline(t) == Repeated(Behind, Back(t), file_size(t))

LineUp(t) == IF t.begin_reached THEN t ELSE BackToNewline(t)

UpLines(t, n) ==
  LET u == Repeated(LineUp, t, n)
  IN  IF u.begin_reached THEN u ELSE [u EXCEPT !.page = @ + 1]

(* Unless at the end of the file, the newline of the line before is        *)
(* skipped first; that it is none is an internal error.                    *)
back_lines(t, n) ==
  LET u == [t EXCEPT !.begin_reached = FALSE]
      b == Backward(u)
  IN  CASE u.end_reached -> UpLines(u, n)
        [] ~u.end_reached /\ AtBegin(u) -> Begun(u)
        [] ~u.end_reached /\ ~AtBegin(u) /\ AtNewline(b) -> UpLines(b, n)
        [] ~u.end_reached /\ ~AtBegin(u) /\ ~AtNewline(b) -> [b EXCEPT !.internal_error = TRUE]

-----------------------------------------------------------------------------
(* dialog_textbox. The statics are those that an earlier box has left.     *)

OpenText(file, statics) ==
  print_page(ReadFrom(
    [file |-> file, fpos |-> 0, bytes_read |-> 0, page |-> 0,
     begin_reached |-> statics.begin_reached, end_reached |-> statics.end_reached,
     hscroll |-> statics.hscroll, page_length |-> 0, passed_end |-> FALSE,
     rows |-> [i \in 1..Rows |-> [line |-> 0, column |-> 0]], internal_error |-> FALSE,
     stale |-> ~statics.begin_reached], 0))

Statics(t) ==
  [begin_reached |-> t.begin_reached, end_reached |-> t.end_reached, hscroll |-> t.hscroll]

FirstPage(t) ==
  IF t.begin_reached THEN t
  ELSE print_page([(IF t.fpos > t.bytes_read THEN ReadFrom(t, 0) ELSE t)
                     EXCEPT !.page = 0, !.begin_reached = TRUE])

LastPage(t) ==
  LET u == IF t.fpos < file_size(t) THEN ReadFrom(t, file_size(t) - BUF_SIZE) ELSE t
  IN  print_page(back_lines([u EXCEPT !.page = u.bytes_read, !.end_reached = TRUE], Rows))

(* The screen is scrolled by a row and the line above printed; get_line is *)
(* called for the other rows.                                              *)
PreviousLine(t) ==
  LET u == Uncounted(back_lines(t, t.page_length + 1))
      scrolled == [u EXCEPT !.rows = [i \in 1..Rows |-> IF i = 1 THEN Row(u) ELSE t.rows[i - 1]]]
  IN  IF t.begin_reached THEN t
      ELSE Repeated(NextRow, scrolled, Rows)

PreviousPage(t) ==
  IF t.begin_reached THEN t ELSE print_page(back_lines(t, t.page_length + Rows))

(* page_length stays.                                                      *)
NextLine(t) ==
  LET scrolled == [t EXCEPT !.rows = [i \in 1..Rows |-> IF i = Rows THEN Row(t) ELSE t.rows[i + 1]],
                            !.begin_reached = FALSE]
  IN  IF t.end_reached THEN t ELSE get_line(scrolled)

NextPage(t) ==
  IF t.end_reached THEN t ELSE print_page([t EXCEPT !.begin_reached = FALSE])

Sideways(t, column) == print_page(back_lines([t EXCEPT !.hscroll = column], t.page_length))

LineStart(t) == IF t.hscroll = 0 THEN t ELSE Sideways(t, 0)
ScrollLeft(t) == IF t.hscroll = 0 THEN t ELSE Sideways(t, t.hscroll - 1)
ScrollRight(t) == IF t.hscroll >= MAX_LEN THEN t ELSE Sideways(t, t.hscroll + 1)

(* What the keys of the text box do but to leave it, which E, X, escape    *)
(* and the return key do.                                                  *)
TextKeys(t) ==
  {FirstPage(t), LastPage(t), PreviousLine(t), PreviousPage(t), NextLine(t), NextPage(t),
   LineStart(t), ScrollLeft(t), ScrollRight(t)}

-----------------------------------------------------------------------------
(* Where the line after the one at an offset starts: the last line is      *)
(* followed by blank rows.                                                 *)
LineAfter(file, from) ==
  LET newlines == {o \in (from + 1)..Len(file) : file[o] = "n"}
  IN  IF newlines = {} THEN Len(file) ELSE Min(newlines)

(* The rows are consecutive lines of the file from one column, page points *)
(* to the line after the last of them.                                     *)
RowsInOrder(t) ==
  /\ \A i \in 1..(Rows - 1) : t.rows[i + 1].line = LineAfter(t.file, t.rows[i].line)
  /\ \A i \in 1..Rows : t.rows[i].column = t.hscroll
  /\ At(t) = LineAfter(t.file, t.rows[Rows].line)
=============================================================================
