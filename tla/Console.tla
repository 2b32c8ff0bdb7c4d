------------------------------ MODULE Console -------------------------------
(***************************************************************************)
(* The message box of the 80 column screen: mui_left_justified_msgbox      *)
(* (ui.c) breaks a text into lines, keeping a position of its own, and     *)
(* prints it with mc6847_moveto and mc6847_outc (mc6847.c), whose cursor   *)
(* knows 25 rows of the 40 on the screen.                                  *)
(*                                                                         *)
(* A word (a token of strtok_r, so never empty) is the sequence of the     *)
(* lengths of its pieces: the newlines between them are part of the word.  *)
(***************************************************************************)
EXTENDS Integers, Sequences

CONSTANTS
  TextHeight, TextWidth,   \* the size of a small box
  TextWords                \* the number of words of the texts shown in it

ASSUME TextAssumption ==
  /\ TextHeight \in 1 .. 40 /\ TextWidth \in 1 .. 80
  /\ TextWords \in Nat

(* The box is high enough for words that each go to a new line and take two. *)
ASSUME BoxAssumption == 2 * TextWords + 1 < TextHeight

SCREEN_WIDTH  == 80
SCREEN_HEIGHT == 40

Cell(row, col) == [row |-> row, col |-> col]

mc6847_moveto(x, y) == Cell(y, x)

(* mc6847_outc puts a character at the cursor and moves on. *)
mc6847_outc(cursor) ==
  IF cursor.col + 1 < 80 THEN Cell(cursor.row, cursor.col + 1)
  ELSE Cell(IF cursor.row + 1 = 25 THEN 0 ELSE cursor.row + 1, 0)

(* The cells of n characters printed from a cell on. *)
PrintPiece(first, n) ==
  LET cursor[k \in 1 .. n] == IF k = 1 THEN first ELSE mc6847_outc(cursor[k - 1])
  IN  cursor

-----------------------------------------------------------------------------
Box(height, width) ==
  LET left == (SCREEN_WIDTH - width) \div 2
      top  == (SCREEN_HEIGHT - height) \div 2
  IN  [left |-> left, right |-> left + width,
       top |-> top, bottom |-> top + height]

(* strlen of a word: its newlines count. *)
WordLength(word) ==
  LET upto[p \in 1 .. Len(word)] == IF p = 1 THEN word[1] ELSE upto[p - 1] + 1 + word[p]
  IN  upto[Len(word)]

(* Whether a word goes to the next line.  (The faulty variant lets it end on
   the frame of the box.) *)
TooLongByTwo(box, x, word) == x + WordLength(word) > box.right + 1
TooLong(box, x, word) == x + WordLength(word) > box.right

(* Where a word starts if the position before it is place, where its pieces
   do, and the position after it and the blank that follows.  A newline goes
   back to the left of the box. *)
WordStart(box, place, word) ==
  IF TooLong(box, place.col, word)
  THEN mc6847_moveto(box.left + 1, place.row + 1)
  ELSE mc6847_moveto(place.col, place.row)

PieceStart(box, start, p) ==
  IF p = 1 THEN start ELSE mc6847_moveto(box.left + 1, start.row + (p - 1))

PlaceAfter(box, start, word) ==
  LET last == PieceStart(box, start, Len(word))
  IN  Cell(last.row, last.col + word[Len(word)] + 1)

WordStarts(text, box) ==
  LET start[i \in 1 .. Len(text)] ==
        WordStart(box,
                  IF i = 1 THEN mc6847_moveto(box.left + 1, box.top + 1)
                  ELSE PlaceAfter(box, start[i - 1], text[i - 1]),
                  text[i])
  IN  start

(* Per word and piece, the cells of its characters. *)
mui_left_justified_msgbox(text, height, width) ==
  LET box == Box(height, width)
  IN  [i \in 1 .. Len(text) |->
         [p \in 1 .. Len(text[i]) |->
            PrintPiece(PieceStart(box, WordStarts(text, box)[i], p), text[i][p])]]

-----------------------------------------------------------------------------
(* gpl3_notice (licence.h), and the box display_licence shows it in. *)
gpl3_notice ==
  << <<8>>, <<6, 0, 4>>, <<3>>, <<2>>, <<4>>, <<9>>, <<3>>, <<3>>, <<12>>,
     <<2>>, <<6>>, <<6>>, <<2>>, <<5>>, <<3>>, <<5>>, <<2>>, <<3>>, <<3>>,
     <<7>>, <<6>>, <<7>>, <<2>>, <<9>>, <<2>>, <<3>>, <<4>>, <<8>>, <<11>>,
     <<6>>, <<7>>, <<1>>, <<2>>, <<3>>, <<8>>, <<2>>, <<3>>, <<4>>, <<7>>,
     <<3>>, <<5>>, <<8, 0, 4>>, <<7>>, <<2>>, <<11>>, <<2>>, <<3>>, <<4>>,
     <<4>>, <<2>>, <<4>>, <<2>>, <<7>>, <<3>>, <<7>>, <<3>>, <<9>>, <<7>>,
     <<4>>, <<3>>, <<7>>, <<8>>, <<2>>, <<15>>, <<2>>, <<7>>, <<3>>, <<1>>,
     <<10>>, <<8>>, <<3>>, <<3>>, <<3>>, <<7>>, <<6>>, <<7>>, <<3>>, <<4>>,
     <<8, 0, 3>>, <<6>>, <<4>>, <<8>>, <<1>>, <<4>>, <<2>>, <<3>>, <<3>>,
     <<7>>, <<6>>, <<7>>, <<5>>, <<4>>, <<4>>, <<8>>, <<2>>, <<4>>, <<3>>,
     <<32, 0>> >>

-----------------------------------------------------------------------------
Inside(box, cell) ==
  /\ box.left < cell.col /\ cell.col < box.right
  /\ box.top < cell.row /\ cell.row < box.bottom

NextTo(c, d) == d = Cell(c.row, c.col + 1)
Below(c, d)  == d.row > c.row

(* Cell d comes after c, with a blank or the end of a line between. *)
Apart(c, d) == Below(c, d) \/ (d.row = c.row /\ d.col > c.col + 1)

Cells(word) ==
  UNION {{word[p][k] : k \in 1 .. Len(word[p])} : p \in 1 .. Len(word)}

(* A text can be read as it was written: every word within the frame of the
   box, in one piece but for its newlines, and apart from those before it. *)
Readable(text, height, width) ==
  LET words == mui_left_justified_msgbox(text, height, width)
  IN  \A i \in 1 .. Len(words) :
        /\ \A c \in Cells(words[i]) : Inside(Box(height, width), c)
        /\ \A p \in 1 .. Len(words[i]) :
             /\ \A k \in 2 .. Len(words[i][p]) :
                  NextTo(words[i][p][k - 1], words[i][p][k])
             /\ \A q \in 1 .. p - 1 :
                  \A k \in 1 .. Len(words[i][q]), l \in 1 .. Len(words[i][p]) :
                    Below(words[i][q][k], words[i][p][l])
        /\ \A j \in 1 .. i - 1 : \A c \in Cells(words[j]), d \in Cells(words[i]) :
             Apart(c, d)

(* Words of at most two pieces, none longer than a line of the small box. *)
Words ==
  LET Lengths == 0 .. TextWidth - 1
  IN  [1 .. 1 -> Lengths \ {0}] \cup [1 .. 2 -> Lengths]

BoxesReadable ==
  /\ Readable(gpl3_notice, 21, 65)
  /\ \A text \in [1 .. TextWords -> Words] :
       Readable(text, TextHeight, TextWidth)
=============================================================================
