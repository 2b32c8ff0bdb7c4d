------------------------------ MODULE Teletext ------------------------------
(***************************************************************************)
(* Frames of teletext (teletext.c).  A row that holds a DOUBLE_HEIGHT code *)
(* is the upper half of a double row, and the row below it, whatever it    *)
(* holds, the lower half.  do_teletext draws one scanline of a row and     *)
(* knows of the rows above only what the static variable next_double says, *)
(* while the 6502 rewrites the page between any two lines, and lines are   *)
(* skipped if drawing is late.  How a row is drawn is in TeletextRow.      *)
(***************************************************************************)
EXTENDS TeletextRow

CONSTANTS
  MODE_V_ACTIVE_LINES,
  TELETEXT_LINES, TELETEXT_ROW_HEIGHT,
  Columns,        \* bound: characters of a row, for RowsAgree
  MaxChanges      \* bound: disturbances within a frame

ASSUME TeletextAssumption ==
  /\ MODE_V_ACTIVE_LINES \in Nat \ {0, 1} /\ TELETEXT_LINES \in Nat
  /\ MODE_V_ACTIVE_LINES >= TELETEXT_LINES
  /\ TELETEXT_ROW_HEIGHT \in Nat \ {0}
  /\ TELETEXT_LINES % TELETEXT_ROW_HEIGHT = 0
  /\ Columns \in Nat /\ MaxChanges \in Nat

Lines == 0 .. MODE_V_ACTIVE_LINES - 1
Rows  == 0 .. TELETEXT_LINES \div TELETEXT_ROW_HEIGHT - 1

VARIABLES
  line_num,     \* the line that is due
  doubles,      \* the rows of the page that hold a DOUBLE_HEIGHT code
  next_double, frame_count, flash_now, blink_now,   \* static variables
  changes,      \* disturbances in this frame
  steady        \* history: none since the first line of the page

statics == <<next_double, frame_count, flash_now, blink_now>>
vars    == <<line_num, doubles, statics, changes, steady>>

-----------------------------------------------------------------------------
(* A mode with fewer lines than the page is not modelled: teletext.c has a
   formula for it, but the teletext build has 576 lines. *)
teletext_line_no == line_num - (MODE_V_ACTIVE_LINES - TELETEXT_LINES) \div 2

InPage      == 0 <= teletext_line_no /\ teletext_line_no < TELETEXT_LINES
StartOfPage == teletext_line_no = 0
row         == teletext_line_no \div TELETEXT_ROW_HEIGHT

TypeOK ==
  /\ line_num \in Lines
  /\ doubles \subseteq Rows
  /\ next_double \in {-1} \cup {r + 1 : r \in Rows}
  /\ frame_count \in 0 .. 63
  /\ flash_now \in BOOLEAN /\ blink_now \in BOOLEAN
  /\ changes \in 0 .. MaxChanges
  /\ steady \in BOOLEAN

Init ==
  /\ line_num = 1
  /\ doubles \in SUBSET Rows
  /\ next_double = -1 /\ frame_count = 0
  /\ flash_now = FALSE /\ blink_now = FALSE
  /\ changes = 0
  /\ steady = FALSE

-----------------------------------------------------------------------------
NextLine ==
  /\ line_num' = (line_num + 1) % MODE_V_ACTIVE_LINES

(* (In the faulty variant the counter wraps too early.) *)
CountTo31 == (frame_count + 1) % 32

Count == (frame_count + 1) % 64

StartFrame ==
  IF StartOfPage
  THEN /\ frame_count' = Count
       /\ flash_now' = (Count < 21)
       /\ blink_now' = (Count < 32)
  ELSE UNCHANGED <<frame_count, flash_now, blink_now>>

(* next_double when the columns of the line are drawn.  (In the faulty variant
   it is not reset at the start of a frame.) *)
NotReset == next_double

DoubleBefore == IF StartOfPage THEN -1 ELSE next_double

(* A lower half does not start another double row.  (In the faulty variant it
   does.) *)
EveryDouble == row \in doubles

StartsDouble == row \in doubles /\ DoubleBefore # row

do_teletext ==
  /\ NextLine
  /\ IF InPage
     THEN /\ StartFrame
          /\ next_double' = IF StartsDouble THEN row + 1 ELSE DoubleBefore
          /\ steady' = (StartOfPage \/ steady)
     ELSE UNCHANGED <<statics, steady>>
  /\ changes' = IF line_num = 0 THEN 0 ELSE changes
  /\ UNCHANGED doubles

-----------------------------------------------------------------------------
Disturb ==
  /\ changes < MaxChanges
  /\ changes' = changes + 1
  /\ steady' = FALSE

(* The request was dropped (mc6847_get_line_buffer), the line not drawn. *)
Skip ==
  /\ Disturb
  /\ NextLine
  /\ UNCHANGED <<doubles, statics>>

(* The 6502 writes a code, or overwrites the last one of a row. *)
WriteRow ==
  /\ Disturb
  /\ \E r \in Rows : doubles' = IF r \in doubles THEN doubles \ {r} ELSE doubles \cup {r}
  /\ UNCHANGED <<line_num, statics>>

Next == do_teletext \/ Skip \/ WriteRow

(* Fairness: the beam goes on. *)
Spec == Init /\ [][Next]_vars /\ WF_vars(do_teletext)

-----------------------------------------------------------------------------
(* A row is drawn as its codes say, whatever they are.  This is about every row
   of codes and not about the page of the state, so one state, that of an empty
   page at the start, is enough for TLC to look at it. *)
RowsAgree ==
  Init /\ doubles = {} =>
    \A chars \in [1 .. Columns -> Chars], second_double \in BOOLEAN :
      DrawRow(chars, second_double) = Reference(chars, second_double)

(* The page as a whole says which rows are lower halves: in a run of rows with
   the code, every second one, and the row below the run if the last one is
   an upper half. *)
LowerHalf(r) ==
  LET run == Max({n \in 0 .. r : \A k \in 1 .. n : r - k \in doubles})
  IN  run % 2 = 1

HalvesRight == InPage => (DoubleBefore = row <=> LowerHalf(row))

(* Each scanline that is drawn agrees with that, in a frame in which the page
   has not been written to and no line been skipped. *)
HalvesMatch == steady => HalvesRight

(* When the page is left alone and no line is skipped, halves match for ever,
   whatever was there before. *)
Undisturbed == <>[][~Disturb]_vars

GlitchesEnd == Undisturbed => <>[]HalvesRight

(* Then also flashing text and the cursor go on and off for ever. *)
FlashesForever ==
  Undisturbed =>
    /\ []<>flash_now /\ []<>~flash_now
    /\ []<>blink_now /\ []<>~blink_now
=============================================================================
