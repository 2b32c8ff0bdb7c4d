------------------------------ MODULE DrawLine ------------------------------
(***************************************************************************)
(* Drawing a scanline (mc6847.c): which bytes of the video memory make up  *)
(* a line, and how much of the line buffer they fill.  draw_line keeps the *)
(* address in static variables that it advances from line to line, so that *)
(* a line depends on every line drawn before it in the frame, while the    *)
(* 6502 changes the mode, or turns the 80 column screen on and off, between*)
(* any two lines, and lines are skipped if drawing is late.                *)
(*                                                                         *)
(* Colours and character shapes are left out.                              *)
(***************************************************************************)
EXTENDS Integers, Sequences

CONSTANTS
  MODE_V_ACTIVE_LINES, MODE_H_ACTIVE_PIXELS,   \* the size of the picture
  max_height,       \* lines of it that show the 6847's picture
  XSCALE, YSCALE,   \* pixels per pixel of the 6847
  VID_MEM_SIZE,     \* bytes of video memory
  Modes,            \* the modes the 6502 selects, of 0 .. 15
  MaxCuts,          \* bound: rows cut short are counted up to here
  MaxStale          \* bound: with mem_reg beyond this, and not begun anew for
                    \*   this frame, the screen is left alone

ASSUME DrawAssumption ==
  /\ max_height \in Nat /\ MODE_H_ACTIVE_PIXELS \in Nat
  /\ MODE_V_ACTIVE_LINES \in Nat /\ MODE_V_ACTIVE_LINES >= max_height + 2
  /\ XSCALE = 2 /\ YSCALE = 2
  /\ VID_MEM_SIZE \in Nat
  /\ Modes \subseteq 0 .. 15
  /\ MaxCuts \in Nat /\ MaxStale \in Nat

max_width         == 256 * XSCALE
vertical_offset   == (MODE_V_ACTIVE_LINES - max_height) \div 2
horizontal_offset == (MODE_H_ACTIVE_PIXELS - max_width) \div 2

Lines     == 0 .. MODE_V_ACTIVE_LINES - 1
InText(m) == m % 2 = 0

VARIABLES
  line_num,    \* the line that is due
  mode,        \* the mode in the shadow memory
  vga80,       \* COL80_ON there
  prev_mode, mem_reg, counter,   \* the static variables of draw_line
  \* history:
  first_drawn, \* draw_line has drawn the first line of this frame's picture
  cuts,        \* lines drawn since, in another mode than the line before
  steady       \* draw_line has drawn every line since the one above the
               \*   picture, in one mode

statics == <<prev_mode, mem_reg, counter>>
screen  == <<mode, vga80>>
history == <<first_drawn, cuts, steady>>
vars    == <<line_num, screen, statics, history>>

-----------------------------------------------------------------------------
(* The shape of a mode. *)
is_colour(m) == (m \div 2) % 2 = 0

width_lookup == <<32, 64, 128, 128, 128, 128, 128, 128, 256>>
get_width(m) == width_lookup[(m + 1) \div 2 + 1]

(* (In the faulty variant colour pixels are taken for one bit each.) *)
BytesOfMonochrome(m) == IF InText(m) THEN 32 ELSE get_width(m) \div 8

bytes_per_row(m) ==
  IF InText(m) THEN 32
  ELSE IF is_colour(m) THEN get_width(m) \div 4
  ELSE get_width(m) \div 8

lines_per_row_lookup == <<6, 6, 6, 4, 4, 2, 2, 2>>
lines_per_row(m) ==
  IF InText(m) THEN 24 ELSE lines_per_row_lookup[m \div 2 + 1]

(* do_graphics fetches words of 16 or 32 pixels. *)
BytesFetched(m) ==
  IF InText(m) THEN 32
  ELSE 4 * (get_width(m) \div (IF is_colour(m) THEN 16 ELSE 32))

(* Pixels that the code writes for one pixel of the 6847.  (In the faulty
   variant a pixel of 128 is as wide as one of 256.) *)
PixelWidth256Only(m) == IF get_width(m) = 64 THEN 8 ELSE 2

PixelWidth(m) ==
  LET width == get_width(m)
  IN  IF width = 64 THEN 8
      ELSE IF width = 128 THEN 4
      ELSE IF is_colour(m) THEN 0 ELSE 2   \* a case the code leaves out

PixelsWritten(m) ==
  2 * horizontal_offset
    + (IF InText(m) THEN 32 * 8 * 2 ELSE get_width(m) * PixelWidth(m))

-----------------------------------------------------------------------------
Relative == line_num - vertical_offset

InPicture == 0 <= Relative /\ Relative < max_height

(* The first line of the frame starts at the top of the memory.  (In the
   faulty variants only the counter or only the address is reset.) *)
RowStartCounterOnly ==
  IF Relative = 0 THEN [mem_reg |-> mem_reg, counter |-> lines_per_row(mode)]
  ELSE [mem_reg |-> mem_reg, counter |-> counter]

RowStartAddressOnly ==
  IF Relative = 0 THEN [mem_reg |-> 0, counter |-> counter]
  ELSE [mem_reg |-> mem_reg, counter |-> counter]

RowStart ==
  IF Relative = 0 THEN [mem_reg |-> 0, counter |-> lines_per_row(mode)]
  ELSE [mem_reg |-> mem_reg, counter |-> counter]

(* The address of the line that draw_line would draw now, relative to the
   start of the video memory. *)
Address == RowStart.mem_reg

TypeOK ==
  /\ line_num \in Lines
  /\ mode \in Modes /\ vga80 \in BOOLEAN
  /\ prev_mode \in Modes \cup {0}
  /\ mem_reg \in Nat
  /\ counter \in 1 .. 99
  /\ first_drawn \in BOOLEAN
  /\ cuts \in 0 .. MaxCuts
  /\ steady \in BOOLEAN

(* Initial state: line 1 is the first one to be asked for. *)
Init ==
  /\ line_num = 1
  /\ mode \in Modes
  /\ vga80 \in BOOLEAN
  /\ prev_mode = 0
  /\ mem_reg = 0
  /\ counter = 99
  /\ first_drawn = FALSE
  /\ cuts = 0
  /\ steady = FALSE

-----------------------------------------------------------------------------
NextLine == line_num' = (line_num + 1) % MODE_V_ACTIVE_LINES

(* The end of draw_line: to the next row when the lines of this one are used
   up, or the mode is not that of the line before.  (The faulty variants
   advance a line late, or forget to remember the mode.) *)
AdvanceLate ==
  IF RowStart.counter = 0 \/ prev_mode # mode
  THEN /\ counter' = lines_per_row(mode)
       /\ mem_reg' = RowStart.mem_reg + bytes_per_row(mode)
       /\ prev_mode' = mode
  ELSE /\ counter' = RowStart.counter - 1
       /\ mem_reg' = RowStart.mem_reg
       /\ UNCHANGED prev_mode

AdvanceForgetful ==
  IF RowStart.counter - 1 = 0 \/ prev_mode # mode
  THEN /\ counter' = lines_per_row(mode)
       /\ mem_reg' = RowStart.mem_reg + bytes_per_row(mode)
       /\ UNCHANGED prev_mode
  ELSE /\ counter' = RowStart.counter - 1
       /\ mem_reg' = RowStart.mem_reg
       /\ UNCHANGED prev_mode

Advance ==
  IF RowStart.counter - 1 = 0 \/ prev_mode # mode
  THEN /\ counter' = lines_per_row(mode)
       /\ mem_reg' = RowStart.mem_reg + bytes_per_row(mode)
       /\ prev_mode' = mode
  ELSE /\ counter' = RowStart.counter - 1
       /\ mem_reg' = RowStart.mem_reg
       /\ UNCHANGED prev_mode

FirstOfFrame == line_num = 0

(* A line in another mode than the one before cuts its row short. *)
CountCut ==
  LET before == IF Relative <= 0 THEN 0 ELSE cuts
  IN  cuts' = IF prev_mode # mode /\ before < MaxCuts THEN before + 1 ELSE before

draw_line ==
  /\ ~vga80
  /\ NextLine
  /\ Advance
  /\ CountCut
  /\ first_drawn' = ((first_drawn /\ ~FirstOfFrame) \/ Relative = 0)
  /\ steady' = IF Relative = -1 THEN TRUE ELSE steady /\ prev_mode = mode
  /\ UNCHANGED screen

(* The 80 column screen is drawn without a memory of earlier lines: 80 cells
   of 8 pixels, in two loops for its two modes. *)
PixelsOfText80 == 80 * (4 * 2)

do_text_vga80 ==
  /\ vga80
  /\ NextLine
  /\ first_drawn' = (first_drawn /\ ~FirstOfFrame)
  /\ steady' = FALSE
  /\ UNCHANGED <<screen, statics, cuts>>

-----------------------------------------------------------------------------
InBounds == first_drawn \/ mem_reg <= MaxStale

(* The request was dropped (mc6847_get_line_buffer), the line not drawn. *)
Skip ==
  /\ InBounds
  /\ NextLine
  /\ first_drawn' = (first_drawn /\ ~FirstOfFrame)
  /\ steady' = FALSE
  /\ UNCHANGED <<screen, statics, cuts>>

(* The 6502 writes to the port or to the 80 column control register. *)
ChangeScreen ==
  /\ InBounds
  /\ \/ mode' \in Modes \ {mode} /\ UNCHANGED vga80
     \/ vga80' = ~vga80 /\ UNCHANGED mode
  /\ UNCHANGED <<line_num, statics, history>>

Next == draw_line \/ do_text_vga80 \/ Skip \/ ChangeScreen

(* Fairness: the beam goes on (LineIsItsOwn of Scanout). *)
Spec == Init /\ [][Next]_vars /\ WF_vars(draw_line \/ do_text_vga80)

-----------------------------------------------------------------------------
(* Every row of the 6847's picture is shown lines_per_row times and comes
   from the bytes after those of the row above, provided the mode has been
   the same since the line above the picture, and no line has been skipped. *)
OnTrack == ~vga80 /\ InPicture /\ steady /\ mode = prev_mode

RowsInOrder ==
  OnTrack => Address = BytesFetched(mode) * (Relative \div lines_per_row(mode))

(* Then also characters are whole: do_text takes the line within a character
   from the line number, and the characters from the address. *)
CharacterRow == (Relative \div YSCALE) \div 12

CharactersWhole ==
  OnTrack /\ InText(mode) => Address = 32 * CharacterRow

(* A mode that changes in mid-frame moves all lines below it.  The densest
   picture takes 16 bytes a line, and each row that is cut short another 16.
   As long as there is room for those of this frame in the video memory, the
   bytes of a line are in it.  (Of 8192 bytes a picture of 384 lines leaves
   room for 127.  Beyond that, or when the 80 column screen was on at the
   first line so that mem_reg has not begun anew, draw_line goes on into what
   follows the video memory.) *)
Room == cuts < MaxCuts /\ 16 * (max_height - 1 + cuts) + 32 <= VID_MEM_SIZE

InVideoMemory ==
  InPicture /\ first_drawn /\ Room =>
    Address + BytesFetched(mode) <= VID_MEM_SIZE

(* In every mode, the 80 column screen's as well, a line fills the line buffer,
   and no more. *)
LineFilled ==
  /\ InPicture => \A m \in 0 .. 15 : PixelsWritten(m) = MODE_H_ACTIVE_PIXELS
  /\ vga80 => PixelsOfText80 = MODE_H_ACTIVE_PIXELS

(* Once the screen is left alone, and no line is skipped, rows are in order
   again within a frame, for ever. *)
Undisturbed == <>[][~(Skip \/ ChangeScreen)]_vars

GlitchesEnd ==
  Undisturbed =>
    <>[](~vga80 /\ InPicture =>
           Address = BytesFetched(mode) * (Relative \div lines_per_row(mode)))
=============================================================================
