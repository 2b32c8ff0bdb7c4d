---------------------------- MODULE TeletextRow ----------------------------
(***************************************************************************)
(* One row of teletext (the loop over columns in do_teletext): control     *)
(* codes change how what follows is shown, some of them from their own     *)
(* column on ("set at") and others from the next one on ("set after").     *)
(* The code works on a record of attributes, column by column; below it is *)
(* a reference definition that gives for each column the codes that count. *)
(*                                                                         *)
(* Of the characters there are a capital letter, which looks the same in   *)
(* graphics mode, and a mosaic, which is shown as a character without it.  *)
(***************************************************************************)
EXTENDS Integers, SequencesExt

Alphas    == {"ALPHA_RED", "ALPHA_WHITE"}
Graphics  == {"GRAPHICS_RED", "GRAPHICS_WHITE"}
Printable == {"letter", "mosaic"}
Chars ==
  Printable \cup Alphas \cup Graphics \cup
  {"FLASH", "STEADY", "NORMAL_HEIGHT", "DOUBLE_HEIGHT", "CONCEAL_DISPLAY",
   "CONTIGUOUS_GRAPHICS", "SEPARATED_GRAPHICS", "BLACK_BACKGROUND",
   "NEW_BACKGROUND", "HOLD_GRAPHICS", "RELEASE_GRAPHICS"}

Colour(ch) == IF ch \in {"ALPHA_RED", "GRAPHICS_RED"} THEN "red" ELSE "white"

-----------------------------------------------------------------------------
(* The attributes at the start of a row, which may be the lower half of a
   double row.  last_graph_bitmap is the mosaic that is held, or "space". *)
RowStart(second_double) ==
  [second_double |-> second_double,
   fg_colour |-> "white", bg_colour |-> "black", graphics |-> FALSE,
   flash |-> FALSE, conceal |-> FALSE, double_height |-> FALSE,
   separated_graphics |-> FALSE, hold_graphics |-> FALSE,
   last_graph_bitmap |-> "space"]

Height(a, double) ==
  [a EXCEPT !.double_height = double,
            !.last_graph_bitmap = IF a.double_height = double THEN @ ELSE "space"]

PreRender(a, ch) ==
  CASE ch = "NORMAL_HEIGHT"    -> Height(a, FALSE)
    [] ch = "DOUBLE_HEIGHT"    -> Height(a, TRUE)
    [] ch = "BLACK_BACKGROUND" -> [a EXCEPT !.bg_colour = "black"]
    [] ch = "NEW_BACKGROUND"   -> [a EXCEPT !.bg_colour = a.fg_colour]
    [] ch = "HOLD_GRAPHICS"    -> [a EXCEPT !.hold_graphics = TRUE]
    [] OTHER                   -> a

lookup_graphic(a) ==
  IF a.second_double THEN "space"
  ELSE IF a.separated_graphics THEN "separated" ELSE "solid"

(* A lower half shows nothing of characters that are not tall. *)
lookup_character(a) ==
  IF a.double_height THEN "tall"
  ELSE IF a.second_double THEN "space" ELSE "character"

Shown(a, ch) ==
  IF ch \notin Printable
  THEN IF a.hold_graphics THEN a.last_graph_bitmap ELSE "space"
  ELSE IF a.graphics /\ ch = "mosaic" THEN lookup_graphic(a)
  ELSE lookup_character(a)

Keep(a, ch) ==
  IF a.graphics /\ ch = "mosaic"
  THEN [a EXCEPT !.last_graph_bitmap = lookup_graphic(a)] ELSE a

(* (In the faulty variant the mosaic is held across a change to letters.) *)
PostColourHeld(a, ch, graphics) ==
  [a EXCEPT !.fg_colour = Colour(ch), !.conceal = FALSE, !.graphics = graphics]

PostColour(a, ch, graphics) ==
  [a EXCEPT !.fg_colour = Colour(ch), !.conceal = FALSE, !.graphics = graphics,
            !.last_graph_bitmap = IF a.graphics = graphics THEN @ ELSE "space"]

PostRender(a, ch) ==
  CASE ch \in Alphas                -> PostColour(a, ch, FALSE)
    [] ch \in Graphics              -> PostColour(a, ch, TRUE)
    [] ch = "FLASH"                 -> [a EXCEPT !.flash = TRUE]
    [] ch = "STEADY"                -> [a EXCEPT !.flash = FALSE]
    [] ch = "CONCEAL_DISPLAY"       -> [a EXCEPT !.conceal = TRUE]
    [] ch = "CONTIGUOUS_GRAPHICS"   -> [a EXCEPT !.separated_graphics = FALSE]
    [] ch = "SEPARATED_GRAPHICS"    -> [a EXCEPT !.separated_graphics = TRUE]
    [] ch = "RELEASE_GRAPHICS"      -> [a EXCEPT !.hold_graphics = FALSE]
    [] OTHER                        -> a

(* A column that flashes is blank while flash_now, one that is concealed until
   it is revealed. *)
Cell(a, ch) ==
  [fg |-> a.fg_colour, bg |-> a.bg_colour, bitmap |-> Shown(a, ch),
   flash |-> a.flash, conceal |-> a.conceal]

Column(a, ch) ==
  LET b == PreRender(a, ch) IN PostRender(Keep(b, ch), ch)

(* The attributes after each column, or at the start of the row. *)
Attributes(chars, second_double) ==
  LET after[i \in 0 .. Len(chars)] ==
        IF i = 0 THEN RowStart(second_double) ELSE Column(after[i - 1], chars[i])
  IN  after

DrawRow(chars, second_double) ==
  [i \in 1 .. Len(chars) |->
     Cell(PreRender(Attributes(chars, second_double)[i - 1], chars[i]), chars[i])]

-----------------------------------------------------------------------------
(* DrawRow in terms of the codes: what is shown at column i depends on the last
   of some codes up to that column, or before it. *)
LastOf(chars, codes, i) ==
  LET S == {j \in 1 .. i : chars[j] \in codes} IN IF S = {} THEN 0 ELSE Max(S)

Is(chars, j, codes) == j > 0 /\ chars[j] \in codes

FgAt(chars, i) ==
  LET j == LastOf(chars, Alphas \cup Graphics, i - 1)
  IN  IF j = 0 THEN "white" ELSE Colour(chars[j])

BgAt(chars, i) ==
  LET j == LastOf(chars, {"BLACK_BACKGROUND", "NEW_BACKGROUND"}, i)
  IN  IF Is(chars, j, {"NEW_BACKGROUND"}) THEN FgAt(chars, j) ELSE "black"

After(chars, set, reset, i) == Is(chars, LastOf(chars, set \cup reset, i - 1), set)

GraphicsAt(chars, i) == After(chars, Graphics, Alphas, i)

DoubleAt(chars, i) ==
  Is(chars, LastOf(chars, {"DOUBLE_HEIGHT", "NORMAL_HEIGHT"}, i), {"DOUBLE_HEIGHT"})

(* Hold is set at and released after its code. *)
HoldAt(chars, i) ==
  LastOf(chars, {"HOLD_GRAPHICS"}, i) > LastOf(chars, {"RELEASE_GRAPHICS"}, i - 1)

MosaicAt(chars, i) ==
  IF After(chars, {"SEPARATED_GRAPHICS"}, {"CONTIGUOUS_GRAPHICS"}, i)
  THEN "separated" ELSE "solid"

(* The last mosaic, unless letters and graphics, or the heights, have changed
   since. *)
HeldAt(chars, i) ==
  LET mosaics == {j \in 1 .. i - 1 : chars[j] = "mosaic" /\ GraphicsAt(chars, j)}
      j       == Max(mosaics)
  IN  IF mosaics = {} THEN "space"
      ELSE IF \E k \in j + 1 .. i :
                \/ GraphicsAt(chars, k) # GraphicsAt(chars, k - 1)
                \/ DoubleAt(chars, k) # DoubleAt(chars, k - 1)
           THEN "space"
      ELSE MosaicAt(chars, j)

BitmapAt(chars, i) ==
  IF chars[i] \notin Printable
  THEN IF HoldAt(chars, i) THEN HeldAt(chars, i) ELSE "space"
  ELSE IF GraphicsAt(chars, i) /\ chars[i] = "mosaic" THEN MosaicAt(chars, i)
  ELSE IF DoubleAt(chars, i) THEN "tall" ELSE "character"

(* Of a lower half only what is tall can be seen. *)
Reference(chars, second_double) ==
  [i \in 1 .. Len(chars) |->
     [fg |-> FgAt(chars, i), bg |-> BgAt(chars, i),
      bitmap |-> IF second_double /\ BitmapAt(chars, i) # "tall"
                 THEN "space" ELSE BitmapAt(chars, i),
      flash   |-> After(chars, {"FLASH"}, {"STEADY"}, i),
      conceal |-> After(chars, {"CONCEAL_DISPLAY"}, Alphas \cup Graphics, i)]]
=============================================================================
