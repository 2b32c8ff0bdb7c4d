--------------------------- MODULE DrawLineProofs ----------------------------
(***************************************************************************)
(* Proofs about DrawLine, for every size of the picture, every set of      *)
(* modes and any number of disturbances: rows are in order, and characters *)
(* whole; and as long as the video memory has room for the rows that have  *)
(* been cut short, no byte is fetched from beyond it.                      *)
(***************************************************************************)
EXTENDS DrawLine, TLAPS

(* The tables of mc6847.c, for all sixteen modes. *)
LEMMA LinesPerRow ==
  ASSUME NEW m \in 0 .. 15
  PROVE  lines_per_row(m) \in {2, 4, 6, 24}
<1>1. m \div 2 + 1 \in 1 .. 8
  OBVIOUS
<1>2. \A i \in 1 .. 8 : lines_per_row_lookup[i] \in {2, 4, 6}
  BY DEF lines_per_row_lookup
<1>3. QED
  BY <1>1, <1>2 DEF lines_per_row

LEMMA Width ==
  ASSUME NEW m \in 0 .. 15
  PROVE  get_width(m) \in {32, 64, 128, 256}
<1>1. (m + 1) \div 2 + 1 \in 1 .. 9
  OBVIOUS
<1>2. \A i \in 1 .. 9 : width_lookup[i] \in {32, 64, 128, 256}
  BY DEF width_lookup
<1>3. QED
  BY <1>1, <1>2 DEF get_width

(* A row is as long as the bytes fetched for it. *)
LEMMA BytesPerRow ==
  ASSUME NEW m \in 0 .. 15
  PROVE  /\ bytes_per_row(m) \in {8, 4, 16, 32, 64}
         /\ BytesFetched(m) = bytes_per_row(m)
  BY Width DEF bytes_per_row, BytesFetched

LEMMA Geometry ==
  /\ MODE_V_ACTIVE_LINES \in Nat
  /\ max_height \in Nat
  /\ vertical_offset \in Nat
  /\ vertical_offset >= 1
  /\ vertical_offset + max_height < MODE_V_ACTIVE_LINES
  BY DrawAssumption DEF vertical_offset

LEMMA NextLineType ==
  ASSUME line_num \in Lines, NextLine
  PROVE  /\ line_num' \in Lines
         /\ line_num' = IF line_num = MODE_V_ACTIVE_LINES - 1 THEN 0
                        ELSE line_num + 1
<1>1. MODE_V_ACTIVE_LINES \in Nat /\ MODE_V_ACTIVE_LINES >= 1
  BY Geometry
<1>2. CASE line_num = MODE_V_ACTIVE_LINES - 1
  <2>1. MODE_V_ACTIVE_LINES % MODE_V_ACTIVE_LINES = 0
    BY <1>1
  <2>2. QED
    BY <1>1, <1>2, <2>1 DEF NextLine, Lines
<1>3. CASE line_num # MODE_V_ACTIVE_LINES - 1
  <2>1. line_num + 1 \in 0 .. MODE_V_ACTIVE_LINES - 1
    BY <1>1, <1>3 DEF Lines
  <2>2. (line_num + 1) % MODE_V_ACTIVE_LINES = line_num + 1
    BY <1>1, <2>1
  <2>3. QED
    BY <1>1, <1>3, <2>1, <2>2 DEF NextLine, Lines
<1>4. QED
  BY <1>2, <1>3

LEMMA ModeTypes ==
  ASSUME TypeOK
  PROVE  mode \in 0 .. 15 /\ prev_mode \in 0 .. 15
  BY DrawAssumption DEF TypeOK

LEMMA StepType == TypeOK /\ [Next]_vars => TypeOK'
<1> SUFFICES ASSUME TypeOK, [Next]_vars PROVE TypeOK'
  OBVIOUS
<1>1. CASE draw_line
  <2>1. line_num' \in Lines
    BY <1>1, NextLineType DEF draw_line, TypeOK
  <2>2. /\ mode' \in Modes /\ vga80' \in BOOLEAN
        /\ prev_mode' \in Modes \cup {0}
    BY <1>1, DrawAssumption DEF draw_line, TypeOK, screen, Advance
  <2>3. first_drawn' \in BOOLEAN /\ steady' \in BOOLEAN
    BY <1>1 DEF draw_line, TypeOK
  <2>4. lines_per_row(mode) \in {2, 4, 6, 24} /\ bytes_per_row(mode) \in Nat
    BY ModeTypes, LinesPerRow, BytesPerRow
  <2>5. RowStart.counter \in 1 .. 99 /\ RowStart.mem_reg \in Nat
    BY <2>4 DEF RowStart, TypeOK
  <2>6. counter' \in 1 .. 99 /\ mem_reg' \in Nat
    BY <1>1, <2>4, <2>5 DEF draw_line, Advance
  <2>7. cuts' \in 0 .. MaxCuts
    BY <1>1, DrawAssumption DEF draw_line, CountCut, TypeOK
  <2>8. QED
    BY <2>1, <2>2, <2>3, <2>6, <2>7 DEF TypeOK
<1>2. CASE do_text_vga80
  <2>1. line_num' \in Lines
    BY <1>2, NextLineType DEF do_text_vga80, TypeOK
  <2>2. first_drawn' \in BOOLEAN /\ steady' \in BOOLEAN
    BY <1>2 DEF do_text_vga80, TypeOK
  <2>3. QED
    BY <1>2, <2>1, <2>2, DrawAssumption
       DEF do_text_vga80, TypeOK, screen, statics
<1>3. CASE Skip
  <2>1. line_num' \in Lines
    BY <1>3, NextLineType DEF Skip, TypeOK
  <2>2. first_drawn' \in BOOLEAN /\ steady' \in BOOLEAN
    BY <1>3 DEF Skip, TypeOK
  <2>3. QED
    BY <1>3, <2>1, <2>2, DrawAssumption
       DEF Skip, TypeOK, screen, statics
<1>4. CASE ChangeScreen
  <2>1. vga80' \in BOOLEAN
    BY <1>4 DEF ChangeScreen, TypeOK
  <2>2. QED
    BY <1>4, <2>1 DEF ChangeScreen, TypeOK, statics, history
<1>5. CASE UNCHANGED vars
  BY <1>5 DEF vars, screen, statics, history, TypeOK
<1>6. QED
  BY <1>1, <1>2, <1>3, <1>4, <1>5 DEF Next

LEMMA InitType == Init => TypeOK
<1> SUFFICES ASSUME Init PROVE TypeOK
  OBVIOUS
<1>1. line_num \in Lines
  BY Geometry DEF Init, Lines
<1>2. vga80 \in BOOLEAN /\ first_drawn \in BOOLEAN /\ steady \in BOOLEAN
  BY DEF Init
<1>3. /\ mode \in Modes /\ prev_mode \in Modes \cup {0}
      /\ mem_reg \in Nat /\ counter \in 1 .. 99
      /\ cuts \in 0 .. MaxCuts
  BY DrawAssumption DEF Init
<1>4. QED
  BY <1>1, <1>2, <1>3 DEF TypeOK

(* Every variable keeps its type: in particular counter never gets past zero
   (draw_line tests it for equality only). *)
THEOREM TypeCorrect == Spec => []TypeOK
  BY InitType, StepType, PTL DEF Spec

-----------------------------------------------------------------------------
(* Division by the lines of a row. *)
LEMMA DivRow ==
  ASSUME NEW l \in {2, 4, 6, 24}, NEW row \in Nat, NEW k \in Nat, k < l
  PROVE  (l * row + k) \div l = row
<1>1. CASE l = 2
  BY <1>1
<1>2. CASE l = 4
  BY <1>2
<1>3. CASE l = 6
  BY <1>3
<1>4. CASE l = 24
  BY <1>4
<1>5. QED
  BY <1>1, <1>2, <1>3, <1>4

(* Within the picture of a steady frame, below its first line: mem_reg is the
   start of a row, and counter the lines of it that are left, the line that
   is due included. *)
AtRow(row) ==
  /\ mem_reg = bytes_per_row(prev_mode) * row
  /\ counter <= lines_per_row(prev_mode)
  /\ Relative = lines_per_row(prev_mode) * row + lines_per_row(prev_mode) - counter

RowInv ==
  steady /\ 0 < Relative /\ Relative < max_height => \E row \in Nat : AtRow(row)

IInv == TypeOK /\ RowInv

LEMMA InitRow == Init => RowInv
  BY DEF Init, RowInv

(* A line of the picture after the first. *)
LEMMA LaterLine ==
  ASSUME TypeOK, RowInv, draw_line, steady', 0 < Relative, Relative' < max_height,
         Relative' = Relative + 1
  PROVE  \E row \in Nat : AtRow(row)'
<1> DEFINE l == lines_per_row(mode)
           b == bytes_per_row(mode)
<1>1. steady /\ prev_mode = mode
  <2>1. Relative # -1
    BY Geometry DEF Relative, TypeOK, Lines
  <2>2. QED
    BY <2>1, Zenon DEF draw_line
<1>2. PICK row \in Nat : AtRow(row)
  BY <1>1, Geometry DEF RowInv, Relative, TypeOK, Lines
<1>3. l \in {2, 4, 6, 24} /\ b \in {8, 4, 16, 32, 64}
  BY ModeTypes, LinesPerRow, BytesPerRow
<1>4. /\ mem_reg = b * row /\ counter <= l
      /\ Relative = l * row + l - counter
  BY <1>1, <1>2 DEF AtRow
<1>5. RowStart.mem_reg = mem_reg /\ RowStart.counter = counter
  BY DEF RowStart
<1>6. counter \in Nat /\ counter >= 1
  BY DEF TypeOK
<1>7. mode' = mode
  BY DEF draw_line, screen
<1>8. CASE counter = 1
  <2>1. counter' = l /\ mem_reg' = mem_reg + b /\ prev_mode' = mode
    BY <1>1, <1>5, <1>8 DEF draw_line, Advance
  <2>2. mem_reg' = b * (row + 1)
    BY <2>1, <1>3, <1>4
  <2>3. Relative' = l * (row + 1) + l - counter'
    BY <2>1, <1>3, <1>4, <1>8
  <2>4. AtRow(row + 1)'
    BY <2>1, <2>2, <2>3, <1>3 DEF AtRow
  <2>5. QED
    BY <2>4
<1>9. CASE counter # 1
  <2>1. counter' = counter - 1 /\ mem_reg' = mem_reg /\ prev_mode' = prev_mode
    BY <1>1, <1>5, <1>6, <1>9 DEF draw_line, Advance
  <2>2. AtRow(row)'
    BY <2>1, <1>1, <1>3, <1>4, <1>6 DEF AtRow
  <2>3. QED
    BY <2>2
<1>10. QED
  BY <1>8, <1>9

(* The first line of the picture. *)
LEMMA FirstLine ==
  ASSUME TypeOK, draw_line, steady', Relative = 0, Relative' = 1
  PROVE  AtRow(0)'
<1> DEFINE l == lines_per_row(mode)
<1>1. prev_mode = mode
  <2>1. Relative # -1
    OBVIOUS
  <2>2. QED
    BY <2>1, Zenon DEF draw_line
<1>2. l \in {2, 4, 6, 24} /\ bytes_per_row(mode) \in {8, 4, 16, 32, 64}
  BY ModeTypes, LinesPerRow, BytesPerRow
<1>3. RowStart.mem_reg = 0 /\ RowStart.counter = l
  BY DEF RowStart
<1>4. counter' = l - 1 /\ mem_reg' = 0 /\ prev_mode' = prev_mode
  BY <1>1, <1>2, <1>3 DEF draw_line, Advance
<1>5. QED
  BY <1>1, <1>2, <1>4 DEF AtRow

LEMMA StepRow == IInv /\ [Next]_vars => RowInv'
<1> SUFFICES ASSUME TypeOK, RowInv, [Next]_vars,
                    steady', 0 < Relative', Relative' < max_height
             PROVE  \E row \in Nat : AtRow(row)'
  BY DEF IInv, RowInv
<1>1. CASE draw_line
  <2>1. Relative' = Relative + 1 /\ 0 <= Relative
    BY <1>1, NextLineType, Geometry DEF draw_line, TypeOK, Relative, Lines
  <2>2. CASE Relative = 0
    BY <1>1, <2>1, <2>2, FirstLine
  <2>3. CASE Relative > 0
    BY <1>1, <2>1, <2>3, LaterLine
  <2>4. Relative \in Int
    BY Geometry DEF Relative, TypeOK, Lines
  <2>5. QED
    BY <2>1, <2>2, <2>3, <2>4
<1>2. CASE do_text_vga80 \/ Skip
  BY <1>2 DEF do_text_vga80, Skip
<1>3. CASE ChangeScreen \/ UNCHANGED vars
  <2>1. UNCHANGED <<line_num, prev_mode, mem_reg, counter, steady>>
    BY <1>3 DEF ChangeScreen, vars, statics, history
  <2>2. PICK row \in Nat : AtRow(row)
    BY <2>1 DEF RowInv, Relative
  <2>3. AtRow(row)'
    BY <2>1, <2>2 DEF AtRow, Relative
  <2>4. QED
    BY <2>3
<1>4. QED
  BY <1>1, <1>2, <1>3 DEF Next

LEMMA RowsFromInv == IInv => RowsInOrder
<1> SUFFICES ASSUME TypeOK, RowInv, OnTrack
             PROVE  Address = BytesFetched(mode) * (Relative \div lines_per_row(mode))
  BY DEF IInv, RowsInOrder
<1> DEFINE l == lines_per_row(mode)
           b == bytes_per_row(mode)
<1>1. l \in {2, 4, 6, 24} /\ b \in {8, 4, 16, 32, 64} /\ BytesFetched(mode) = b
  BY ModeTypes, LinesPerRow, BytesPerRow
<1>2. CASE Relative = 0
  <2>1. 0 \div l = 0
    BY <1>1
  <2>2. Address = 0
    BY <1>2 DEF Address, RowStart
  <2>3. QED
    BY <1>1, <1>2, <2>1, <2>2
<1>3. CASE Relative # 0
  <2>1. 0 < Relative /\ Relative < max_height
    BY <1>3, Geometry DEF OnTrack, InPicture, Relative, TypeOK, Lines
  <2>2. PICK row \in Nat : AtRow(row)
    BY <2>1 DEF RowInv, OnTrack
  <2>3. /\ mem_reg = b * row
        /\ Relative = l * row + (l - counter)
        /\ l - counter \in Nat /\ l - counter < l
    BY <1>1, <2>2 DEF AtRow, OnTrack, TypeOK
  <2>4. Relative \div l = row
    BY <1>1, <2>3, DivRow
  <2>5. Address = mem_reg
    BY <1>3 DEF Address, RowStart
  <2>6. QED
    BY <1>1, <2>3, <2>4, <2>5
<1>4. QED
  BY <1>2, <1>3

(* Types and rows together are the inductive invariant of draw_line. *)
THEOREM Inductive == Spec => []IInv
<1>1. IInv /\ [Next]_vars => IInv'
  BY StepType, StepRow DEF IInv
<1>2. Init => IInv
  BY InitType, InitRow DEF IInv
<1>3. QED
  BY <1>1, <1>2, PTL DEF Spec

(* In a frame whose mode has not changed since the line above the picture,
   and in which no line was skipped, draw_line shows the rows of the video
   memory one after the other, each for the lines of a row of the mode. *)
THEOREM RowsCorrect == Spec => []RowsInOrder
  BY Inductive, RowsFromInv, PTL

(* And the line within a character that do_text computes from the line number
   belongs to the row of characters that the address points at. *)
THEOREM CharactersCorrect == Spec => []CharactersWhole
<1>1. IInv => CharactersWhole
  <2> SUFFICES ASSUME IInv, OnTrack, InText(mode)
               PROVE  Address = 32 * CharacterRow
    BY DEF CharactersWhole
  <2>1. Address = BytesFetched(mode) * (Relative \div lines_per_row(mode))
    BY RowsFromInv DEF RowsInOrder
  <2>2. BytesFetched(mode) = 32 /\ lines_per_row(mode) = 24
    BY DEF BytesFetched, lines_per_row
  <2>3. Relative \in Nat
    BY Geometry DEF IInv, OnTrack, InPicture, Relative, TypeOK, Lines
  <2>4. (Relative \div 2) \div 12 = Relative \div 24
    BY <2>3
  <2>5. QED
    BY <2>1, <2>2, <2>4, DrawAssumption DEF CharacterRow
<1>2. QED
  BY <1>1, Inductive, PTL

-----------------------------------------------------------------------------
(* No mode has 256 pixels of more than one bit. *)
LEMMA RowIsShort ==
  ASSUME NEW m \in 0 .. 15
  PROVE  bytes_per_row(m) \in 0 .. 32 /\ BytesFetched(m) \in 0 .. 32
<1>1. get_width(m) = 256 => m = 15
  <2>1. (m + 1) \div 2 + 1 \in 1 .. 9 /\ ((m + 1) \div 2 + 1 = 9 => m = 15)
    OBVIOUS
  <2>2. \A i \in 1 .. 8 : width_lookup[i] # 256
    BY DEF width_lookup
  <2>3. QED
    BY <2>1, <2>2 DEF get_width
<1>2. ~is_colour(15)
  BY DEF is_colour
<1>3. BytesFetched(m) = bytes_per_row(m)
  BY BytesPerRow
<1>4. CASE InText(m)
  BY <1>3, <1>4 DEF bytes_per_row
<1>5. CASE ~InText(m) /\ is_colour(m)
  BY <1>1, <1>2, <1>3, <1>5, Width DEF bytes_per_row
<1>6. CASE ~InText(m) /\ ~is_colour(m)
  BY <1>3, <1>6, Width DEF bytes_per_row
<1>7. QED
  BY <1>4, <1>5, <1>6

(* How far mem_reg can be: every line takes it 16 bytes further at most, and
   each of the rows that a change of mode has cut short, another 16, if they
   have all been counted. *)
Moved ==
  /\ counter <= lines_per_row(prev_mode)
  /\ mem_reg <= 16 * (Relative - (lines_per_row(prev_mode) - counter)) + 16 * cuts

MemInv ==
  first_drawn => line_num = 0 \/ (Relative > 0 /\ (cuts < MaxCuts => Moved))

(* At the start nothing has moved yet. *)
LEMMA InitMem == Init => MemInv
  BY Zenon DEF Init, MemInv

(* A row is no longer than 16 bytes for each line it is shown in. *)
LEMMA RowIsDense ==
  ASSUME NEW m \in 0 .. 15
  PROVE  bytes_per_row(m) <= 16 * lines_per_row(m)
  BY RowIsShort, LinesPerRow

(* The first line of the picture, and a later one. *)
LEMMA FirstMoves ==
  ASSUME TypeOK, draw_line, Relative = 0, Relative' = 1, cuts' < MaxCuts
  PROVE  Moved'
<1> DEFINE l == lines_per_row(mode)
<1>1. l \in {2, 4, 6, 24} /\ bytes_per_row(mode) \in 0 .. 32
  BY ModeTypes, LinesPerRow, RowIsShort
<1>2. RowStart.mem_reg = 0 /\ RowStart.counter = l
  BY DEF RowStart
<1>3. CASE prev_mode = mode
  <2>1. counter' = l - 1 /\ mem_reg' = 0 /\ prev_mode' = mode
    BY <1>1, <1>2, <1>3 DEF draw_line, Advance
  <2>2. cuts' = 0
    BY <1>3 DEF draw_line, CountCut
  <2>3. QED
    BY <1>1, <2>1, <2>2 DEF Moved
<1>4. CASE prev_mode # mode
  <2>1. counter' = l /\ mem_reg' = bytes_per_row(mode) /\ prev_mode' = mode
    BY <1>1, <1>2, <1>4 DEF draw_line, Advance
  <2>2. cuts' = 1
    BY <1>4, DrawAssumption DEF draw_line, CountCut
  <2>3. QED
    BY <1>1, <2>1, <2>2 DEF Moved
<1>5. QED
  BY <1>3, <1>4

(* The end of draw_line moves mem_reg by no more than MemInv allows for. *)
LEMMA LaterMoves ==
  ASSUME TypeOK, draw_line, Relative > 0, Relative \in Int,
         Relative' = Relative + 1, cuts' < MaxCuts, cuts < MaxCuts => Moved
  PROVE  Moved'
<1> DEFINE l == lines_per_row(mode)
           b == bytes_per_row(mode)
<1>1. /\ l \in {2, 4, 6, 24} /\ b \in 0 .. 32
      /\ lines_per_row(prev_mode) \in {2, 4, 6, 24}
  BY ModeTypes, LinesPerRow, RowIsShort
<1>2. RowStart.mem_reg = mem_reg /\ RowStart.counter = counter
  BY DEF RowStart
<1>3. /\ mem_reg \in Nat /\ counter \in Nat /\ counter >= 1
      /\ cuts \in Nat /\ MaxCuts \in Nat
  BY DrawAssumption DEF TypeOK
<1>4. cuts' = IF prev_mode # mode /\ cuts < MaxCuts THEN cuts + 1 ELSE cuts
  BY DEF draw_line, CountCut
<1>5. cuts < MaxCuts /\ Moved
  BY <1>3, <1>4
<1>6. CASE prev_mode # mode
  <2>1. counter' = l /\ mem_reg' = mem_reg + b /\ prev_mode' = mode
    BY <1>2, <1>6 DEF draw_line, Advance
  <2>2. cuts' = cuts + 1
    BY <1>4, <1>5, <1>6
  <2>3. mem_reg <= 16 * Relative + 16 * cuts
    BY <1>1, <1>3, <1>5 DEF Moved
  <2>4. mem_reg' <= 16 * Relative' + 16 * cuts'
    BY <1>1, <1>3, <2>1, <2>2, <2>3
  <2>5. QED
    BY <1>1, <2>1, <2>4 DEF Moved
<1>7. CASE prev_mode = mode /\ counter = 1
  <2>1. counter' = l /\ mem_reg' = mem_reg + b /\ prev_mode' = mode /\ cuts' = cuts
    BY <1>2, <1>4, <1>7 DEF draw_line, Advance
  <2>2. b <= 16 * l
    BY ModeTypes, RowIsDense
  <2>3. mem_reg' <= 16 * Relative' + 16 * cuts'
    BY <1>1, <1>3, <1>5, <1>7, <2>1, <2>2 DEF Moved
  <2>4. QED
    BY <1>1, <2>1, <2>3 DEF Moved
<1>8. CASE prev_mode = mode /\ counter # 1
  <2>1. /\ counter' = counter - 1 /\ mem_reg' = mem_reg /\ cuts' = cuts
        /\ prev_mode' = prev_mode
    BY <1>2, <1>3, <1>4, <1>8 DEF draw_line, Advance
  <2>2. QED
    BY <1>1, <1>3, <1>5, <2>1 DEF Moved
<1>9. QED
  BY <1>6, <1>7, <1>8

(* Every step keeps the bound. *)
LEMMA StepMem == TypeOK /\ MemInv /\ [Next]_vars => MemInv'
<1> SUFFICES ASSUME TypeOK, MemInv, [Next]_vars, first_drawn', line_num' # 0
             PROVE  Relative' > 0 /\ (cuts' < MaxCuts => Moved')
  BY DEF MemInv
<1>1. /\ Relative \in Int /\ (Relative > 0 \/ Relative = 0 => line_num # 0)
      /\ vertical_offset \in Nat
  BY Geometry DEF Relative, TypeOK, Lines
<1>2. ASSUME NextLine PROVE Relative' = Relative + 1
  BY <1>2, NextLineType, Geometry DEF TypeOK, Relative, Lines
<1>3. CASE draw_line
  <2>1. Relative' = Relative + 1
    BY <1>2, <1>3 DEF draw_line
  <2>2. CASE Relative = 0
    BY <1>3, <2>1, <2>2, FirstMoves
  <2>3. CASE Relative # 0
    <3>1. first_drawn /\ line_num # 0
      BY <1>3, <2>3, Zenon DEF draw_line, FirstOfFrame
    <3>2. Relative > 0 /\ (cuts < MaxCuts => Moved)
      BY <3>1 DEF MemInv
    <3>3. QED
      BY <1>1, <1>3, <2>1, <3>2, LaterMoves
  <2>4. QED
    BY <2>2, <2>3
<1>4. CASE do_text_vga80 \/ Skip
  <2>1. first_drawn /\ line_num # 0
    BY <1>4, Zenon DEF do_text_vga80, Skip, FirstOfFrame
  <2>2. /\ prev_mode' = prev_mode /\ cuts' = cuts
        /\ mem_reg' = mem_reg /\ counter' = counter
    BY <1>4 DEF do_text_vga80, Skip, statics
  <2>3. Relative' = Relative + 1
    BY <1>2, <1>4 DEF do_text_vga80, Skip
  <2>4. Relative > 0 /\ (cuts < MaxCuts => Moved)
    BY <2>1 DEF MemInv
  <2>5. lines_per_row(prev_mode) \in Nat
    BY ModeTypes, LinesPerRow
  <2>6. lines_per_row(prev_mode)' = lines_per_row(prev_mode)
    BY <2>2
  <2>7. PICK r \in Int, l \in Nat, c \in Nat, x \in Nat, n \in Nat :
          /\ Relative = r /\ lines_per_row(prev_mode) = l /\ counter = c
          /\ mem_reg = x /\ cuts = n
    BY <1>1, <2>5 DEF TypeOK
  <2>8. x <= 16 * (r - (l - c)) + 16 * n => x <= 16 * (r + 1 - (l - c)) + 16 * n
    OBVIOUS
  <2>9. Moved => Moved'
    BY <2>2, <2>3, <2>6, <2>7, <2>8 DEF Moved
  <2>10. QED
    BY <1>1, <2>2, <2>3, <2>4, <2>9
<1>5. CASE ChangeScreen \/ UNCHANGED vars
  <2>1. /\ line_num' = line_num /\ first_drawn' = first_drawn /\ cuts' = cuts
        /\ prev_mode' = prev_mode /\ mem_reg' = mem_reg /\ counter' = counter
    BY <1>5 DEF ChangeScreen, vars, statics, history
  <2>2. Relative' = Relative
    BY <2>1 DEF Relative
  <2>3. Relative > 0 /\ (cuts < MaxCuts => Moved)
    BY <2>1 DEF MemInv
  <2>4. Moved => Moved'
    BY <2>1, <2>2 DEF Moved
  <2>5. QED
    BY <2>1, <2>2, <2>3, <2>4
<1>6. QED
  BY <1>3, <1>4, <1>5 DEF Next

(* If the first line of the picture was drawn, no line of it is fetched from
   beyond the video memory, as long as it has room for the rows that changes
   of mode have cut short in this frame. *)
THEOREM BytesAreInMemory == Spec => []InVideoMemory
<1>1. TypeOK /\ MemInv => InVideoMemory
  <2> SUFFICES ASSUME TypeOK, MemInv, InPicture, first_drawn, Room
               PROVE  Address + BytesFetched(mode) <= VID_MEM_SIZE
    BY DEF InVideoMemory
  <2>1. /\ Relative \in Int /\ Relative <= max_height - 1 /\ max_height \in Nat
        /\ line_num # 0
    BY Geometry DEF InPicture, Relative, TypeOK, Lines
  <2>2. BytesFetched(mode) \in 0 .. 32
    BY ModeTypes, RowIsShort
  <2>3. cuts \in Nat /\ VID_MEM_SIZE \in Nat /\ mem_reg \in Nat /\ counter \in Nat
    BY DrawAssumption DEF TypeOK
  <2>4. Relative > 0 /\ Moved
    BY <2>1 DEF MemInv, Room
  <2>5. lines_per_row(prev_mode) \in Nat
    BY ModeTypes, LinesPerRow
  <2>6. mem_reg <= 16 * Relative + 16 * cuts
    BY <2>1, <2>3, <2>4, <2>5 DEF Moved
  <2>7. Address = mem_reg
    BY <2>4 DEF Address, RowStart
  <2>8. QED
    BY <2>1, <2>2, <2>3, <2>6, <2>7 DEF Room
<1>2. QED
  BY InitType, StepType, InitMem, StepMem, <1>1, PTL DEF Spec

(* For the 640 pixels of mc6847.c, and lines of any number: every mode, and the
   80 column screen, writes a whole line of pixels and none beyond it. *)
THEOREM LinesAreFilled ==
  ASSUME MODE_H_ACTIVE_PIXELS = 640
  PROVE  Spec => []LineFilled
<1>1. horizontal_offset = 64
  BY DrawAssumption DEF horizontal_offset, max_width
<1>2. ASSUME NEW m \in 0 .. 15 PROVE PixelsWritten(m) = 640
  <2>1. CASE InText(m)
    BY <1>1, <2>1 DEF PixelsWritten
  <2>2. CASE ~InText(m)
    <3>1. get_width(m) \in {64, 128, 256}
      <4>1. (m + 1) \div 2 + 1 \in 2 .. 9
        BY <2>2 DEF InText
      <4>2. \A i \in 2 .. 9 : width_lookup[i] \in {64, 128, 256}
        BY DEF width_lookup
      <4>3. QED
        BY <4>1, <4>2 DEF get_width
    <3>2. get_width(m) = 256 => ~is_colour(m)
      <4>1. (m + 1) \div 2 + 1 \in 1 .. 9 /\ ((m + 1) \div 2 + 1 = 9 => m = 15)
        OBVIOUS
      <4>2. \A i \in 1 .. 8 : width_lookup[i] # 256
        BY DEF width_lookup
      <4>3. QED
        BY <4>1, <4>2 DEF get_width, is_colour
    <3>3. get_width(m) * PixelWidth(m) = 512
      BY <3>1, <3>2 DEF PixelWidth
    <3>4. QED
      BY <1>1, <2>2, <3>3 DEF PixelsWritten
  <2>3. QED
    BY <2>1, <2>2
<1>3. PixelsOfText80 = 640
  BY DEF PixelsOfText80
<1>4. LineFilled
  BY <1>2, <1>3 DEF LineFilled
<1>5. QED
  BY <1>4, PTL
=============================================================================
