--------------------------- MODULE TeletextProofs ---------------------------
(***************************************************************************)
(* Proofs about Teletext.  For every number of rows and lines, next_double,*)
(* which remembers one row, knows the lower half of every double row.  For *)
(* every row of any length, the attributes that do_teletext carries along  *)
(* are those that the codes before each column ask for.                    *)
(***************************************************************************)
EXTENDS Teletext, WellFoundedInduction, TLAPS

H == TELETEXT_ROW_HEIGHT

LEMMA Sizes ==
  /\ MODE_V_ACTIVE_LINES \in Nat /\ TELETEXT_LINES \in Nat
  /\ MODE_V_ACTIVE_LINES >= 2 /\ MODE_V_ACTIVE_LINES >= TELETEXT_LINES
  /\ H \in Nat /\ H > 0
  /\ (MODE_V_ACTIVE_LINES - TELETEXT_LINES) \div 2 \in Nat
  BY TeletextAssumption DEF H

(* Division by the lines of a row. *)
LEMMA NextQuotient ==
  ASSUME NEW n \in Nat
  PROVE  /\ n \div H \in Nat
         /\ (n + 1) \div H \in {n \div H, n \div H + 1}
         /\ 0 \div H = 0
<1>1. H \in Nat /\ H > 0
  BY Sizes
<1> HIDE DEF H
<1> DEFINE q == n \div H
           p == (n + 1) \div H
           r == n % H
           s == (n + 1) % H
<1>2. /\ q \in Int /\ r \in 0 .. H - 1 /\ n = H * q + r
      /\ p \in Int /\ s \in 0 .. H - 1 /\ n + 1 = H * p + s
  BY <1>1
<1>3. 0 \div H = 0
  BY <1>1
<1> HIDE DEF q, p, r, s
<1>4. H * (p - q) = r + 1 - s
  BY <1>1, <1>2
<1>5. p - q < 2
  <2> SUFFICES ASSUME p - q >= 2 PROVE FALSE
    BY <1>2
  <2>1. H * (p - q) >= H * 2
    BY <1>1, <1>2
  <2>2. QED
    BY <1>1, <1>2, <1>4, <2>1
<1>6. p - q > -1
  <2> SUFFICES ASSUME p - q <= -1 PROVE FALSE
    BY <1>2
  <2>1. H * (p - q) <= H * (-1)
    BY <1>1, <1>2
  <2>2. QED
    BY <1>1, <1>2, <1>4, <2>1
<1>7. q >= 0
  <2> SUFFICES ASSUME q <= -1 PROVE FALSE
    BY <1>2
  <2>1. H * q <= H * (-1)
    BY <1>1, <1>2
  <2>2. QED
    BY <1>1, <1>2, <2>1
<1>8. q \in Nat /\ p \in {q, q + 1}
  BY <1>2, <1>5, <1>6, <1>7
<1>9. QED
  BY <1>3, <1>8 DEF q, p

(* A set of numbers has a least one, and one with a bound a greatest. *)
LEMMA Minimum ==
  ASSUME NEW S \in SUBSET Nat, S # {}
  PROVE  \E m \in S : \A n \in S : m <= n
<1>1. PICK m \in S : \A n \in S : ~ (<<n, m>> \in OpToRel(<, Nat))
  BY NatLessThanWellFounded, WFMin
<1>2. ASSUME NEW n \in S, n < m PROVE FALSE
  <2>1. <<n, m>> \in {ss \in Nat \X Nat : ss[1] < ss[2]}
    BY <1>2
  <2>2. <<n, m>> \in OpToRel(<, Nat)
    BY <2>1 DEF OpToRel
  <2>3. QED
    BY <1>1, <2>2
<1>3. QED
  BY <1>2

LEMMA Maximum ==
  ASSUME NEW b \in Nat, NEW S \in SUBSET (0 .. b), S # {}
  PROVE  Max(S) \in S /\ \A n \in S : Max(S) >= n
<1> DEFINE below == {b - n : n \in S}
<1>1. below \subseteq Nat /\ below # {}
  <2>1. ASSUME NEW n \in S PROVE b - n \in Nat
    OBVIOUS
  <2>2. PICK n \in S : TRUE
    OBVIOUS
  <2>3. b - n \in below
    OBVIOUS
  <2>4. QED
    BY <2>1, <2>3
<1> HIDE DEF below
<1>2. PICK x \in below : \A y \in below : x <= y
  BY <1>1, Minimum
<1>3. PICK m \in S : x = b - m
  BY DEF below
<1>4. ASSUME NEW n \in S PROVE m >= n
  <2>1. b - n \in below
    BY DEF below
  <2>2. QED
    BY <1>2, <1>3, <2>1
<1>5. QED
  BY <1>4 DEF Max

LEMMA MaximumIs ==
  ASSUME NEW b \in Nat, NEW S \in SUBSET (0 .. b), NEW m \in S, \A n \in S : m >= n
  PROVE  Max(S) = m
<1>1. Max(S) \in S /\ \A n \in S : Max(S) >= n
  BY Maximum
<1>2. \A x \in S : x \in Int
  OBVIOUS
<1>3. m \in Int /\ Max(S) \in Int
  BY <1>1, <1>2
<1>4. Max(S) >= m /\ m >= Max(S)
  BY <1>1
<1>5. QED
  BY <1>3, <1>4

-----------------------------------------------------------------------------
(* A row is a lower half if the row above it has the code and is not one
   itself. *)
Run(r) == {n \in 0 .. r : \A k \in 1 .. n : r - k \in doubles}

LEMMA RunMaximum ==
  ASSUME NEW r \in Nat
  PROVE  Max(Run(r)) \in Run(r) /\ \A n \in Run(r) : Max(Run(r)) >= n
<1>1. Run(r) \in SUBSET (0 .. r) /\ 0 \in Run(r)
  BY DEF Run
<1>2. QED
  BY <1>1, Maximum

LEMMA RunBegins ==
  ASSUME NEW r \in Nat, r \notin doubles
  PROVE  Max(Run(r + 1)) = 0
<1>1. ASSUME NEW n \in Run(r + 1), n # 0 PROVE FALSE
  <2>1. 1 \in 1 .. n
    BY <1>1 DEF Run
  <2>2. (r + 1) - 1 \in doubles
    BY <2>1 DEF Run
  <2>3. QED
    BY <2>2
<1>2. Max(Run(r + 1)) \in Run(r + 1)
  BY RunMaximum
<1>3. QED
  BY <1>1, <1>2

LEMMA RunGoesOn ==
  ASSUME NEW r \in Nat, r \in doubles
  PROVE  Max(Run(r + 1)) = Max(Run(r)) + 1
<1>1. ASSUME NEW n \in Run(r) PROVE n + 1 \in Run(r + 1)
  <2>1. n \in 0 .. r /\ \A k \in 1 .. n : r - k \in doubles
    BY DEF Run
  <2>2. ASSUME NEW k \in 1 .. n + 1 PROVE (r + 1) - k \in doubles
    <3>1. CASE k = 1
      BY <3>1
    <3>2. CASE k # 1
      <4>1. k - 1 \in 1 .. n /\ r - (k - 1) = (r + 1) - k
        BY <2>1, <3>2
      <4>2. QED
        BY <2>1, <4>1
    <3>3. QED
      BY <3>1, <3>2
  <2>3. QED
    BY <2>1, <2>2 DEF Run
<1>2. ASSUME NEW n \in Run(r + 1), n # 0 PROVE n - 1 \in Run(r)
  <2>1. n \in 1 .. r + 1 /\ \A k \in 1 .. n : (r + 1) - k \in doubles
    BY <1>2 DEF Run
  <2>2. ASSUME NEW k \in 1 .. n - 1 PROVE r - k \in doubles
    <3>1. k + 1 \in 1 .. n /\ (r + 1) - (k + 1) = r - k
      BY <2>1
    <3>2. QED
      BY <2>1, <3>1
  <2>3. QED
    BY <2>1, <2>2 DEF Run
<1> DEFINE m == Max(Run(r))
           l == Max(Run(r + 1))
<1>3. /\ m \in Run(r) /\ \A n \in Run(r) : m >= n
      /\ l \in Run(r + 1) /\ \A n \in Run(r + 1) : l >= n
  BY RunMaximum
<1>4. m \in Nat /\ l \in Nat
  BY <1>3 DEF Run
<1> HIDE DEF m, l
<1>5. l >= m + 1
  BY <1>1, <1>3
<1>6. m >= l - 1
  BY <1>2, <1>3, <1>4, <1>5
<1>7. l = m + 1
  BY <1>4, <1>5, <1>6
<1>8. QED
  BY <1>7 DEF m, l

LEMMA LowerHalfBelow ==
  ASSUME NEW r \in Nat
  PROVE  LowerHalf(r + 1) <=> r \in doubles /\ ~LowerHalf(r)
<1>1. LowerHalf(r) <=> Max(Run(r)) % 2 = 1
  BY DEF LowerHalf, Run
<1>2. LowerHalf(r + 1) <=> Max(Run(r + 1)) % 2 = 1
  BY DEF LowerHalf, Run
<1>3. Max(Run(r)) \in Nat
  BY RunMaximum DEF Run
<1>4. QED
  BY <1>1, <1>2, <1>3, RunBegins, RunGoesOn

LEMMA TopIsNotLower == ~LowerHalf(0)
<1>1. LowerHalf(0) <=> Max(Run(0)) % 2 = 1
  BY DEF LowerHalf, Run
<1>2. Max(Run(0)) = 0
  BY RunMaximum DEF Run
<1>3. QED
  BY <1>1, <1>2

-----------------------------------------------------------------------------
(* The lines of a frame. *)
Types ==
  /\ line_num \in Lines
  /\ next_double \in Int
  /\ steady \in BOOLEAN

LEMMA LineTypes ==
  ASSUME line_num \in Lines
  PROVE  /\ teletext_line_no \in Int
         /\ InPage => row \in Nat
         /\ StartOfPage => row = 0
<1>1. teletext_line_no \in Int
  BY Sizes DEF Lines, teletext_line_no
<1>2. InPage => teletext_line_no \div H \in Nat
  BY <1>1, NextQuotient DEF InPage
<1>3. QED
  BY <1>1, <1>2, NextQuotient DEF row, StartOfPage, H

(* The page begins with its first line, and its lines follow each other. *)
LEMMA NextLineIs ==
  ASSUME line_num \in Lines, NextLine
  PROVE  /\ line_num' \in Lines
         /\ InPage' /\ ~StartOfPage' =>
              InPage /\ teletext_line_no' = teletext_line_no + 1
<1> DEFINE offset == (MODE_V_ACTIVE_LINES - TELETEXT_LINES) \div 2
<1>1. /\ offset \in Nat /\ MODE_V_ACTIVE_LINES \in Nat
      /\ MODE_V_ACTIVE_LINES >= 1
      /\ line_num \in 0 .. MODE_V_ACTIVE_LINES - 1
      /\ TELETEXT_LINES \in Nat
  BY Sizes DEF Lines
<1>2. /\ teletext_line_no = line_num - offset
      /\ teletext_line_no' = line_num' - offset
  BY DEF teletext_line_no
<1> HIDE DEF offset
<1>3. CASE line_num = MODE_V_ACTIVE_LINES - 1
  <2>1. MODE_V_ACTIVE_LINES % MODE_V_ACTIVE_LINES = 0
    BY <1>1
  <2>2. line_num' = 0
    BY <1>1, <1>3, <2>1 DEF NextLine
  <2>3. QED
    BY <1>1, <1>2, <2>2 DEF Lines, InPage, StartOfPage
<1>4. CASE line_num # MODE_V_ACTIVE_LINES - 1
  <2>1. line_num + 1 \in 0 .. MODE_V_ACTIVE_LINES - 1
    BY <1>1, <1>4
  <2>2. (line_num + 1) % MODE_V_ACTIVE_LINES = line_num + 1
    BY <1>1, <2>1
  <2>3. line_num' = line_num + 1
    BY <2>2 DEF NextLine
  <2>4. QED
    BY <1>1, <1>2, <2>1, <2>3 DEF Lines, InPage, StartOfPage
<1>5. QED
  BY <1>3, <1>4

-----------------------------------------------------------------------------
(* The invariant: once a line of row r has been drawn, next_double is r if that
   is a lower half, r + 1 if the row below is one, and less otherwise. *)
Drawn(r) ==
  /\ next_double <= r + 1
  /\ next_double = r <=> LowerHalf(r)
  /\ next_double = r + 1 <=> r \in doubles /\ ~LowerHalf(r)

RowAbove == (teletext_line_no - 1) \div H

IInv ==
  /\ Types
  /\ steady /\ InPage /\ ~StartOfPage => Drawn(RowAbove)

(* So it knows the lower half when a line is drawn. *)
LEMMA KnowsLowerHalf ==
  ASSUME IInv, InPage, steady \/ StartOfPage
  PROVE  /\ row \in Nat /\ DoubleBefore \in Int
         /\ DoubleBefore <= row + 1
         /\ DoubleBefore = row <=> LowerHalf(row)
         /\ DoubleBefore = row + 1 => row \in doubles /\ ~LowerHalf(row)
<1>1. row \in Nat /\ teletext_line_no \in Int
  BY LineTypes DEF IInv, Types
<1>2. CASE StartOfPage
  <2>1. row = 0 /\ DoubleBefore = -1
    BY <1>2, LineTypes DEF IInv, Types, DoubleBefore
  <2>2. QED
    BY <2>1, TopIsNotLower
<1>3. CASE ~StartOfPage
  <2>1. DoubleBefore = next_double /\ next_double \in Int /\ Drawn(RowAbove)
    BY <1>3 DEF IInv, Types, DoubleBefore
  <2>2. teletext_line_no - 1 \in Nat
    BY <1>1, <1>3 DEF InPage, StartOfPage
  <2>3. RowAbove \in Nat /\ row \in {RowAbove, RowAbove + 1}
    BY <1>1, <2>2, NextQuotient DEF RowAbove, row, H
  <2>4. LowerHalf(RowAbove + 1) <=> RowAbove \in doubles /\ ~LowerHalf(RowAbove)
    BY <2>3, LowerHalfBelow
  <2>5. CASE row = RowAbove
    BY <1>1, <2>1, <2>5 DEF Drawn
  <2>6. CASE row = RowAbove + 1
    BY <1>1, <2>1, <2>3, <2>4, <2>6 DEF Drawn
  <2>7. QED
    BY <2>3, <2>5, <2>6
<1>4. QED
  BY <1>2, <1>3

LEMMA DrawStep ==
  ASSUME IInv, do_teletext
  PROVE  IInv'
<1>1. /\ line_num \in Lines /\ line_num' \in Lines
      /\ InPage' /\ ~StartOfPage' =>
           InPage /\ teletext_line_no' = teletext_line_no + 1
  BY NextLineIs DEF IInv, Types, do_teletext
<1>2. teletext_line_no \in Int /\ (InPage => row \in Nat)
  BY <1>1, LineTypes
<1>3. Types'
  <2>1. CASE InPage
    <3>1. /\ next_double' = IF StartsDouble THEN row + 1 ELSE DoubleBefore
          /\ steady' = (StartOfPage \/ steady)
      BY <2>1 DEF do_teletext
    <3>2. DoubleBefore \in Int
      BY DEF IInv, Types, DoubleBefore
    <3>3. next_double' \in Int
      BY <1>2, <2>1, <3>1, <3>2
    <3>4. steady' \in BOOLEAN
      BY <3>1
    <3>5. QED
      BY <1>1, <3>3, <3>4 DEF Types
  <2>2. CASE ~InPage
    <3>1. UNCHANGED <<next_double, steady>>
      BY <2>2 DEF do_teletext, statics
    <3>2. QED
      BY <1>1, <3>1 DEF IInv, Types
  <2>3. QED
    BY <2>1, <2>2
<1>4. ASSUME steady', InPage', ~StartOfPage' PROVE Drawn(RowAbove)'
  <2>1. InPage /\ RowAbove' = row
    BY <1>1, <1>2, <1>4 DEF RowAbove, row, H
  <2>2. /\ next_double' = IF StartsDouble THEN row + 1 ELSE DoubleBefore
        /\ steady \/ StartOfPage
        /\ doubles' = doubles
    BY <1>4, <2>1 DEF do_teletext
  <2>3. /\ row \in Nat /\ DoubleBefore \in Int
        /\ DoubleBefore <= row + 1
        /\ DoubleBefore = row <=> LowerHalf(row)
        /\ DoubleBefore = row + 1 => row \in doubles /\ ~LowerHalf(row)
    BY <2>1, <2>2, KnowsLowerHalf
  <2>4. \A r : LowerHalf(r)' <=> LowerHalf(r)
    BY <2>2 DEF LowerHalf
  <2>5. /\ next_double' <= row + 1
        /\ next_double' = row <=> LowerHalf(row)
        /\ next_double' = row + 1 <=> row \in doubles /\ ~LowerHalf(row)
    BY <2>2, <2>3 DEF StartsDouble
  <2>6. QED
    BY <2>1, <2>2, <2>4, <2>5 DEF Drawn
<1>5. QED
  BY <1>3, <1>4 DEF IInv

LEMMA StepInv == IInv /\ [Next]_vars => IInv'
<1> SUFFICES ASSUME IInv, [Next]_vars PROVE IInv'
  OBVIOUS
<1>1. CASE do_teletext
  BY <1>1, DrawStep
<1>2. CASE Skip
  BY <1>2, NextLineIs DEF IInv, Types, Skip, Disturb, statics
<1>3. CASE WriteRow
  BY <1>3 DEF IInv, Types, WriteRow, Disturb, statics
<1>4. CASE UNCHANGED vars
  <2>1. UNCHANGED <<line_num, next_double, doubles, steady>>
    BY <1>4 DEF vars, statics
  <2>2. QED
    BY <2>1 DEF IInv, Types, InPage, StartOfPage, RowAbove, Drawn, LowerHalf,
                teletext_line_no
<1>5. QED
  BY <1>1, <1>2, <1>3, <1>4 DEF Next

LEMMA InitInv == Init => IInv
<1> SUFFICES ASSUME Init PROVE IInv
  OBVIOUS
<1>1. 1 \in Lines
  BY Sizes DEF Lines
<1>2. line_num \in Lines
  BY <1>1 DEF Init
<1>3. next_double \in Int
  BY DEF Init
<1>4. steady \in BOOLEAN /\ ~steady
  BY DEF Init
<1>5. QED
  BY <1>2, <1>3, <1>4, Zenon DEF IInv, Types

(* Each line of a frame in which nothing was written or skipped shows its row
   as the half it is, however long the runs of double rows (do_teletext). *)
THEOREM HalvesAreRight == Spec => []HalvesMatch
<1>1. IInv => HalvesMatch
  BY KnowsLowerHalf DEF HalvesMatch, HalvesRight
<1>2. QED
  BY InitInv, StepInv, <1>1, PTL DEF Spec

-----------------------------------------------------------------------------
(* The columns of a row.  The last of some codes, as the row goes on. *)
LEMMA LastOfType ==
  ASSUME NEW chars, NEW codes, NEW n \in Nat
  PROVE  /\ LastOf(chars, codes, n) \in 0 .. n
         /\ LastOf(chars, codes, n) # 0 => chars[LastOf(chars, codes, n)] \in codes
<1> DEFINE S == {j \in 1 .. n : chars[j] \in codes}
<1>1. CASE S = {}
  BY <1>1 DEF LastOf
<1>2. CASE S # {}
  <2>1. Max(S) \in S
    <3>1. S \in SUBSET (0 .. n)
      OBVIOUS
    <3>2. QED
      BY <1>2, <3>1, Maximum
  <2>2. QED
    BY <1>2, <2>1 DEF LastOf
<1>3. QED
  BY <1>1, <1>2

(* The last of the first n + 1 columns that has a code is column n + 1, or the
   last of the first n. *)
LEMMA LastOfNext ==
  ASSUME NEW chars, NEW codes, NEW n \in Nat
  PROVE  /\ chars[n + 1] \in codes => LastOf(chars, codes, n + 1) = n + 1
         /\ chars[n + 1] \notin codes =>
              LastOf(chars, codes, n + 1) = LastOf(chars, codes, n)
<1> DEFINE S(k) == {j \in 1 .. k : chars[j] \in codes}
<1>1. CASE chars[n + 1] \in codes
  <2>1. n + 1 \in S(n + 1) /\ \A j \in S(n + 1) : n + 1 >= j
    BY <1>1
  <2>2. S(n + 1) \in SUBSET (0 .. n + 1) /\ n + 1 \in Nat
    OBVIOUS
  <2>3. Max(S(n + 1)) = n + 1
    BY <2>1, <2>2, MaximumIs
  <2>4. QED
    BY <1>1, <2>1, <2>3 DEF LastOf
<1>2. CASE chars[n + 1] \notin codes
  <2>1. S(n + 1) = S(n)
    BY <1>2
  <2>2. QED
    BY <1>2, <2>1 DEF LastOf
<1>3. QED
  BY <1>1, <1>2

(* So with codes that set or reset an attribute from the column after them on. *)
LEMMA AfterNext ==
  ASSUME NEW chars, NEW set, NEW reset, NEW n \in Nat
  PROVE  /\ chars[n + 1] \in set => After(chars, set, reset, n + 2) = TRUE
         /\ chars[n + 1] \in reset \ set => After(chars, set, reset, n + 2) = FALSE
         /\ chars[n + 1] \notin set \cup reset =>
              After(chars, set, reset, n + 2) = After(chars, set, reset, n + 1)
         /\ After(chars, set, reset, 1) = FALSE
<1> DEFINE last(k) == Is(chars, LastOf(chars, set \cup reset, k), set)
<1>1. /\ After(chars, set, reset, n + 2) = last(n + 1)
      /\ After(chars, set, reset, n + 1) = last(n)
      /\ After(chars, set, reset, 1) = last(0)
  <2>1. (n + 2) - 1 = n + 1 /\ (n + 1) - 1 = n /\ 1 - 1 = 0
    OBVIOUS
  <2>2. QED
    BY <2>1, Zenon DEF After
<1>2. After(chars, set, reset, 1) = FALSE
  <2>1. LastOf(chars, set \cup reset, 0) = 0
    BY LastOfType
  <2>2. ~last(0)
    BY <2>1 DEF Is
  <2>3. QED
    BY <1>1, <2>2
<1>3. CASE chars[n + 1] \in set \cup reset
  <2>1. LastOf(chars, set \cup reset, n + 1) = n + 1
    BY <1>3, LastOfNext
  <2>2. last(n + 1) <=> chars[n + 1] \in set
    BY <2>1 DEF Is
  <2>3. QED
    BY <1>1, <1>2, <1>3, <2>2
<1>4. CASE chars[n + 1] \notin set \cup reset
  <2>1. LastOf(chars, set \cup reset, n + 1) = LastOf(chars, set \cup reset, n)
    BY <1>4, LastOfNext
  <2>2. QED
    BY <1>1, <1>2, <1>4, <2>1
<1>5. QED
  BY <1>3, <1>4

(* Attribute by attribute, what the next code changes in the reference. *)
Colours == Alphas \cup Graphics

(* What Reference says of a column, from what it says of the one before:
   the colour, ... *)
LEMMA FgNext ==
  ASSUME NEW chars, NEW n \in Nat
  PROVE  /\ FgAt(chars, 1) = "white"
         /\ FgAt(chars, n + 2) = IF chars[n + 1] \in Colours
                                 THEN Colour(chars[n + 1]) ELSE FgAt(chars, n + 1)
<1> DEFINE last(k) == LastOf(chars, Alphas \cup Graphics, k)
           fg(k) == IF last(k) = 0 THEN "white" ELSE Colour(chars[last(k)])
<1>1. /\ FgAt(chars, n + 2) = fg(n + 1)
      /\ FgAt(chars, n + 1) = fg(n)
      /\ FgAt(chars, 1) = fg(0)
  <2>1. (n + 2) - 1 = n + 1 /\ (n + 1) - 1 = n /\ 1 - 1 = 0
    OBVIOUS
  <2>2. QED
    BY <2>1, Zenon DEF FgAt
<1>2. last(0) = 0
  BY LastOfType
<1>3. last(n + 1) = IF chars[n + 1] \in Colours THEN n + 1 ELSE last(n)
  BY LastOfNext DEF Colours
<1>4. QED
  BY <1>1, <1>2, <1>3

(* ... the background, ... *)
LEMMA BgNext ==
  ASSUME NEW chars, NEW n \in Nat
  PROVE  /\ BgAt(chars, 0) = "black"
         /\ BgAt(chars, n + 1) =
              IF chars[n + 1] = "BLACK_BACKGROUND" THEN "black"
              ELSE IF chars[n + 1] = "NEW_BACKGROUND" THEN FgAt(chars, n + 1)
              ELSE BgAt(chars, n)
<1> DEFINE codes == {"BLACK_BACKGROUND", "NEW_BACKGROUND"}
           last(k) == LastOf(chars, codes, k)
           bg(k) == IF last(k) > 0 /\ chars[last(k)] \in {"NEW_BACKGROUND"}
                    THEN FgAt(chars, last(k)) ELSE "black"
<1>1. \A k : BgAt(chars, k) = bg(k)
  BY DEF BgAt, Is
<1>2. last(0) = 0
  BY LastOfType
<1>3. last(n + 1) = IF chars[n + 1] \in codes THEN n + 1 ELSE last(n)
  BY LastOfNext
<1>4. QED
  BY <1>1, <1>2, <1>3

(* ... double height, ... *)
LEMMA DoubleNext ==
  ASSUME NEW chars, NEW n \in Nat
  PROVE  /\ DoubleAt(chars, 0) = FALSE
         /\ chars[n + 1] = "DOUBLE_HEIGHT" => DoubleAt(chars, n + 1) = TRUE
         /\ chars[n + 1] = "NORMAL_HEIGHT" => DoubleAt(chars, n + 1) = FALSE
         /\ chars[n + 1] \notin {"DOUBLE_HEIGHT", "NORMAL_HEIGHT"} =>
              DoubleAt(chars, n + 1) = DoubleAt(chars, n)
<1> DEFINE codes == {"DOUBLE_HEIGHT", "NORMAL_HEIGHT"}
           last(k) == LastOf(chars, codes, k)
           double(k) == Is(chars, last(k), {"DOUBLE_HEIGHT"})
<1>1. \A k : DoubleAt(chars, k) = double(k)
  BY DEF DoubleAt
<1>2. last(0) = 0
  BY LastOfType
<1>3. last(n + 1) = IF chars[n + 1] \in codes THEN n + 1 ELSE last(n)
  BY LastOfNext
<1>4. ~double(0)
  BY <1>2 DEF Is
<1>5. chars[n + 1] = "DOUBLE_HEIGHT" => double(n + 1)
  BY <1>3 DEF Is
<1>6. chars[n + 1] = "NORMAL_HEIGHT" => ~double(n + 1)
  BY <1>3 DEF Is
<1>7. chars[n + 1] \notin codes => double(n + 1) = double(n)
  BY <1>3
<1>8. QED
  BY <1>1, <1>4, <1>5, <1>6, <1>7

(* Whether mosaics are held, before a release in column n counts and after. *)
HoldsAfter(chars, n) ==
  LastOf(chars, {"HOLD_GRAPHICS"}, n) > LastOf(chars, {"RELEASE_GRAPHICS"}, n)

(* ... hold, ... *)
LEMMA HoldNext ==
  ASSUME NEW chars, NEW n \in Nat
  PROVE  /\ HoldsAfter(chars, 0) = FALSE
         /\ chars[n + 1] = "HOLD_GRAPHICS" => HoldAt(chars, n + 1) = TRUE
         /\ chars[n + 1] # "HOLD_GRAPHICS" => HoldAt(chars, n + 1) = HoldsAfter(chars, n)
         /\ chars[n + 1] = "RELEASE_GRAPHICS" => HoldsAfter(chars, n + 1) = FALSE
         /\ chars[n + 1] # "RELEASE_GRAPHICS" =>
              HoldsAfter(chars, n + 1) = HoldAt(chars, n + 1)
<1> DEFINE h(k) == LastOf(chars, {"HOLD_GRAPHICS"}, k)
           r(k) == LastOf(chars, {"RELEASE_GRAPHICS"}, k)
<1>1. h(0) = 0 /\ r(0) = 0 /\ h(n) \in 0 .. n /\ r(n) \in 0 .. n
  BY LastOfType
<1>2. /\ h(n + 1) = IF chars[n + 1] = "HOLD_GRAPHICS" THEN n + 1 ELSE h(n)
      /\ r(n + 1) = IF chars[n + 1] = "RELEASE_GRAPHICS" THEN n + 1 ELSE r(n)
  BY LastOfNext
<1> DEFINE later(j, k) == j > k
<1>3. /\ HoldAt(chars, n + 1) = later(h(n + 1), r(n))
      /\ \A k : HoldsAfter(chars, k) = later(h(k), r(k))
  <2>1. (n + 1) - 1 = n
    OBVIOUS
  <2>2. QED
    BY <2>1 DEF HoldAt, HoldsAfter
<1> HIDE DEF h, r
<1>4. later(h(0), r(0)) = FALSE
  <2>1. h(0) = r(0) /\ h(0) \in Int
    BY <1>1
  <2>2. QED
    BY <2>1
<1>5. chars[n + 1] = "HOLD_GRAPHICS" => later(h(n + 1), r(n)) = TRUE
  BY <1>1, <1>2
<1>6. chars[n + 1] = "RELEASE_GRAPHICS" => later(h(n + 1), r(n + 1)) = FALSE
  BY <1>1, <1>2
<1>7. chars[n + 1] # "HOLD_GRAPHICS" => h(n + 1) = h(n)
  BY <1>2
<1>8. chars[n + 1] # "RELEASE_GRAPHICS" => r(n + 1) = r(n)
  BY <1>2
<1> HIDE DEF later
<1>9. QED
  BY <1>3, <1>4, <1>5, <1>6, <1>7, <1>8

(* What is held when mosaics up to column n have been drawn and changes have
   come as far as column g (letters and graphics) and d (heights). *)
Mosaics(chars, n) == {j \in 1 .. n : chars[j] = "mosaic" /\ GraphicsAt(chars, j)}

Changed(chars, j, g, d) ==
  \/ \E k \in j + 1 .. g : GraphicsAt(chars, k) # GraphicsAt(chars, k - 1)
  \/ \E k \in j + 1 .. d : DoubleAt(chars, k) # DoubleAt(chars, k - 1)

Held(chars, n, g, d) ==
  IF Mosaics(chars, n) = {} \/ Changed(chars, Max(Mosaics(chars, n)), g, d)
  THEN "space" ELSE MosaicAt(chars, Max(Mosaics(chars, n)))

LEMMA LastMosaic ==
  ASSUME NEW chars, NEW n \in Nat, Mosaics(chars, n) # {}
  PROVE  Max(Mosaics(chars, n)) \in 1 .. n
<1>1. Mosaics(chars, n) \in SUBSET (0 .. n)
  BY DEF Mosaics
<1>2. Max(Mosaics(chars, n)) \in Mosaics(chars, n)
  BY <1>1, Maximum
<1>3. QED
  BY <1>2 DEF Mosaics

LEMMA HeldIs ==
  ASSUME NEW chars, NEW i \in Nat \ {0}
  PROVE  HeldAt(chars, i) = Held(chars, i - 1, i, i)
<1> DEFINE m == Mosaics(chars, i - 1)
<1>1. Changed(chars, Max(m), i, i) <=>
        \E k \in Max(m) + 1 .. i :
          \/ GraphicsAt(chars, k) # GraphicsAt(chars, k - 1)
          \/ DoubleAt(chars, k) # DoubleAt(chars, k - 1)
  BY Zenon DEF Changed
<1>2. HeldAt(chars, i) =
        IF m = {} THEN "space"
        ELSE IF \E k \in Max(m) + 1 .. i :
                  \/ GraphicsAt(chars, k) # GraphicsAt(chars, k - 1)
                  \/ DoubleAt(chars, k) # DoubleAt(chars, k - 1)
             THEN "space"
        ELSE MosaicAt(chars, Max(m))
  BY Zenon DEF HeldAt, Mosaics
<1>3. QED
  BY <1>1, <1>2 DEF Held

LEMMA NothingHeld ==
  ASSUME NEW chars
  PROVE  Held(chars, 0, 1, 0) = "space"
  BY DEF Held, Mosaics

(* A change of height, and one of letters and graphics. *)
LEMMA HeldDouble ==
  ASSUME NEW chars, NEW n \in Nat
  PROVE  Held(chars, n, n + 1, n + 1) =
           IF DoubleAt(chars, n + 1) = DoubleAt(chars, n)
           THEN Held(chars, n, n + 1, n) ELSE "space"
<1> DEFINE j == Max(Mosaics(chars, n))
<1>1. CASE Mosaics(chars, n) = {}
  BY <1>1 DEF Held
<1>2. CASE Mosaics(chars, n) # {}
  <2>1. j \in 1 .. n
    BY <1>2, LastMosaic
  <2> HIDE DEF j
  <2>2. j + 1 .. n + 1 = (j + 1 .. n) \cup {n + 1} /\ (n + 1) - 1 = n
    BY <2>1
  <2>3. Changed(chars, j, n + 1, n + 1) <=>
          \/ Changed(chars, j, n + 1, n)
          \/ DoubleAt(chars, n + 1) # DoubleAt(chars, n)
    BY <2>2 DEF Changed
  <2>4. QED
    BY <1>2, <2>3 DEF Held, j
<1>3. QED
  BY <1>1, <1>2

LEMMA HeldGraphics ==
  ASSUME NEW chars, NEW n \in Nat
  PROVE  Held(chars, n, n + 1, n) =
           IF GraphicsAt(chars, n + 1) = GraphicsAt(chars, n)
           THEN Held(chars, n, n, n) ELSE "space"
<1> DEFINE j == Max(Mosaics(chars, n))
<1>1. CASE Mosaics(chars, n) = {}
  BY <1>1 DEF Held
<1>2. CASE Mosaics(chars, n) # {}
  <2>1. j \in 1 .. n
    BY <1>2, LastMosaic
  <2> HIDE DEF j
  <2>2. j + 1 .. n + 1 = (j + 1 .. n) \cup {n + 1} /\ (n + 1) - 1 = n
    BY <2>1
  <2>3. Changed(chars, j, n + 1, n) <=>
          \/ Changed(chars, j, n, n)
          \/ GraphicsAt(chars, n + 1) # GraphicsAt(chars, n)
    BY <2>2 DEF Changed
  <2>4. QED
    BY <1>2, <2>3 DEF Held, j
<1>3. QED
  BY <1>1, <1>2

(* A mosaic, or another character. *)
LEMMA HeldMosaic ==
  ASSUME NEW chars, NEW n \in Nat
  PROVE  Held(chars, n + 1, n + 1, n + 1) =
           IF chars[n + 1] = "mosaic" /\ GraphicsAt(chars, n + 1)
           THEN MosaicAt(chars, n + 1) ELSE Held(chars, n, n + 1, n + 1)
<1>1. CASE chars[n + 1] = "mosaic" /\ GraphicsAt(chars, n + 1)
  <2> DEFINE S == Mosaics(chars, n + 1)
  <2>1. S \in SUBSET (0 .. n + 1) /\ n + 1 \in S /\ \A k \in S : n + 1 >= k
    BY <1>1 DEF Mosaics
  <2>2. Max(S) = n + 1
    BY <2>1, MaximumIs
  <2>3. ~ Changed(chars, n + 1, n + 1, n + 1)
    <3>1. (n + 1) + 1 .. n + 1 = {}
      OBVIOUS
    <3>2. QED
      BY <3>1 DEF Changed
  <2>4. QED
    BY <1>1, <2>1, <2>2, <2>3 DEF Held
<1>2. CASE ~ (chars[n + 1] = "mosaic" /\ GraphicsAt(chars, n + 1))
  <2>1. Mosaics(chars, n + 1) = Mosaics(chars, n)
    BY <1>2 DEF Mosaics
  <2>2. QED
    BY <1>2, <2>1 DEF Held
<1>3. QED
  BY <1>1, <1>2

(* The fields of attributes, and what the steps of a column do to each. *)
Attrs ==
  [second_double : BOOLEAN,
   fg_colour : {"red", "white"}, bg_colour : {"red", "white", "black"},
   graphics : BOOLEAN, flash : BOOLEAN, conceal : BOOLEAN, double_height : BOOLEAN,
   separated_graphics : BOOLEAN, hold_graphics : BOOLEAN,
   last_graph_bitmap : {"space", "solid", "separated"}]

LEMMA StartFields ==
  ASSUME NEW second_double \in BOOLEAN
  PROVE  RowStart(second_double) \in Attrs
  BY DEF RowStart, Attrs

PreRenderKeeps(a, b) ==
  /\ b \in Attrs
  /\ b.second_double = a.second_double
  /\ b.fg_colour = a.fg_colour
  /\ b.graphics = a.graphics
  /\ b.flash = a.flash
  /\ b.conceal = a.conceal
  /\ b.separated_graphics = a.separated_graphics

LEMMA PreRenderFields ==
  ASSUME NEW a \in Attrs, NEW ch \in Chars
  PROVE  LET b == PreRender(a, ch)
         IN  /\ PreRenderKeeps(a, b)
             /\ b.bg_colour =
                  IF ch = "BLACK_BACKGROUND" THEN "black"
                  ELSE IF ch = "NEW_BACKGROUND" THEN a.fg_colour
                  ELSE a.bg_colour
             /\ b.hold_graphics = IF ch = "HOLD_GRAPHICS" THEN TRUE ELSE a.hold_graphics
             /\ b.double_height =
                  IF ch = "DOUBLE_HEIGHT" THEN TRUE
                  ELSE IF ch = "NORMAL_HEIGHT" THEN FALSE ELSE a.double_height
             /\ b.last_graph_bitmap =
                  IF b.double_height = a.double_height THEN a.last_graph_bitmap
                  ELSE "space"
<1>1. CASE ch = "NORMAL_HEIGHT"
  BY <1>1 DEF PreRender, PreRenderKeeps, Height, Attrs
<1>2. CASE ch = "DOUBLE_HEIGHT"
  BY <1>2 DEF PreRender, PreRenderKeeps, Height, Attrs
<1>3. CASE ch \notin {"NORMAL_HEIGHT", "DOUBLE_HEIGHT"}
  BY <1>3 DEF PreRender, PreRenderKeeps, Attrs
<1>4. QED
  BY <1>1, <1>2, <1>3

LEMMA KeepFields ==
  ASSUME NEW b \in Attrs, NEW ch
  PROVE  LET c == Keep(b, ch)
         IN  /\ c \in Attrs
             /\ c = [b EXCEPT !.last_graph_bitmap = c.last_graph_bitmap]
             /\ c.last_graph_bitmap =
                  IF b.graphics /\ ch = "mosaic" THEN lookup_graphic(b)
                  ELSE b.last_graph_bitmap
  BY DEF Keep, lookup_graphic, Attrs

HeldOver(c, d) ==
  d.last_graph_bitmap =
    IF d.graphics = c.graphics THEN c.last_graph_bitmap ELSE "space"

LEMMA PostRenderFields ==
  ASSUME NEW c \in Attrs, NEW ch \in Chars
  PROVE  LET d == PostRender(c, ch)
         IN  /\ d \in Attrs
             /\ d.second_double = c.second_double
             /\ d.bg_colour = c.bg_colour
             /\ d.double_height = c.double_height
             /\ d.fg_colour =
                  IF ch \in Alphas \cup Graphics THEN Colour(ch) ELSE c.fg_colour
             /\ d.graphics =
                  IF ch \in Graphics THEN TRUE
                  ELSE IF ch \in Alphas THEN FALSE ELSE c.graphics
             /\ d.flash =
                  IF ch = "FLASH" THEN TRUE
                  ELSE IF ch = "STEADY" THEN FALSE ELSE c.flash
             /\ d.conceal =
                  IF ch = "CONCEAL_DISPLAY" THEN TRUE
                  ELSE IF ch \in Alphas \cup Graphics THEN FALSE ELSE c.conceal
             /\ d.separated_graphics =
                  IF ch = "SEPARATED_GRAPHICS" THEN TRUE
                  ELSE IF ch = "CONTIGUOUS_GRAPHICS" THEN FALSE
                  ELSE c.separated_graphics
             /\ d.hold_graphics =
                  IF ch = "RELEASE_GRAPHICS" THEN FALSE ELSE c.hold_graphics
             /\ HeldOver(c, d)
<1>1. CASE ch \in Alphas
  BY <1>1 DEF PostRender, PostColour, Colour, Alphas, Graphics, Attrs, HeldOver
<1>2. CASE ch \in Graphics
  BY <1>2 DEF PostRender, PostColour, Colour, Alphas, Graphics, Attrs, HeldOver
<1>3. CASE ch \notin Alphas \cup Graphics
  BY <1>3 DEF PostRender, Alphas, Graphics, Attrs, HeldOver
<1>4. QED
  BY <1>1, <1>2, <1>3

LEMMA GraphicsNext ==
  ASSUME NEW chars, NEW n \in Nat
  PROVE  /\ GraphicsAt(chars, 1) = FALSE
         /\ chars[n + 1] \in Graphics => GraphicsAt(chars, n + 2) = TRUE
         /\ chars[n + 1] \in Alphas \ Graphics => GraphicsAt(chars, n + 2) = FALSE
         /\ chars[n + 1] \notin Colours => GraphicsAt(chars, n + 2) = GraphicsAt(chars, n + 1)
  BY AfterNext DEF GraphicsAt, Colours

(* What the attributes are when column i is drawn. *)
Flash(chars, i)     == After(chars, {"FLASH"}, {"STEADY"}, i)
Conceal(chars, i)   == After(chars, {"CONCEAL_DISPLAY"}, Alphas \cup Graphics, i)
Separated(chars, i) == After(chars, {"SEPARATED_GRAPHICS"}, {"CONTIGUOUS_GRAPHICS"}, i)

AtColumn(b, chars, second_double, i) ==
  /\ b \in Attrs
  /\ b.second_double = second_double
  /\ b.fg_colour = FgAt(chars, i)
  /\ b.bg_colour = BgAt(chars, i)
  /\ b.graphics = GraphicsAt(chars, i)
  /\ b.flash = Flash(chars, i)
  /\ b.conceal = Conceal(chars, i)
  /\ b.double_height = DoubleAt(chars, i)
  /\ b.separated_graphics = Separated(chars, i)
  /\ b.hold_graphics = HoldAt(chars, i)
  /\ b.last_graph_bitmap =
       IF second_double THEN "space" ELSE Held(chars, i - 1, i, i)

(* And after column n. *)
AfterColumn(a, chars, second_double, n) ==
  /\ a \in Attrs
  /\ a.second_double = second_double
  /\ a.fg_colour = FgAt(chars, n + 1)
  /\ a.bg_colour = BgAt(chars, n)
  /\ a.graphics = GraphicsAt(chars, n + 1)
  /\ a.flash = Flash(chars, n + 1)
  /\ a.conceal = Conceal(chars, n + 1)
  /\ a.double_height = DoubleAt(chars, n)
  /\ a.separated_graphics = Separated(chars, n + 1)
  /\ a.hold_graphics = HoldsAfter(chars, n)
  /\ a.last_graph_bitmap =
       IF second_double THEN "space" ELSE Held(chars, n, n + 1, n)

LEMMA AtStart ==
  ASSUME NEW chars, NEW second_double \in BOOLEAN
  PROVE  AfterColumn(RowStart(second_double), chars, second_double, 0)
<1> DEFINE a == RowStart(second_double)
<1>1. 0 + 1 = 1 /\ 0 \in Nat
  OBVIOUS
<1>2. a \in Attrs
  BY StartFields
<1>3. /\ a.second_double = second_double
      /\ a.fg_colour = "white" /\ a.bg_colour = "black"
      /\ a.graphics = FALSE /\ a.flash = FALSE /\ a.conceal = FALSE
      /\ a.double_height = FALSE /\ a.separated_graphics = FALSE
      /\ a.hold_graphics = FALSE /\ a.last_graph_bitmap = "space"
  BY DEF RowStart
<1> HIDE DEF a
<1>4. FgAt(chars, 1) = "white" /\ BgAt(chars, 0) = "black"
  BY <1>1, FgNext, BgNext
<1>5. /\ Flash(chars, 1) = FALSE
      /\ Conceal(chars, 1) = FALSE
      /\ Separated(chars, 1) = FALSE
  BY <1>1, AfterNext DEF Flash, Conceal, Separated
<1>6. /\ GraphicsAt(chars, 1) = FALSE /\ DoubleAt(chars, 0) = FALSE
      /\ HoldsAfter(chars, 0) = FALSE
  BY <1>1, GraphicsNext, DoubleNext, HoldNext
<1>7. AfterColumn(a, chars, second_double, 0)
  BY <1>1, <1>2, <1>3, <1>4, <1>5, <1>6, NothingHeld DEF AfterColumn
<1>8. QED
  BY <1>7 DEF a

(* Drawing a column takes the attributes from one to the other. *)
LEMMA PreStep ==
  ASSUME NEW chars, NEW n \in Nat, chars[n + 1] \in Chars,
         NEW second_double \in BOOLEAN,
         NEW a, AfterColumn(a, chars, second_double, n)
  PROVE  AtColumn(PreRender(a, chars[n + 1]), chars, second_double, n + 1)
<1> DEFINE ch == chars[n + 1]
           b == PreRender(a, ch)
<1>1. a \in Attrs /\ ch \in Chars /\ (n + 1) - 1 = n
  BY DEF AfterColumn
<1> HIDE DEF ch
<1>2. PreRenderKeeps(a, b)
  BY <1>1, PreRenderFields
<1>3. b.bg_colour = BgAt(chars, n + 1)
  <2>1. b.bg_colour =
                  IF ch = "BLACK_BACKGROUND" THEN "black"
                  ELSE IF ch = "NEW_BACKGROUND" THEN a.fg_colour
                  ELSE a.bg_colour
    BY <1>1, PreRenderFields
  <2>2. QED
    BY <2>1, BgNext DEF AfterColumn, ch
<1>4. b.hold_graphics = HoldAt(chars, n + 1)
  <2>1. b.hold_graphics = IF ch = "HOLD_GRAPHICS" THEN TRUE ELSE a.hold_graphics
    BY <1>1, PreRenderFields
  <2>2. QED
    BY <2>1, HoldNext DEF AfterColumn, ch
<1>5. b.double_height = DoubleAt(chars, n + 1)
  <2>1. b.double_height =
                  IF ch = "DOUBLE_HEIGHT" THEN TRUE
                  ELSE IF ch = "NORMAL_HEIGHT" THEN FALSE ELSE a.double_height
    BY <1>1, PreRenderFields
  <2>2. QED
    BY <2>1, DoubleNext DEF AfterColumn, ch
<1>6. b.last_graph_bitmap =
        IF second_double THEN "space" ELSE Held(chars, n, n + 1, n + 1)
  <2>1. b.last_graph_bitmap =
                  IF b.double_height = a.double_height THEN a.last_graph_bitmap
                  ELSE "space"
    BY <1>1, PreRenderFields
  <2>2. QED
    BY <1>5, <2>1, HeldDouble DEF AfterColumn
<1> HIDE DEF b
<1>7. AtColumn(b, chars, second_double, n + 1)
  BY <1>1, <1>2, <1>3, <1>4, <1>5, <1>6 DEF AtColumn, AfterColumn, PreRenderKeeps
<1>8. QED
  BY <1>7 DEF b, ch

LEMMA MosaicIs ==
  ASSUME NEW chars, NEW i \in Nat, NEW second_double \in BOOLEAN,
         NEW b, AtColumn(b, chars, second_double, i)
  PROVE  lookup_graphic(b) = IF second_double THEN "space" ELSE MosaicAt(chars, i)
<1>1. /\ b.second_double = second_double
      /\ b.separated_graphics = Separated(chars, i)
  BY DEF AtColumn
<1>2. MosaicAt(chars, i) = IF Separated(chars, i) THEN "separated" ELSE "solid"
  BY DEF MosaicAt, Separated
<1>3. QED
  BY <1>1, <1>2 DEF lookup_graphic

LEMMA PostStep ==
  ASSUME NEW chars, NEW n \in Nat, chars[n + 1] \in Chars,
         NEW second_double \in BOOLEAN,
         NEW b, AtColumn(b, chars, second_double, n + 1)
  PROVE  AfterColumn(PostRender(Keep(b, chars[n + 1]), chars[n + 1]),
                     chars, second_double, n + 1)
<1> DEFINE ch == chars[n + 1]
           c == Keep(b, ch)
           d == PostRender(c, ch)
<1>1. b \in Attrs /\ ch \in Chars /\ (n + 1) - 1 = n /\ (n + 1) + 1 = n + 2
  BY DEF AtColumn
<1>2. /\ c \in Attrs
      /\ c = [b EXCEPT !.last_graph_bitmap = c.last_graph_bitmap]
      /\ c.last_graph_bitmap =
           IF b.graphics /\ ch = "mosaic" THEN lookup_graphic(b)
           ELSE b.last_graph_bitmap
  BY <1>1, KeepFields
<1> HIDE DEF c
<1>3. /\ c.second_double = second_double
      /\ c.fg_colour = FgAt(chars, n + 1)
      /\ c.bg_colour = BgAt(chars, n + 1)
      /\ c.graphics = GraphicsAt(chars, n + 1)
      /\ c.flash = Flash(chars, n + 1)
      /\ c.conceal = Conceal(chars, n + 1)
      /\ c.double_height = DoubleAt(chars, n + 1)
      /\ c.separated_graphics = Separated(chars, n + 1)
      /\ c.hold_graphics = HoldAt(chars, n + 1)
  BY <1>1, <1>2 DEF AtColumn, Attrs
<1>4. c.last_graph_bitmap =
        IF second_double THEN "space" ELSE Held(chars, n + 1, n + 1, n + 1)
  <2>1. /\ b.graphics = GraphicsAt(chars, n + 1)
        /\ b.last_graph_bitmap =
             IF second_double THEN "space" ELSE Held(chars, n, n + 1, n + 1)
    BY <1>1 DEF AtColumn
  <2>2. lookup_graphic(b) = IF second_double THEN "space" ELSE MosaicAt(chars, n + 1)
    <3>1. n + 1 \in Nat
      OBVIOUS
    <3>2. QED
      BY <3>1, MosaicIs, Zenon
  <2>3. QED
    BY <1>2, <2>1, <2>2, HeldMosaic DEF ch
<1> HIDE DEF ch
<1>5. d \in Attrs
  BY <1>1, <1>2, PostRenderFields
<1>6. /\ d.second_double = c.second_double
      /\ d.bg_colour = c.bg_colour
      /\ d.double_height = c.double_height
  BY <1>1, <1>2, PostRenderFields
<1>7. d.fg_colour = FgAt(chars, n + 2)
  <2>1. d.fg_colour = IF ch \in Alphas \cup Graphics THEN Colour(ch) ELSE c.fg_colour
    BY <1>1, <1>2, PostRenderFields
  <2>2. QED
    BY <1>3, <2>1, FgNext DEF ch, Colours
<1>8. d.graphics = GraphicsAt(chars, n + 2)
  <2>1. d.graphics = IF ch \in Graphics THEN TRUE
                     ELSE IF ch \in Alphas THEN FALSE ELSE c.graphics
    BY <1>1, <1>2, PostRenderFields
  <2>2. QED
    BY <1>3, <2>1, GraphicsNext DEF ch, Colours
<1>9. d.flash = Flash(chars, n + 2)
  <2>1. d.flash = IF ch = "FLASH" THEN TRUE
                  ELSE IF ch = "STEADY" THEN FALSE ELSE c.flash
    BY <1>1, <1>2, PostRenderFields
  <2>2. QED
    BY <1>3, <2>1, AfterNext DEF ch, Flash
<1>10. d.conceal = Conceal(chars, n + 2)
  <2>1. d.conceal = IF ch = "CONCEAL_DISPLAY" THEN TRUE
                    ELSE IF ch \in Alphas \cup Graphics THEN FALSE ELSE c.conceal
    BY <1>1, <1>2, PostRenderFields
  <2>2. QED
    BY <1>3, <2>1, AfterNext DEF ch, Conceal
<1>11. d.separated_graphics = Separated(chars, n + 2)
  <2>1. d.separated_graphics = IF ch = "SEPARATED_GRAPHICS" THEN TRUE
                               ELSE IF ch = "CONTIGUOUS_GRAPHICS" THEN FALSE
                               ELSE c.separated_graphics
    BY <1>1, <1>2, PostRenderFields
  <2>2. QED
    BY <1>3, <2>1, AfterNext DEF ch, Separated
<1>12. d.hold_graphics = HoldsAfter(chars, n + 1)
  <2>1. d.hold_graphics = IF ch = "RELEASE_GRAPHICS" THEN FALSE ELSE c.hold_graphics
    BY <1>1, <1>2, PostRenderFields
  <2>2. QED
    BY <1>3, <2>1, HoldNext DEF ch
<1>13. d.last_graph_bitmap =
         IF second_double THEN "space" ELSE Held(chars, n + 1, n + 2, n + 1)
  <2>1. HeldOver(c, d)
    BY <1>1, <1>2, PostRenderFields
  <2>2. Held(chars, n + 1, n + 2, n + 1) =
           IF GraphicsAt(chars, n + 2) = GraphicsAt(chars, n + 1)
           THEN Held(chars, n + 1, n + 1, n + 1) ELSE "space"
    <3>1. n + 1 \in Nat
      OBVIOUS
    <3>2. QED
      BY <1>1, <3>1, HeldGraphics
  <2>3. QED
    BY <1>3, <1>4, <1>8, <2>1, <2>2 DEF HeldOver
<1> HIDE DEF d
<1>14. AfterColumn(d, chars, second_double, n + 1)
  BY <1>1, <1>3, <1>5, <1>6, <1>7, <1>8, <1>9, <1>10, <1>11, <1>12, <1>13
     DEF AfterColumn
<1>15. QED
  BY <1>14 DEF d, c, ch

(* What is drawn in the column. *)
LEMMA HeldIsMosaic ==
  ASSUME NEW chars, NEW i \in Nat
  PROVE  Held(chars, i - 1, i, i) \in {"space", "solid", "separated"}
  BY DEF Held, MosaicAt

LEMMA CellIs ==
  ASSUME NEW chars, NEW i \in Nat \ {0}, chars[i] \in Chars,
         NEW second_double \in BOOLEAN,
         NEW b, AtColumn(b, chars, second_double, i)
  PROVE  Cell(b, chars[i]) =
           [fg |-> FgAt(chars, i), bg |-> BgAt(chars, i),
            bitmap |-> IF second_double /\ BitmapAt(chars, i) # "tall"
                       THEN "space" ELSE BitmapAt(chars, i),
            flash   |-> After(chars, {"FLASH"}, {"STEADY"}, i),
            conceal |-> After(chars, {"CONCEAL_DISPLAY"}, Alphas \cup Graphics, i)]
<1> DEFINE ch == chars[i]
<1>1. /\ b.second_double = second_double
      /\ b.fg_colour = FgAt(chars, i)
      /\ b.bg_colour = BgAt(chars, i)
      /\ b.graphics = GraphicsAt(chars, i)
      /\ b.flash = Flash(chars, i)
      /\ b.conceal = Conceal(chars, i)
      /\ b.double_height = DoubleAt(chars, i)
      /\ b.hold_graphics = HoldAt(chars, i)
      /\ b.last_graph_bitmap =
           IF second_double THEN "space" ELSE Held(chars, i - 1, i, i)
  BY DEF AtColumn
<1>2. Shown(b, ch) = IF second_double /\ BitmapAt(chars, i) # "tall"
                     THEN "space" ELSE BitmapAt(chars, i)
  <2>1. CASE ch \notin Printable
    <3>1. BitmapAt(chars, i) =
            IF HoldAt(chars, i) THEN Held(chars, i - 1, i, i) ELSE "space"
      BY <2>1, HeldIs DEF BitmapAt
    <3>2. Shown(b, ch) = IF b.hold_graphics THEN b.last_graph_bitmap ELSE "space"
      BY <2>1 DEF Shown
    <3>3. QED
      BY <1>1, <3>1, <3>2, HeldIsMosaic
  <2>2. CASE ch \in Printable /\ GraphicsAt(chars, i) /\ ch = "mosaic"
    <3>1. BitmapAt(chars, i) = MosaicAt(chars, i)
      BY <2>2 DEF BitmapAt
    <3>2. Shown(b, ch) = lookup_graphic(b)
      BY <1>1, <2>2 DEF Shown
    <3>3. MosaicAt(chars, i) # "tall"
      BY DEF MosaicAt
    <3>4. lookup_graphic(b) = IF second_double THEN "space" ELSE MosaicAt(chars, i)
      BY MosaicIs
    <3>5. QED
      BY <3>1, <3>2, <3>3, <3>4
  <2>3. CASE ch \in Printable /\ ~ (GraphicsAt(chars, i) /\ ch = "mosaic")
    <3>1. BitmapAt(chars, i) = IF DoubleAt(chars, i) THEN "tall" ELSE "character"
      BY <2>3 DEF BitmapAt
    <3>2. Shown(b, ch) = lookup_character(b)
      BY <1>1, <2>3 DEF Shown
    <3>3. QED
      BY <1>1, <3>1, <3>2 DEF lookup_character
  <2>4. QED
    BY <2>1, <2>2, <2>3
<1>3. QED
  BY <1>1, <1>2 DEF Cell, Flash, Conceal

-----------------------------------------------------------------------------
(* Attributes is the function that its recursive definition says it is. *)
IsAttributes(after, chars, second_double, n) ==
  after = [i \in 0 .. n |->
             IF i = 0 THEN RowStart(second_double)
             ELSE Column(after[i - 1], chars[i])]

LEMMA AttributesExist ==
  ASSUME NEW chars, NEW second_double, NEW n \in Nat
  PROVE  \E after : IsAttributes(after, chars, second_double, n)
<1> DEFINE S == {k \in Nat : ~ \E after : IsAttributes(after, chars, second_double, k)}
<1> SUFFICES ASSUME S # {} PROVE FALSE
  OBVIOUS
<1>1. PICK m \in S : \A k \in S : m <= k
  BY Minimum
<1>2. m \in Nat /\ ~ \E after : IsAttributes(after, chars, second_double, m)
  OBVIOUS
<1>3. m # 0
  <2> DEFINE f == [i \in 0 .. 0 |-> RowStart(second_double)]
  <2>1. IsAttributes(f, chars, second_double, 0)
    BY DEF IsAttributes
  <2>2. QED
    BY <1>2, <2>1
<1>4. PICK f : IsAttributes(f, chars, second_double, m - 1)
  <2>1. m - 1 \in Nat /\ ~ (m <= m - 1)
    BY <1>2, <1>3
  <2>2. m - 1 \notin S
    BY <1>1, <2>1
  <2>3. QED
    BY <2>1, <2>2
<1> DEFINE g == [i \in 0 .. m |-> IF i = m THEN Column(f[m - 1], chars[m]) ELSE f[i]]
<1>5. ASSUME NEW i \in 0 .. m
      PROVE  g[i] = IF i = 0 THEN RowStart(second_double)
                    ELSE Column(g[i - 1], chars[i])
  <2>1. CASE i = m
    <3>1. m - 1 \in 0 .. m /\ m - 1 # m /\ m \in 0 .. m
      BY <1>2, <1>3
    <3>2. g[m - 1] = f[m - 1] /\ g[m] = Column(f[m - 1], chars[m])
      BY <3>1
    <3>3. QED
      BY <1>3, <2>1, <3>2
  <2>2. CASE i # m
    <3>1. i \in 0 .. m - 1 /\ g[i] = f[i]
      BY <1>2, <2>2
    <3>2. f[i] = IF i = 0 THEN RowStart(second_double)
                 ELSE Column(f[i - 1], chars[i])
      BY <1>4, <3>1 DEF IsAttributes
    <3>3. i # 0 => i - 1 \in 0 .. m /\ i - 1 # m
      BY <1>2, <2>2
    <3>4. i # 0 => g[i - 1] = f[i - 1]
      BY <3>3
    <3>5. QED
      BY <3>1, <3>2, <3>4
  <2>3. QED
    BY <2>1, <2>2
<1>6. g = [i \in 0 .. m |-> g[i]]
  OBVIOUS
<1> HIDE DEF g
<1>7. IsAttributes(g, chars, second_double, m)
  BY <1>5, <1>6 DEF IsAttributes
<1>8. QED
  BY <1>2, <1>7

LEMMA AttributesAre ==
  ASSUME NEW chars, NEW second_double, Len(chars) \in Nat
  PROVE  /\ Attributes(chars, second_double)[0] = RowStart(second_double)
         /\ \A i \in 1 .. Len(chars) :
              Attributes(chars, second_double)[i] =
                Column(Attributes(chars, second_double)[i - 1], chars[i])
<1> DEFINE f == Attributes(chars, second_double)
<1>1. f = CHOOSE after : IsAttributes(after, chars, second_double, Len(chars))
  BY DEF Attributes, IsAttributes
<1>2. IsAttributes(f, chars, second_double, Len(chars))
  BY <1>1, AttributesExist, Zenon
<1> HIDE DEF f
<1>3. \A i \in 0 .. Len(chars) :
        f[i] = IF i = 0 THEN RowStart(second_double) ELSE Column(f[i - 1], chars[i])
  BY <1>2 DEF IsAttributes
<1>4. f[0] = RowStart(second_double)
  BY <1>3
<1>5. \A i \in 1 .. Len(chars) : f[i] = Column(f[i - 1], chars[i])
  BY <1>3
<1>6. QED
  BY <1>4, <1>5 DEF f

(* By induction over the row: a least column after which they differ would have
   one before it. *)
LEMMA AttributesRight ==
  ASSUME NEW chars \in Seq(Chars), NEW second_double \in BOOLEAN,
         NEW n \in 0 .. Len(chars)
  PROVE  AfterColumn(Attributes(chars, second_double)[n], chars, second_double, n)
<1> DEFINE f == Attributes(chars, second_double)
           S == {k \in 0 .. Len(chars) : ~ AfterColumn(f[k], chars, second_double, k)}
<1>0. Len(chars) \in Nat
  OBVIOUS
<1> SUFFICES ASSUME S # {} PROVE FALSE
  OBVIOUS
<1>1. PICK m \in S : \A k \in S : m <= k
  <2>1. S \in SUBSET Nat
    BY <1>0
  <2>2. QED
    BY <2>1, Minimum
<1>2. m \in 0 .. Len(chars) /\ ~ AfterColumn(f[m], chars, second_double, m)
  OBVIOUS
<1>3. /\ f[0] = RowStart(second_double)
      /\ \A i \in 1 .. Len(chars) : f[i] = Column(f[i - 1], chars[i])
  BY <1>0, AttributesAre
<1> HIDE DEF f
<1>4. m # 0
  BY <1>2, <1>3, AtStart
<1>5. m - 1 \in Nat /\ (m - 1) + 1 = m /\ m \in 1 .. Len(chars)
      /\ m - 1 \in 0 .. Len(chars) /\ ~ (m <= m - 1)
  BY <1>0, <1>2, <1>4
<1>6. AfterColumn(f[m - 1], chars, second_double, m - 1)
  BY <1>1, <1>5
<1>7. chars[m] \in Chars
  BY <1>5
<1>8. AtColumn(PreRender(f[m - 1], chars[m]), chars, second_double, m)
  BY <1>5, <1>6, <1>7, PreStep
<1>9. AfterColumn(Column(f[m - 1], chars[m]), chars, second_double, m)
  BY <1>5, <1>7, <1>8, PostStep DEF Column
<1>10. QED
  BY <1>2, <1>3, <1>5, <1>9

(* The row is what the codes say, column by column. *)
LEMMA RowIsReference ==
  ASSUME NEW chars \in Seq(Chars), NEW second_double \in BOOLEAN
  PROVE  DrawRow(chars, second_double) = Reference(chars, second_double)
<1> DEFINE f == Attributes(chars, second_double)
           ref(i) == [fg |-> FgAt(chars, i), bg |-> BgAt(chars, i),
            bitmap |-> IF second_double /\ BitmapAt(chars, i) # "tall"
                       THEN "space" ELSE BitmapAt(chars, i),
            flash   |-> After(chars, {"FLASH"}, {"STEADY"}, i),
            conceal |-> After(chars, {"CONCEAL_DISPLAY"}, Alphas \cup Graphics, i)]
<1>1. ASSUME NEW i \in 1 .. Len(chars)
      PROVE  Cell(PreRender(f[i - 1], chars[i]), chars[i]) = ref(i)
  <2>1. /\ i - 1 \in Nat /\ (i - 1) + 1 = i /\ i \in Nat \ {0}
        /\ i - 1 \in 0 .. Len(chars) /\ chars[i] \in Chars
    OBVIOUS
  <2>2. AfterColumn(f[i - 1], chars, second_double, i - 1)
    BY <2>1, AttributesRight
  <2> HIDE DEF f
  <2>3. AtColumn(PreRender(f[i - 1], chars[i]), chars, second_double, i)
    BY <2>1, <2>2, PreStep
  <2>4. QED
    BY <2>1, <2>3, CellIs
<1>2. /\ DrawRow(chars, second_double) =
           [i \in 1 .. Len(chars) |-> Cell(PreRender(f[i - 1], chars[i]), chars[i])]
      /\ Reference(chars, second_double) = [i \in 1 .. Len(chars) |-> ref(i)]
  BY Zenon DEF DrawRow, Reference
<1> HIDE DEF f, ref
<1>3. QED
  BY <1>1, <1>2

(* Every row is drawn as its codes say, however long it is and whatever it holds
   (the loop over columns of do_teletext). *)
THEOREM RowsAreRight == Spec => []RowsAgree
<1>1. RowsAgree
  <2>1. ASSUME NEW chars \in [1 .. Columns -> Chars]
        PROVE  chars \in Seq(Chars)
    BY TeletextAssumption
  <2>2. QED
    BY <2>1, RowIsReference DEF RowsAgree
<1>2. QED
  BY <1>1, PTL
=============================================================================
