------------------------ MODULE ScanoutTimelyProofs -------------------------
(***************************************************************************)
(* Proofs about Scanout when every line is drawn within a line period, for *)
(* every video mode and every size of the pool: each line that is sent is  *)
(* the one drawn for it, and frame sync tracks the beam.                   *)
(***************************************************************************)
EXTENDS ScanoutProofs, SequenceTheorems

(* The line that will be requested next, and the neighbours of a line. *)
Nxt == IF v_scanline < FirstActive THEN 0 ELSE v_scanline - FirstActive

After(l) == (l + 1) % MODE_V_ACTIVE_LINES

Before(l) == IF l = 0 THEN MODE_V_ACTIVE_LINES - 1 ELSE l - 1

(* The requests that wait to be drawn, or are being drawn: the drawing loop is
   never more than two behind. *)
Drawing(a) == job.at = "draw" /\ job.line = a

Nothing == job.at # "draw" /\ line_request_queue = << >>

One(a) == \/ job.at # "draw" /\ line_request_queue = <<a>>
          \/ Drawing(a) /\ line_request_queue = << >>

Two(a, b) == \/ job.at # "draw" /\ line_request_queue = <<a, b>>
             \/ Drawing(a) /\ line_request_queue = <<b>>

(* A line is in its buffer, or belongs to those that nobody draws before the
   first frame. *)
Good(l) ==
  \/ line_buffer_pool[ScanBuffer(l)] = l
  \/ line_buffer_pool[ScanBuffer(l)] = Blank /\ l < LINE_BUFFER_POOL_COUNT - 1

(* When the request of line a is drawn next, line a is in its buffer, and so
   are those after it, up to the line that is drawn then. *)
Ahead(a) ==
  \A j \in 0 .. LINE_BUFFER_POOL_COUNT - 2 : Good((a + j) % MODE_V_ACTIVE_LINES)

(* The level of frame sync during a line, and what the drawing of the lines
   before line a has left of it: the line before is either done or next to
   drive it. *)
Level(l) == l < VSYNC_ON

PinAt(a) ==
  IF job.at = "sync"
  THEN /\ job.line = Before(a)
       /\ vsync_pin <=> Level(Before(Before(a)))
  ELSE vsync_pin <=> Level(Before(a))

Ready(a) == Ahead(a) /\ PinAt(a)

(* A channel was given the pixels of a line; those of a line are ready, and
   not yet being sent. *)
Holds(c, l) == chan[c] = Segment("pixels", l + FirstActive)

Unsent(l) == intr = {} /\ Holds(Idle, l)

UpToDate ==
  /\ Nothing
  /\ Ready(Nxt)
  /\ \A l \in Lines : After(l) = Nxt /\ (\E c \in Channels : Holds(c, l)) => Good(l)

OneBehind ==
  \E a \in Lines :
    /\ One(a) /\ After(a) = Nxt /\ Ready(a)
    /\ job.at = "sync" => Unsent(a)

(* Two behind only while the pixels of the second have not started. *)
TwoBehind ==
  \E a, b \in Lines :
    /\ Two(a, b) /\ After(a) = b /\ After(b) = Nxt /\ Ready(a)
    /\ job.at # "sync" /\ Unsent(b)

TimelyInv == UpToDate \/ OneBehind \/ TwoBehind

(* The handler sees frame sync fall in one of the two lines after VSYNC_ON, or
   at its first call. *)
EdgeInv ==
  fs_previous /\ ~vsync_pin =>
    v_scanline \in {2, FirstActive + VSYNC_ON + 1, FirstActive + VSYNC_ON + 2}

(* Blanking is sent above the picture only. *)
BeamInv ==
  chan[running].kind \in {"vsync_on", "vsync_off"} => chan[running].at < FirstActive

IInv == TypeOK /\ ChannelsInStep /\ TimelyInv

-----------------------------------------------------------------------------
LEMMA PoolFacts ==
  /\ LINE_BUFFER_POOL_COUNT \in Nat /\ LINE_BUFFER_POOL_COUNT >= 2
  /\ MODE_V_ACTIVE_LINES \in Nat
  /\ MODE_V_ACTIVE_LINES >= LINE_BUFFER_POOL_COUNT
  /\ MODE_V_ACTIVE_LINES % LINE_BUFFER_POOL_COUNT = 0
<1>1. ASSUME MODE_V_ACTIVE_LINES < LINE_BUFFER_POOL_COUNT PROVE FALSE
  <2>1. MODE_V_ACTIVE_LINES % LINE_BUFFER_POOL_COUNT = MODE_V_ACTIVE_LINES
    BY <1>1, ModSmall, PoolAssumption, ModeAssumption
  <2>2. QED
    BY <2>1, PoolAssumption, ModeAssumption
<1>2. QED
  BY <1>1, PoolAssumption, ModeAssumption

(* Lines that are less than a pool apart use different buffers, across the end
   of the frame included. *)
LEMMA DistinctBuffers ==
  ASSUME NEW x \in Nat, NEW y \in Nat, x < y, y - x < LINE_BUFFER_POOL_COUNT
  PROVE  ScanBuffer(x % MODE_V_ACTIVE_LINES) # ScanBuffer(y % MODE_V_ACTIVE_LINES)
<1> DEFINE p == LINE_BUFFER_POOL_COUNT
           v == MODE_V_ACTIVE_LINES
           a == x % v
           b == y % v
<1>1. p \in Nat /\ p >= 2 /\ v \in Nat /\ v >= 1 /\ v % p = 0
  BY PoolFacts
<1>2. ScanBuffer(a) = a % p /\ ScanBuffer(b) = b % p
  BY DEF ScanBuffer
<1>3. y - x < p
  OBVIOUS
<1> HIDE DEF p, v
<1> DEFINE e == x \div v
           f == y \div v
           k == v \div p
           i == a \div p
           j == b \div p
<1>4. /\ a \in Int /\ e \in Int /\ x = v * e + a
      /\ b \in Int /\ f \in Int /\ y = v * f + b
  BY <1>1
<1>5. k \in Int /\ v = p * k
  BY <1>1
<1> HIDE DEF a, b
<1>6. i \in Int /\ j \in Int
  BY <1>1, <1>4
<1>7. a = p * i + (a % p) /\ b = p * j + (b % p)
  BY <1>1, <1>4
<1> HIDE DEF e, f, k, i, j
<1>8. SUFFICES ASSUME a % p = b % p PROVE FALSE
  BY <1>2 DEF a, b, v
<1> DEFINE d == (j - i) + (k * f - k * e)
<1>9. d \in Int /\ p * d = y - x
  <2>1. k * e \in Int /\ k * f \in Int
    BY <1>4, <1>5
  <2>2. v * e = p * (k * e) /\ v * f = p * (k * f)
    BY <1>1, <1>4, <1>5
  <2>3. p * d = p * j - p * i + p * (k * f) - p * (k * e)
    BY <1>1, <1>6, <2>1
  <2>4. p * j - p * i = b - a
    BY <1>1, <1>4, <1>6, <1>7, <1>8
  <2> DEFINE ve == v * e   vf == v * f   pke == p * (k * e)   pkf == p * (k * f)
             pi == p * i   pj == p * j   pd == p * d
  <2>5. /\ ve \in Int /\ vf \in Int /\ pke \in Int /\ pkf \in Int
        /\ pi \in Int /\ pj \in Int
    BY <1>1, <1>4, <1>6, <2>1
  <2>6. /\ x = ve + a /\ y = vf + b /\ ve = pke /\ vf = pkf
        /\ pd = pj - pi + pkf - pke /\ pj - pi = b - a
    BY <1>4, <2>2, <2>3, <2>4
  <2>7. d \in Int
    BY <1>6, <2>1
  <2> HIDE DEF ve, vf, pke, pkf, pi, pj, pd
  <2>8. pd = y - x
    BY <1>4, <2>5, <2>6
  <2>9. QED
    BY <2>7, <2>8 DEF pd
<1> HIDE DEF d
<1>10. CASE d >= 1
  <2>1. p * d >= p * 1
    BY <1>1, <1>9, <1>10
  <2>2. QED
    BY <1>1, <1>3, <1>9, <2>1
<1>11. CASE d <= 0
  <2>1. p * d <= p * 0
    BY <1>1, <1>9, <1>11
  <2>2. QED
    BY <1>1, <1>9, <2>1
<1>12. QED
  BY <1>9, <1>10, <1>11

(* The remainder of a division is unique. *)
LEMMA SameRemainder ==
  ASSUME NEW v \in Nat, v >= 1, NEW a \in Int, NEW b \in Int,
         NEW r \in 0 .. v - 1, NEW s \in 0 .. v - 1, v * a + r = v * b + s
  PROVE  r = s
<1> DEFINE d == a - b
<1>1. d \in Int /\ v * d = v * a - v * b /\ v * a \in Int /\ v * b \in Int
  OBVIOUS
<1>2. v * d = s - r
  BY <1>1
<1> HIDE DEF d
<1>3. CASE d >= 1
  <2>1. v * d >= v * 1
    BY <1>1, <1>3
  <2>2. QED
    BY <1>2, <2>1
<1>4. CASE d <= -1
  <2>1. v * d <= v * (-1)
    BY <1>1, <1>4
  <2>2. QED
    BY <1>2, <2>1
<1>5. CASE d = 0
  BY <1>2, <1>5
<1>6. QED
  BY <1>1, <1>3, <1>4, <1>5

LEMMA ModPlus ==
  ASSUME NEW v \in Nat, v >= 1, NEW j \in Nat
  PROVE  (v + j) % v = j % v
<1> DEFINE a == (v + j) \div v
           r == (v + j) % v
           b == j \div v
           s == j % v
<1>1. a \in Int /\ r \in 0 .. v - 1 /\ v + j = v * a + r
  OBVIOUS
<1>2. b \in Int /\ s \in 0 .. v - 1 /\ j = v * b + s
  OBVIOUS
<1> HIDE DEF a, r, b, s
<1>3. v * (b + 1) = v * b + v /\ v * b \in Int /\ v * a \in Int
  BY <1>1, <1>2
<1>4. v * a + r = v * (b + 1) + s
  BY <1>1, <1>2, <1>3
<1>5. b + 1 \in Int
  BY <1>2
<1>6. r = s
  BY <1>1, <1>2, <1>4, <1>5, SameRemainder
<1>7. QED
  BY <1>6 DEF r, s

LEMMA AfterFacts ==
  ASSUME NEW a \in Lines
  PROVE  /\ After(a) \in Lines /\ After(a) # a
         /\ After(a) = IF a = MODE_V_ACTIVE_LINES - 1 THEN 0 ELSE a + 1
         /\ a % MODE_V_ACTIVE_LINES = a
         /\ \A j \in Nat : (After(a) + j) % MODE_V_ACTIVE_LINES
                             = (a + (j + 1)) % MODE_V_ACTIVE_LINES
         /\ \A b \in Lines : After(b) = After(a) => b = a
<1> DEFINE v == MODE_V_ACTIVE_LINES
<1>1. v \in Nat /\ v >= 2 /\ a \in 0 .. v - 1 /\ Lines = 0 .. v - 1
  BY PoolFacts DEF Lines
<1>2. \A b \in Lines : After(b) = IF b = v - 1 THEN 0 ELSE b + 1
  <2> SUFFICES ASSUME NEW b \in Lines
               PROVE  (b + 1) % v = IF b = v - 1 THEN 0 ELSE b + 1
    BY DEF After
  <2> HIDE DEF v
  <2>1. v % v = 0
    BY <1>1
  <2>2. b # v - 1 => (b + 1) % v = b + 1
    BY <1>1, ModSmall
  <2>3. QED
    BY <1>1, <2>1, <2>2
<1>3. a % v = a
  BY <1>1, ModSmall
<1>4. \A j \in Nat : (After(a) + j) % v = (a + (j + 1)) % v
  <2> SUFFICES ASSUME NEW j \in Nat
               PROVE  (After(a) + j) % v = (a + (j + 1)) % v
    OBVIOUS
  <2>1. CASE a = v - 1
    <3>1. After(a) + j = j /\ a + (j + 1) = v + j
      BY <1>1, <1>2, <2>1
    <3>2. (v + j) % v = j % v
      <4>1. v \in Nat /\ v >= 1
        BY <1>1
      <4> HIDE DEF v
      <4>2. QED
        BY <4>1, ModPlus
    <3>3. QED
      BY <3>1, <3>2
  <2>2. CASE a # v - 1
    <3>1. After(a) + j = a + (j + 1)
      BY <1>1, <1>2, <2>2
    <3>2. QED
      BY <3>1
  <2>3. QED
    BY <2>1, <2>2
<1>5. /\ After(a) = IF a = v - 1 THEN 0 ELSE a + 1
      /\ \A b \in Lines : After(b) = After(a) => b = a
  <2>1. After(a) = IF a = v - 1 THEN 0 ELSE a + 1
    BY <1>2
  <2>2. ASSUME NEW b \in Lines, After(b) = After(a) PROVE b = a
    <3>1. After(b) = IF b = v - 1 THEN 0 ELSE b + 1
      BY <1>2
    <3> HIDE DEF After, v
    <3>2. QED
      BY <1>1, <2>1, <2>2, <3>1
  <2>3. QED
    BY <2>1, <2>2
<1>6. After(a) \in Lines /\ After(a) # a
  <2>1. After(a) = IF a = v - 1 THEN 0 ELSE a + 1
    BY <1>2
  <2> HIDE DEF After, v
  <2>2. QED
    BY <1>1, <2>1
<1>7. QED
  BY <1>3, <1>4, <1>5, <1>6

-----------------------------------------------------------------------------
LEMMA BeforeFacts ==
  ASSUME NEW a \in Lines
  PROVE  /\ Before(a) \in Lines /\ Before(a) # a
         /\ Before(After(a)) = a
<1> DEFINE v == MODE_V_ACTIVE_LINES
<1>1. v \in Nat /\ v >= 2 /\ a \in 0 .. v - 1 /\ Lines = 0 .. v - 1
  BY PoolFacts DEF Lines
<1>2. After(a) = IF a = v - 1 THEN 0 ELSE a + 1
  BY AfterFacts
<1> HIDE DEF v
<1>3. /\ Before(a) = IF a = 0 THEN v - 1 ELSE a - 1
      /\ Before(After(a)) = IF After(a) = 0 THEN v - 1 ELSE After(a) - 1
  BY DEF Before, v
<1>4. QED
  BY <1>1, <1>2, <1>3

LEMMA NextScanlineFacts ==
  ASSUME NEW at \in Scanlines
  PROVE  (at + 1) % MODE_V_TOTAL_LINES
           = IF at = MODE_V_TOTAL_LINES - 1 THEN 0 ELSE at + 1
<1> DEFINE t == MODE_V_TOTAL_LINES
<1>1. t \in Nat /\ t >= 3 /\ at \in 0 .. t - 1
  BY Timing DEF Scanlines
<1> HIDE DEF t
<1>2. t % t = 0
  BY <1>1
<1>3. at # t - 1 => (at + 1) % t = at + 1
  BY <1>1, ModSmall
<1>4. at = t - 1 => (at + 1) % t = 0
  BY <1>1, <1>2
<1>5. QED
  BY <1>3, <1>4 DEF t

(* While the pixels of a line are sent, the handler is about to request the
   line after it, and has not yet given the other channel pixels. *)
LEMMA StreamedLine ==
  ASSUME TypeOK, ChannelsInStep, NEW n \in Lines, Streaming(n)
  PROVE  /\ After(n) = Nxt
         /\ \A l : ~(intr = {} /\ Holds(Idle, l))
<1> DEFINE m == R!Following(n + FirstActive)
<1>1. /\ FirstActive \in Nat /\ FirstActive >= 2
      /\ MODE_V_TOTAL_LINES = FirstActive + MODE_V_ACTIVE_LINES
      /\ MODE_V_ACTIVE_LINES \in Nat /\ n \in 0 .. MODE_V_ACTIVE_LINES - 1
  BY Timing, PoolFacts DEF Lines
<1>2. n + FirstActive \in Scanlines
  BY <1>1 DEF Scanlines
<1>3. m = IF n = MODE_V_ACTIVE_LINES - 1 THEN 0 ELSE n + FirstActive + 1
  <2>1. m = IF n + FirstActive = MODE_V_TOTAL_LINES - 1
            THEN 0 ELSE n + FirstActive + 1
    BY <1>2, NextScanlineFacts, SameFrame DEF R!Following
  <2> HIDE DEF m
  <2>2. QED
    BY <1>1, <2>1
<1>4. R!Successor(chan[running]) = R!Opening(m)
  BY DEF Streaming, R!Successor, Segment
<1> HIDE DEF m
<1>5. /\ R!Opening(m).kind # "pixels" /\ R!Opening(m).at = m
      /\ Due.at = v_scanline
  BY SameFrame DEF R!Opening, Due, Segment
<1>6. \A l : ~(intr = {} /\ Holds(Idle, l))
  <2> SUFFICES ASSUME NEW l, intr = {}, Holds(Idle, l) PROVE FALSE
    OBVIOUS
  <2>1. chan[Idle] = R!Opening(m)
    BY <1>4 DEF ChannelsInStep
  <2>2. R!Opening(m).kind = "pixels"
    BY <2>1 DEF Holds, Segment
  <2>3. QED
    BY <2>2, <1>5
<1>7. v_scanline = IF m = 0 /\ intr = {} THEN 1 ELSE m
  <2>1. CASE intr = {}
    <3>1. Due = R!Successor(R!Opening(m))
      BY <1>4, <2>1 DEF ChannelsInStep
    <3>2. CASE m = 0
      <4>1. R!Opening(m).kind = "vsync_off"
        BY <1>1, <3>2, SameFrame, ModeAssumption
        DEF R!Opening, R!VsyncLines, Segment
      <4>2. R!Successor(R!Opening(m)) = R!Opening(R!Following(m))
        BY <1>5, <4>1 DEF R!Successor
      <4>3. R!Opening(R!Following(m)).at = R!Following(m)
        BY SameFrame DEF R!Opening, Segment
      <4>4. 0 \in Scanlines /\ 0 # MODE_V_TOTAL_LINES - 1
        BY Timing DEF Scanlines
      <4>5. R!Following(m) = 1
        <5>1. (0 + 1) % MODE_V_TOTAL_LINES = 1
          BY Timing, ModSmall
        <5>2. R!Following(m) = (0 + 1) % MODE_V_TOTAL_LINES
          BY <3>2, SameFrame DEF R!Following
        <5>3. QED
          BY <5>1, <5>2
      <4>6. QED
        BY <1>5, <2>1, <3>1, <3>2, <4>2, <4>3, <4>5
    <3>3. CASE m # 0
      <4>1. m \in Int /\ ~(m < FirstActive) /\ m \notin R!VsyncLines
        BY <1>1, <1>3, <3>3, ModeAssumption DEF R!VsyncLines, FirstActive
      <4>2. R!Opening(m).kind = "commands"
        BY <4>1, SameFrame DEF R!Opening, Segment
      <4>3. R!Successor(R!Opening(m)).at = m
        BY <1>5, <4>2, SameFrame DEF R!Successor, Segment
      <4>4. QED
        BY <1>5, <3>1, <3>3, <4>3
    <3>4. QED
      BY <3>2, <3>3
  <2>2. CASE intr # {}
    BY <1>4, <1>5, <2>2 DEF ChannelsInStep
  <2>3. QED
    BY <2>1, <2>2
<1>8. After(n) = Nxt
  <2>1. After(n) = IF n = MODE_V_ACTIVE_LINES - 1 THEN 0 ELSE n + 1
    BY AfterFacts
  <2>2. CASE n = MODE_V_ACTIVE_LINES - 1
    <3>1. v_scanline \in {0, 1}
      BY <1>3, <1>7, <2>2
    <3>2. QED
      BY <1>1, <2>1, <2>2, <3>1 DEF Nxt
  <2>3. CASE n # MODE_V_ACTIVE_LINES - 1
    <3>1. v_scanline = n + FirstActive + 1
      BY <1>1, <1>3, <1>7, <2>3
    <3>2. QED
      BY <1>1, <2>1, <2>3, <3>1 DEF Nxt
  <2>4. QED
    BY <2>2, <2>3
<1>9. QED
  BY <1>6, <1>8

(* Every line sent is then the line that was drawn for it. *)
LEMMA SentAsDrawn ==
  ASSUME IInv
  PROVE  LineIsItsOwn
<1> SUFFICES ASSUME NEW n \in Lines, Streaming(n) PROVE Good(n)
  BY DEF LineIsItsOwn, Good
<1>1. After(n) = Nxt /\ ~TwoBehind
  BY StreamedLine DEF IInv, TwoBehind, Unsent
<1>2. CASE UpToDate
  <2>1. running \in Channels /\ Holds(running, n)
    BY DEF IInv, TypeOK, Streaming, Holds
  <2>2. QED
    BY <1>1, <1>2, <2>1 DEF UpToDate
<1>3. CASE OneBehind
  <2>1. PICK a \in Lines : After(a) = Nxt /\ Ahead(a)
    BY <1>3 DEF OneBehind, Ready
  <2>2. a = n /\ a % MODE_V_ACTIVE_LINES = a /\ a \in Nat
    BY <1>1, <2>1, AfterFacts, PoolFacts DEF Lines
  <2>3. 0 \in 0 .. LINE_BUFFER_POOL_COUNT - 2 /\ a + 0 = a
    BY <2>2, PoolFacts
  <2>4. QED
    BY <2>1, <2>2, <2>3 DEF Ahead
<1>4. QED
  BY <1>1, <1>2, <1>3 DEF IInv, TimelyInv

(* A buffer that is overwritten is none of those ahead of the beam. *)
LEMMA AheadApart ==
  ASSUME NEW a \in Lines, NEW j \in 0 .. LINE_BUFFER_POOL_COUNT - 2
  PROVE  /\ (a + j) % MODE_V_ACTIVE_LINES \in Lines
         /\ ScanBuffer((a + j) % MODE_V_ACTIVE_LINES) \in Buffers
         /\ ScanBuffer((a + j) % MODE_V_ACTIVE_LINES) # DrawBuffer(a)
<1>1. /\ a \in Nat /\ j \in Nat /\ a + j \in Nat
      /\ a + LINE_BUFFER_POOL_COUNT - 1 \in Nat
      /\ a + j < a + LINE_BUFFER_POOL_COUNT - 1
      /\ (a + LINE_BUFFER_POOL_COUNT - 1) - (a + j) < LINE_BUFFER_POOL_COUNT
  BY PoolFacts DEF Lines
<1>2. ScanBuffer((a + j) % MODE_V_ACTIVE_LINES) # DrawBuffer(a)
  BY <1>1, DistinctBuffers DEF DrawBuffer, LineAhead, ScanBuffer
<1>3. (a + j) % MODE_V_ACTIVE_LINES \in 0 .. MODE_V_ACTIVE_LINES - 1
  BY <1>1, ModInRange, ModeAssumption
<1>4. (a + j) % MODE_V_ACTIVE_LINES \in Nat
  BY <1>3, PoolFacts
<1>5. ScanBuffer((a + j) % MODE_V_ACTIVE_LINES) \in Buffers
  BY <1>4, ModInRange, PoolAssumption DEF ScanBuffer, Buffers
<1>6. QED
  BY <1>2, <1>3, <1>5 DEF Lines

LEMMA TearKeepsAhead ==
  ASSUME TypeOK, NEW a \in Lines, Ahead(a), NEW x,
         line_buffer_pool' = [line_buffer_pool EXCEPT ![DrawBuffer(a)] = x]
  PROVE  Ahead(a)'
<1> SUFFICES ASSUME NEW j \in 0 .. LINE_BUFFER_POOL_COUNT - 2
             PROVE  Good((a + j) % MODE_V_ACTIVE_LINES)'
  BY DEF Ahead
<1> DEFINE l == (a + j) % MODE_V_ACTIVE_LINES
<1>1. ScanBuffer(l) \in Buffers /\ ScanBuffer(l) # DrawBuffer(a)
  BY AheadApart
<1>2. Good(l)
  BY DEF Ahead
<1> HIDE DEF l
<1>3. line_buffer_pool'[ScanBuffer(l)] = line_buffer_pool[ScanBuffer(l)]
  BY <1>1 DEF TypeOK
<1>4. Good(l)'
  BY <1>2, <1>3 DEF Good
<1>5. QED
  BY <1>4 DEF l

(* When a line has been drawn, it is the last of those ahead of the next. *)
LEMMA DrawAdvances ==
  ASSUME TypeOK, NEW a \in Lines, Ahead(a),
         line_buffer_pool' =
           [line_buffer_pool EXCEPT ![DrawBuffer(a)] = LineAhead(a)]
  PROVE  Ahead(After(a))' /\ Good(a)'
<1>1. Ahead(a)'
  BY TearKeepsAhead
<1>2. Good(a)'
  <2>1. 0 \in 0 .. LINE_BUFFER_POOL_COUNT - 2 /\ a + 0 = a
    BY PoolFacts DEF Lines
  <2>2. a % MODE_V_ACTIVE_LINES = a
    BY AfterFacts
  <2>3. QED
    BY <1>1, <2>1, <2>2 DEF Ahead
<1>3. ASSUME NEW j \in 0 .. LINE_BUFFER_POOL_COUNT - 2
      PROVE  Good((After(a) + j) % MODE_V_ACTIVE_LINES)'
  <2>1. j \in Nat /\ a \in Nat
    BY PoolFacts DEF Lines
  <2>2. (After(a) + j) % MODE_V_ACTIVE_LINES = (a + (j + 1)) % MODE_V_ACTIVE_LINES
    BY <2>1, AfterFacts
  <2>3. CASE j + 1 \in 0 .. LINE_BUFFER_POOL_COUNT - 2
    BY <1>1, <2>2, <2>3 DEF Ahead
  <2>4. CASE j + 1 \notin 0 .. LINE_BUFFER_POOL_COUNT - 2
    <3>1. a + (j + 1) = a + LINE_BUFFER_POOL_COUNT - 1
      BY <2>1, <2>4, PoolFacts
    <3>2. (After(a) + j) % MODE_V_ACTIVE_LINES = LineAhead(a)
      BY <2>2, <3>1 DEF LineAhead
    <3>3. ScanBuffer(LineAhead(a)) = DrawBuffer(a) /\ DrawBuffer(a) \in Buffers
      BY DrawType DEF ScanBuffer, DrawBuffer
    <3>4. line_buffer_pool'[ScanBuffer(LineAhead(a))] = LineAhead(a)
      BY <3>3 DEF TypeOK
    <3>5. QED
      BY <3>2, <3>4 DEF Good
  <2>5. QED
    BY <2>3, <2>4
<1>4. QED
  BY <1>2, <1>3 DEF Ahead, After

-----------------------------------------------------------------------------
LEMMA StartTimely ==
  ASSUME Init
  PROVE  TimelyInv
<1>1. /\ job.at = "wait" /\ line_request_queue = << >>
      /\ \A c \in Channels : chan[c].kind = "vsync_off"
      /\ \A i \in Buffers : line_buffer_pool[i] = Blank
  BY DEF Init, Segment
<1>2. Nxt = 0
  BY Timing DEF Init, Nxt
<1>3. Ahead(0)
  <2> SUFFICES ASSUME NEW j \in 0 .. LINE_BUFFER_POOL_COUNT - 2
               PROVE  Good((0 + j) % MODE_V_ACTIVE_LINES)
    BY DEF Ahead
  <2>1. /\ j \in Nat /\ j < MODE_V_ACTIVE_LINES /\ j < LINE_BUFFER_POOL_COUNT - 1
        /\ j < LINE_BUFFER_POOL_COUNT
    BY PoolFacts
  <2>2. (0 + j) % MODE_V_ACTIVE_LINES = j /\ j % LINE_BUFFER_POOL_COUNT = j
    BY <2>1, ModSmall, PoolFacts
  <2>3. ScanBuffer(j) \in Buffers
    BY <2>1, <2>2, PoolFacts DEF ScanBuffer, Buffers
  <2>4. QED
    BY <1>1, <2>1, <2>2, <2>3 DEF Good
<1>4. \A c \in Channels : \A l : ~Holds(c, l)
  BY <1>1 DEF Holds, Segment
<1>5. PinAt(0)
  <2>1. ~Level(Before(0))
    BY SyncAssumption, PoolFacts DEF Level, Before
  <2>2. QED
    BY <1>1, <2>1 DEF PinAt, Init
<1>6. QED
  BY <1>1, <1>2, <1>3, <1>4, <1>5 DEF TimelyInv, UpToDate, Nothing, Ready

(* When the pixels of a line start, no other request is left. *)
LEMMA NoneLeft ==
  ASSUME IInv, TransferDone, DrawingMeetsDeadline, NEW b \in Lines, Unsent(b)
  PROVE  CaughtUp(b)
<1>1. running' = Idle /\ Idle # running
  BY IdleIsOther DEF TransferDone, Idle, IInv, TypeOK
<1>2. UNCHANGED <<chan, line_request_queue, job>>
  BY DEF TransferDone, drawVars
<1>3. Streaming(b)'
  BY <1>1, <1>2 DEF Streaming, Unsent, Holds
<1>4. CaughtUp(b)'
  BY <1>1, <1>3 DEF DrawingMeetsDeadline
<1>5. QED
  BY <1>2, <1>4 DEF CaughtUp, Outstanding

(* While a transfer ends, the drawing is at most one line behind: were it two,
   the pixels of the second would start before the first has been drawn. *)
LEMMA TransferTimely ==
  ASSUME IInv, TransferDone, DrawingMeetsDeadline
  PROVE  TimelyInv'
<1>1. /\ UNCHANGED <<chan, v_scanline, line_request_queue, job>>
      /\ UNCHANGED <<line_buffer_pool, vsync_pin>>
  BY DEF TransferDone, handlerVars, drawVars
<1>2. \A a : Ready(a) => Ready(a)'
  BY <1>1 DEF Ready, Ahead, Good, PinAt
<1>3. UpToDate => UpToDate'
  BY <1>1, <1>2 DEF UpToDate, Nothing, Ready, Ahead, PinAt, Good, Holds, Nxt, After
<1>4. OneBehind => OneBehind'
  <2> SUFFICES ASSUME NEW a \in Lines, One(a), After(a) = Nxt, Ready(a),
                      job.at = "sync" => Unsent(a)
               PROVE  OneBehind'
    BY DEF OneBehind
  <2>1. job.at # "sync"
    <3> SUFFICES ASSUME job.at = "sync" PROVE FALSE
      OBVIOUS
    <3>1. CaughtUp(a)
      BY NoneLeft
    <3>2. job.line = Before(a)
      BY DEF Ready, PinAt
    <3>3. job.line \in Outstanding
      BY DEF Outstanding
    <3>4. QED
      BY <3>1, <3>2, <3>3, BeforeFacts DEF CaughtUp
  <2>2. Ready(a)'
    BY <1>2
  <2>3. One(a)' /\ (After(a) = Nxt)' /\ job'.at # "sync"
    BY <1>1, <2>1 DEF One, Drawing, After, Nxt
  <2>4. QED
    BY <2>2, <2>3 DEF OneBehind
<1>5. ~TwoBehind
  <2> SUFFICES ASSUME NEW a \in Lines, NEW b \in Lines,
                      Two(a, b), After(a) = b, Unsent(b)
               PROVE  FALSE
    BY DEF TwoBehind
  <2>1. CaughtUp(b)
    BY NoneLeft
  <2>2. a \in Outstanding
    <3>1. CASE job.at # "draw" /\ line_request_queue = <<a, b>>
      <4>1. line_request_queue[1] = a /\ 1 \in 1 .. Len(line_request_queue)
        BY <3>1
      <4>2. QED
        BY <4>1 DEF Outstanding
    <3>2. CASE Drawing(a)
      BY <3>2 DEF Outstanding, Drawing
    <3>3. QED
      BY <3>1, <3>2 DEF Two
  <2>3. a = b
    BY <2>1, <2>2 DEF CaughtUp
  <2>4. QED
    BY <2>3, AfterFacts
<1>6. QED
  BY <1>3, <1>4, <1>5 DEF IInv, TimelyInv

(* Posting pixels requests the line that was next; posting anything else
   requests nothing, and the next line remains the next. *)
LEMMA Requested ==
  ASSUME IInv, dma_irq_handler, PostPixels, NEW x, x = Nxt
  PROVE  /\ x \in Lines /\ After(x) = Nxt' /\ Holds(Idle, x)'
         /\ line_request_queue' =
              TryAdd(line_request_queue, LINE_BUFFER_POOL_COUNT, x)
<1>1. /\ v_scanline \in Scanlines /\ v_scanline >= FirstActive
      /\ x = v_scanline - FirstActive
  BY Timing DEF IInv, TypeOK, PostPixels, Scanlines, Nxt
<1>2. x \in Lines
  BY <1>1, Timing, PoolFacts DEF Scanlines, Lines
<1>3. v_scanline' = IF v_scanline = MODE_V_TOTAL_LINES - 1
                    THEN 0 ELSE v_scanline + 1
  BY <1>1, NextScanlineFacts DEF PostPixels, NextScanline
<1>4. After(x) = Nxt'
  <2>1. After(x) = IF x = MODE_V_ACTIVE_LINES - 1 THEN 0 ELSE x + 1
    BY <1>2, AfterFacts
  <2>2. Nxt' = IF v_scanline' < FirstActive THEN 0 ELSE v_scanline' - FirstActive
    BY DEF Nxt
  <2>3. v_scanline \in Int /\ FirstActive \in Int /\ FirstActive >= 2
        /\ MODE_V_TOTAL_LINES = FirstActive + MODE_V_ACTIVE_LINES
        /\ MODE_V_ACTIVE_LINES \in Int
    BY <1>1, Timing, PoolFacts DEF Scanlines
  <2> HIDE DEF Nxt
  <2>4. QED
    BY <1>1, <1>3, <2>1, <2>2, <2>3
<1>5. Holds(Idle, x)'
  <2>1. Finished = Idle /\ Idle' = Idle /\ Idle \in Channels
    BY IdleIsOther DEF IInv, TypeOK, ChannelsInStep, dma_irq_handler, Idle
  <2>2. chan' = [chan EXCEPT ![Idle] = Segment("pixels", v_scanline)]
    BY <2>1 DEF PostPixels, Post
  <2>3. chan'[Idle'] = Segment("pixels", v_scanline)
    BY <2>1, <2>2 DEF IInv, TypeOK
  <2>4. x + FirstActive = v_scanline
    BY <1>1, Timing DEF Scanlines
  <2>5. QED
    BY <2>3, <2>4 DEF Holds
<1>6. QED
  BY <1>1, <1>2, <1>4, <1>5 DEF PostPixels, RequestLine

LEMMA NotRequested ==
  ASSUME IInv, PostBlanking \/ PostCommands
  PROVE  /\ Nxt' = Nxt /\ line_request_queue' = line_request_queue
         /\ \A c \in Channels : \A l : Holds(c, l)' => Holds(c, l)
<1>1. Nxt' = Nxt
  <2>1. CASE PostBlanking
    <3>1. v_scanline \in Scanlines /\ v_scanline < FirstActive
      BY <2>1 DEF PostBlanking, IInv, TypeOK
    <3>2. v_scanline' = v_scanline + 1
      <4>1. v_scanline # MODE_V_TOTAL_LINES - 1
        BY <3>1, Timing, PoolFacts DEF Scanlines
      <4>2. QED
        BY <2>1, <3>1, <4>1, NextScanlineFacts DEF PostBlanking, NextScanline
    <3>3. QED
      BY <3>1, <3>2, Timing DEF Nxt, Scanlines
  <2>2. CASE PostCommands
    BY <2>2 DEF PostCommands, Nxt
  <2>3. QED
    BY <2>1, <2>2
<1>2. line_request_queue' = line_request_queue
  BY DEF PostBlanking, PostCommands
<1>3. ASSUME NEW c \in Channels, NEW l, Holds(c, l)'
      PROVE  Holds(c, l)
  <2>1. PICK kind : kind # "pixels" /\ Post(kind)
    BY DEF PostBlanking, PostCommands
  <2>2. chan' = [chan EXCEPT ![Finished] = Segment(kind, v_scanline)]
    BY <2>1 DEF Post
  <2>3. chan'[c].kind = "pixels"
    BY <1>3 DEF Holds, Segment
  <2>4. c # Finished
    BY <2>1, <2>2, <2>3 DEF IInv, TypeOK, Segment
  <2>5. chan'[c] = chan[c]
    BY <2>2, <2>4 DEF IInv, TypeOK
  <2>6. QED
    BY <1>3, <2>5 DEF Holds
<1>4. QED
  BY <1>1, <1>2, <1>3

LEMMA AppendToOne ==
  ASSUME NEW S, NEW a \in S, NEW x \in S
  PROVE  Append(<<a>>, x) = <<a, x>>
<1> DEFINE s == Append(<<a>>, x)
           t == <<a, x>>
<1>1. <<a>> \in Seq(S) /\ Len(<<a>>) = 1 /\ <<a>>[1] = a
  OBVIOUS
<1>2. t \in Seq(S) /\ Len(t) = 2 /\ t[1] = a /\ t[2] = x
  OBVIOUS
<1>3. s \in Seq(S) /\ Len(s) = 2 /\ s[1] = a /\ s[2] = x
  BY <1>1, AppendProperties
<1> HIDE DEF s, t
<1>4. Len(s) = Len(t) /\ \A i \in 1 .. Len(s) : s[i] = t[i]
  BY <1>2, <1>3
<1>5. s = t
  BY <1>2, <1>3, <1>4, SeqEqual
<1>6. QED
  BY <1>5 DEF s, t

LEMMA HandlerTimely ==
  ASSUME IInv, dma_irq_handler
  PROVE  TimelyInv'
<1>1. UNCHANGED <<job, line_buffer_pool, vsync_pin>> /\ intr # {}
  BY DEF dma_irq_handler, drawVars
<1>2. \A l : Ready(l) => Ready(l)'
  BY <1>1 DEF Ready, Ahead, Good, PinAt
<1>3. ~TwoBehind /\ \A l : ~Unsent(l)
  BY <1>1 DEF TwoBehind, Unsent
<1>4. CASE PostPixels
  <2>1. PICK x : x = Nxt
    OBVIOUS
  <2>2. /\ x \in Lines /\ After(x) = Nxt' /\ Holds(Idle, x)'
        /\ line_request_queue' =
             TryAdd(line_request_queue, LINE_BUFFER_POOL_COUNT, x)
    BY <1>4, <2>1, Requested
  <2>3. intr' = {}
    BY DEF dma_irq_handler, IInv, ChannelsInStep
  <2>4. CASE UpToDate
    <3>1. line_request_queue = << >> /\ job.at # "draw" /\ Ready(x)
      BY <2>1, <2>4 DEF UpToDate, Nothing
    <3>2. line_request_queue' = <<x>>
      BY <2>2, <3>1, PoolFacts DEF TryAdd
    <3>3. OneBehind'
      BY <1>1, <1>2, <2>2, <2>3, <3>1, <3>2 DEF OneBehind, One, Unsent, After
    <3>4. QED
      BY <3>3 DEF TimelyInv
  <2>5. CASE OneBehind
    <3>1. PICK a \in Lines :
            One(a) /\ After(a) = Nxt /\ Ready(a) /\ job.at # "sync"
      BY <1>3, <2>5 DEF OneBehind
    <3>2. Two(a, x)'
      <4>1. CASE job.at # "draw" /\ line_request_queue = <<a>>
        <5>1. line_request_queue' = <<a, x>>
          <6>1. Len(<<a>>) = 1
            OBVIOUS
          <6>2. Append(<<a>>, x) = <<a, x>>
            BY <2>2, AppendToOne
          <6>3. QED
            BY <2>2, <4>1, <6>1, <6>2, PoolFacts DEF TryAdd
        <5>2. QED
          BY <1>1, <4>1, <5>1 DEF Two
      <4>2. CASE Drawing(a) /\ line_request_queue = << >>
        <5>1. line_request_queue' = <<x>>
          BY <2>2, <4>2, PoolFacts DEF TryAdd
        <5>2. QED
          BY <1>1, <4>2, <5>1 DEF Two, Drawing
      <4>3. QED
        BY <3>1, <4>1, <4>2 DEF One
    <3>3. TwoBehind'
      BY <1>1, <1>2, <2>1, <2>2, <2>3, <3>1, <3>2 DEF TwoBehind, Unsent, After
    <3>4. QED
      BY <3>3 DEF TimelyInv
  <2>6. QED
    BY <1>3, <2>4, <2>5 DEF IInv, TimelyInv
<1>5. CASE PostBlanking \/ PostCommands
  <2>1. /\ Nxt' = Nxt /\ line_request_queue' = line_request_queue
        /\ \A c \in Channels : \A l : Holds(c, l)' => Holds(c, l)
    BY <1>5, NotRequested
  <2>2. UpToDate => UpToDate'
    <3>1. ASSUME UpToDate PROVE Ready(Nxt)'
      <4>1. PICK x : x = Nxt
        OBVIOUS
      <4>2. Ready(x)'
        BY <1>2, <3>1, <4>1 DEF UpToDate
      <4>3. QED
        BY <2>1, <4>1, <4>2 DEF Ready, Ahead, PinAt
    <3>2. QED
      BY <1>1, <2>1, <3>1 DEF UpToDate, Nothing, Good, After
  <2>3. OneBehind => OneBehind'
    BY <1>1, <1>2, <1>3, <2>1 DEF OneBehind, One, Drawing, After
  <2>4. QED
    BY <1>3, <2>2, <2>3 DEF IInv, TimelyInv
<1>6. QED
  BY <1>4, <1>5 DEF dma_irq_handler

LEMMA NxtType ==
  ASSUME TypeOK
  PROVE  Nxt \in Lines
  BY Timing, PoolFacts DEF TypeOK, Scanlines, Lines, Nxt

(* Driving frame sync after a line gives it the level of that line. *)
LEMMA PinFollows ==
  ASSUME NEW l \in Lines, NEW pin, NEW next,
         pin <=> Level(Before(l)),
         next = IF l = VSYNC_ON THEN FALSE ELSE IF l = 0 THEN TRUE ELSE pin
  PROVE  next <=> Level(l)
<1>1. l \in Int /\ VSYNC_ON \in Int /\ VSYNC_ON >= 1 /\ l >= 0
  BY SyncAssumption, PoolFacts DEF Lines
<1>2. CASE l = VSYNC_ON
  BY <1>1, <1>2 DEF Level
<1>3. CASE l # VSYNC_ON /\ l = 0
  BY <1>1, <1>3 DEF Level
<1>4. CASE l # VSYNC_ON /\ l # 0
  <2>1. Level(Before(l)) <=> Level(l)
    BY <1>1, <1>4 DEF Level, Before
  <2>2. QED
    BY <1>4, <2>1
<1>5. QED
  BY <1>2, <1>3, <1>4

LEMMA DrawTimely ==
  ASSUME IInv, Draw
  PROVE  TimelyInv'
<1>1. UNCHANGED <<chan, v_scanline, intr, running>>
  BY DEF Draw, TakeRequest, FinishDrawing, DriveVsync, dmaVars, handlerVars
<1>2. Nxt' = Nxt /\ \A c, l : Holds(c, l)' <=> Holds(c, l)
  BY <1>1 DEF Nxt, Holds
<1>3. Idle' = Idle
  BY <1>1 DEF Idle
<1>4. \A l : Unsent(l)' <=> Unsent(l)
  BY <1>1, <1>3 DEF Unsent, Holds
<1>5. CASE TakeRequest
  <2>1. ASSUME NEW a \in Lines, Ready(a), Head(line_request_queue) = a
        PROVE  Drawing(a)' /\ Ready(a)' /\ job'.at # "sync"
    <3>1. line_buffer_pool' = [line_buffer_pool EXCEPT ![DrawBuffer(a)] = Torn]
      BY <1>5, <2>1 DEF TakeRequest
    <3>2. Drawing(a)' /\ job.at = "wait" /\ job'.at = "draw"
      BY <1>5, <2>1 DEF TakeRequest, Drawing
    <3>3. Ahead(a)'
      BY <2>1, <3>1, TearKeepsAhead DEF IInv, Ready
    <3>4. PinAt(a)'
      BY <1>5, <2>1, <3>2 DEF TakeRequest, Ready, PinAt
    <3>5. QED
      BY <3>2, <3>3, <3>4 DEF Ready
  <2>2. ~UpToDate
    BY <1>5 DEF TakeRequest, UpToDate, Nothing
  <2>3. CASE OneBehind
    <3>1. PICK a \in Lines : One(a) /\ After(a) = Nxt /\ Ready(a)
      BY <2>3 DEF OneBehind
    <3>2. line_request_queue = <<a>>
      BY <1>5, <3>1 DEF One, Drawing, TakeRequest
    <3>3. Head(line_request_queue) = a /\ line_request_queue' = << >>
      BY <1>5, <3>2 DEF TakeRequest
    <3>4. One(a)' /\ Ready(a)' /\ job'.at # "sync"
      BY <2>1, <3>1, <3>3 DEF One
    <3>5. OneBehind'
      BY <1>2, <3>1, <3>4 DEF OneBehind, After
    <3>6. QED
      BY <3>5 DEF TimelyInv
  <2>4. CASE TwoBehind
    <3>1. PICK a \in Lines, b \in Lines :
            /\ Two(a, b) /\ After(a) = b /\ After(b) = Nxt /\ Ready(a)
            /\ Unsent(b)
      BY <2>4 DEF TwoBehind
    <3>2. line_request_queue = <<a, b>>
      BY <1>5, <3>1 DEF Two, Drawing, TakeRequest
    <3>3. Head(<<a, b>>) = a /\ Tail(<<a, b>>) = <<b>>
      OBVIOUS
    <3>4. Head(line_request_queue) = a /\ line_request_queue' = <<b>>
      BY <1>5, <3>2, <3>3 DEF TakeRequest
    <3>5. Two(a, b)' /\ Ready(a)' /\ job'.at # "sync"
      BY <2>1, <3>1, <3>4 DEF Two
    <3>6. TwoBehind'
      BY <1>2, <1>4, <3>1, <3>5 DEF TwoBehind, After
    <3>7. QED
      BY <3>6 DEF TimelyInv
  <2>5. QED
    BY <2>2, <2>3, <2>4 DEF IInv, TimelyInv
<1>6. CASE FinishDrawing
  <2>1. /\ job'.at = "sync" /\ job'.line = job.line
        /\ UNCHANGED <<line_request_queue, vsync_pin>>
    BY <1>6 DEF FinishDrawing, IInv, TypeOK
  <2>2. ASSUME NEW a \in Lines, Drawing(a), Ready(a)
        PROVE  Ready(After(a))' /\ Good(a)'
    <3>1. line_buffer_pool' =
            [line_buffer_pool EXCEPT ![DrawBuffer(a)] = LineAhead(a)]
      BY <1>6, <2>2 DEF FinishDrawing, Drawing
    <3>2. Ahead(After(a))' /\ Good(a)'
      BY <2>2, <3>1, DrawAdvances DEF IInv, Ready
    <3>3. PinAt(After(a))'
      <4>1. Before(After(a)) = a
        BY BeforeFacts
      <4>2. job.line = a /\ job.at = "draw" /\ (vsync_pin <=> Level(Before(a)))
        BY <2>2 DEF Drawing, Ready, PinAt
      <4>3. QED
        BY <2>1, <4>1, <4>2 DEF PinAt, After, Before, Level
    <3>4. QED
      BY <3>2, <3>3 DEF Ready
  <2>3. ~UpToDate
    BY <1>6 DEF FinishDrawing, UpToDate, Nothing
  <2>4. CASE OneBehind
    <3>1. PICK a \in Lines : One(a) /\ After(a) = Nxt /\ Ready(a)
      BY <2>4 DEF OneBehind
    <3>2. Drawing(a) /\ line_request_queue = << >>
      BY <1>6, <3>1 DEF One, FinishDrawing
    <3>3. Ready(After(a))' /\ Good(a)'
      BY <2>2, <3>1, <3>2
    <3>4. Ready(Nxt)'
      BY <1>2, <3>1, <3>3 DEF Ready, Ahead, PinAt, After
    <3>5. \A l \in Lines : After(l) = Nxt => l = a
      BY <3>1, AfterFacts
    <3>6. UpToDate'
      BY <1>2, <2>1, <3>2, <3>3, <3>4, <3>5 DEF UpToDate, Nothing, After
    <3>7. QED
      BY <3>6 DEF TimelyInv
  <2>5. CASE TwoBehind
    <3>1. PICK a \in Lines, b \in Lines :
            /\ Two(a, b) /\ After(a) = b /\ After(b) = Nxt /\ Ready(a)
            /\ Unsent(b)
      BY <2>5 DEF TwoBehind
    <3>2. Drawing(a) /\ line_request_queue = <<b>>
      BY <1>6, <3>1 DEF Two, FinishDrawing
    <3>3. Ready(b)'
      BY <2>2, <3>1, <3>2
    <3>4. One(b)' /\ Unsent(b)'
      BY <1>4, <2>1, <3>1, <3>2 DEF One
    <3>5. OneBehind'
      BY <1>2, <3>1, <3>3, <3>4 DEF OneBehind, After
    <3>6. QED
      BY <3>5 DEF TimelyInv
  <2>6. QED
    BY <2>3, <2>4, <2>5 DEF IInv, TimelyInv
<1>7. CASE DriveVsync
  <2>1. /\ job.at = "sync" /\ job'.at = "wait"
        /\ UNCHANGED <<line_request_queue, line_buffer_pool>>
    BY <1>7 DEF DriveVsync, IInv, TypeOK
  <2>2. \A l : (Good(l)' <=> Good(l)) /\ (Ahead(l)' <=> Ahead(l))
    BY <2>1 DEF Good, Ahead
  <2>3. ASSUME NEW a \in Lines, PinAt(a)
        PROVE  PinAt(a)'
    <3>1. job.line = Before(a) /\ (vsync_pin <=> Level(Before(Before(a))))
      BY <2>1, <2>3 DEF PinAt
    <3>2. vsync_pin' = IF Before(a) = VSYNC_ON THEN FALSE
                       ELSE IF Before(a) = 0 THEN TRUE ELSE vsync_pin
      BY <1>7, <3>1 DEF DriveVsync, VSYNC_OFF
    <3>3. Before(a) \in Lines
      BY BeforeFacts
    <3>4. vsync_pin' <=> Level(Before(a))
      BY <3>1, <3>2, <3>3, PinFollows
    <3>5. QED
      BY <2>1, <3>4 DEF PinAt, Before, Level
  <2>4. UpToDate => UpToDate'
    <3> SUFFICES ASSUME UpToDate PROVE UpToDate'
      OBVIOUS
    <3>1. Ready(Nxt)'
      <4>1. PICK x : x = Nxt
        OBVIOUS
      <4>2. x \in Lines
        BY <4>1, NxtType DEF IInv
      <4>3. Ready(x)'
        BY <2>2, <2>3, <4>1, <4>2 DEF UpToDate, Ready
      <4>4. QED
        BY <1>2, <4>1, <4>3 DEF Ready, Ahead, PinAt
    <3>2. QED
      BY <1>2, <2>1, <2>2, <3>1 DEF UpToDate, Nothing, After
  <2>5. OneBehind => OneBehind'
    BY <1>2, <2>1, <2>2, <2>3 DEF OneBehind, One, Drawing, Ready, After
  <2>6. ~TwoBehind
    BY <2>1 DEF TwoBehind
  <2>7. QED
    BY <2>4, <2>5, <2>6 DEF IInv, TimelyInv
<1>8. QED
  BY <1>5, <1>6, <1>7 DEF Draw

LEMMA TimelyStep ==
  ASSUME IInv, [Next /\ DrawingMeetsDeadline]_vars
  PROVE  TimelyInv'
<1>1. CASE UNCHANGED vars
  <2>1. /\ UNCHANGED <<chan, running, intr, v_scanline, line_request_queue>>
        /\ UNCHANGED <<job, line_buffer_pool, vsync_pin>>
    BY <1>1 DEF vars, dmaVars, handlerVars, drawVars
  <2>2. /\ \A l : Ready(l) => Ready(l)'
        /\ \A l : Unsent(l)' <=> Unsent(l)
    BY <2>1 DEF Ready, Ahead, Good, PinAt, Unsent, Holds, Idle
  <2>3. UpToDate => UpToDate'
    BY <2>1 DEF UpToDate, Nothing, Ready, Ahead, PinAt, Good, Holds, Nxt, After
  <2>4. OneBehind => OneBehind'
    BY <2>1, <2>2 DEF OneBehind, One, Drawing, Nxt, After
  <2>5. TwoBehind => TwoBehind'
    BY <2>1, <2>2 DEF TwoBehind, Two, Drawing, Nxt, After
  <2>6. QED
    BY <2>3, <2>4, <2>5 DEF IInv, TimelyInv
<1>2. CASE Next /\ DrawingMeetsDeadline
  BY <1>2, TransferTimely, HandlerTimely, DrawTimely DEF Next
<1>3. QED
  BY <1>1, <1>2

(* How far the drawing is behind, at most: what all below rests on. *)
LEMMA Timely == TimelySpec => [](TypeOK /\ ChannelsInStep /\ TimelyInv)
<1>1. TimelySpec => Spec
  BY PTL DEF TimelySpec, Spec
<1>2. Init => TimelyInv
  BY StartTimely
<1>3. TypeOK /\ ChannelsInStep /\ TimelyInv /\ [Next /\ DrawingMeetsDeadline]_vars
      => TimelyInv'
  BY TimelyStep DEF IInv
<1>4. QED
  BY <1>1, <1>2, <1>3, TypeCorrect, InStep, PTL DEF TimelySpec

(* If every line is drawn within a line period, every line sent is the line
   that was drawn for it, for every mode and every size of the pool
   (mc6847_run against dma_irq_handler). *)
THEOREM LinesAreTheirOwn == TimelySpec => []LineIsItsOwn
<1>1. TypeOK /\ ChannelsInStep /\ TimelyInv => LineIsItsOwn
  BY SentAsDrawn DEF IInv
<1>2. QED
  BY <1>1, Timely, PTL

-----------------------------------------------------------------------------
(* What is sent is blanking only above the picture, for it is the successor of
   what was sent before. *)
LEMMA BeamStep ==
  ASSUME TypeOK, ChannelsInStep, BeamInv, [Next]_vars
  PROVE  BeamInv'
<1>1. chan'[running'] \in {chan[running], R!Successor(chan[running])}
  BY TransferKeepsStep, HandlerKeepsStep, DrawKeepsStep DEF Next
<1>2. CASE chan'[running'] = chan[running]
  BY <1>2 DEF BeamInv
<1>3. CASE chan'[running'] = R!Successor(chan[running])
  <2>1. R!VsyncLines = MODE_V_FRONT_PORCH .. MODE_V_FRONT_PORCH + MODE_V_SYNC_WIDTH - 1
    BY DEF R!VsyncLines
  <2>2. \A at \in R!VsyncLines : at < FirstActive
    BY <2>1, ModeAssumption DEF FirstActive
  <2>3. \A at : R!Opening(at).kind \in {"vsync_on", "vsync_off"} =>
                  R!Opening(at).at < FirstActive
    BY <2>2, SameFrame DEF R!Opening, Segment
  <2>4. \A at : R!Segment("pixels", at).kind = "pixels"
    BY SameFrame DEF Segment
  <2>5. QED
    BY <1>3, <2>3, <2>4 DEF BeamInv, R!Successor
<1>4. QED
  BY <1>1, <1>2, <1>3

(* While blanking is sent, the first line is the one to be requested next. *)
LEMMA BlankedLine ==
  ASSUME TypeOK, ChannelsInStep, BeamInv,
         chan[running].kind \in {"vsync_on", "vsync_off"}
  PROVE  Nxt = 0
<1> DEFINE at == chan[running].at
           m == R!Following(at)
<1>1. /\ FirstActive \in Nat /\ MODE_V_TOTAL_LINES \in Nat
      /\ FirstActive < MODE_V_TOTAL_LINES
  BY Timing, PoolFacts
<1>2. at \in Scanlines /\ at < FirstActive
  BY DEF TypeOK, BeamInv, Segments
<1>3. m = at + 1
  <2>1. at # MODE_V_TOTAL_LINES - 1 /\ m = (at + 1) % MODE_V_TOTAL_LINES
    BY <1>1, <1>2, SameFrame DEF Scanlines, R!Following
  <2> HIDE DEF at, m
  <2>2. QED
    BY <1>2, <2>1, NextScanlineFacts
<1>4. R!Successor(chan[running]) = R!Opening(m)
  BY DEF R!Successor
<1> HIDE DEF at, m
<1>5. m \in Scanlines /\ m <= FirstActive
  BY <1>1, <1>2, <1>3 DEF Scanlines
<1>6. R!Opening(m).at = m /\ Due.at = v_scanline
  BY SameFrame DEF R!Opening, Due, Segment
<1>7. v_scanline <= FirstActive
  <2>1. CASE intr = {}
    <3>1. Due = R!Successor(R!Opening(m))
      BY <1>4, <2>1 DEF ChannelsInStep
    <3>2. CASE m < FirstActive
      <4>1. R!Opening(m).kind # "commands"
        BY <3>2, SameFrame DEF R!Opening, Segment
      <4>2. R!Successor(R!Opening(m)) = R!Opening(R!Following(m))
        BY <1>6, <4>1 DEF R!Successor
      <4>3. R!Opening(R!Following(m)).at = R!Following(m)
        BY SameFrame DEF R!Opening, Segment
      <4>4. R!Following(m) = m + 1
        <5>1. R!Following(m) = (m + 1) % MODE_V_TOTAL_LINES
          BY SameFrame DEF R!Following
        <5>2. m # MODE_V_TOTAL_LINES - 1
          BY <1>1, <1>5, <3>2 DEF Scanlines
        <5>3. QED
          BY <1>5, <5>1, <5>2, NextScanlineFacts
      <4>5. v_scanline = m + 1
        BY <1>6, <3>1, <4>2, <4>3, <4>4
      <4>6. QED
        BY <1>1, <1>5, <3>2, <4>5 DEF Scanlines
    <3>3. CASE ~(m < FirstActive)
      <4>1. m \notin R!VsyncLines
        BY <1>1, <1>5, <3>3, ModeAssumption DEF R!VsyncLines, FirstActive, Scanlines
      <4>2. R!Opening(m).kind = "commands"
        BY <3>3, <4>1, SameFrame DEF R!Opening, Segment
      <4>3. R!Successor(R!Opening(m)).at = m
        BY <1>6, <4>2, SameFrame DEF R!Successor, Segment
      <4>4. v_scanline = m
        BY <1>6, <3>1, <4>3
      <4>5. QED
        BY <1>5, <4>4
    <3>4. QED
      BY <3>2, <3>3
  <2>2. CASE intr # {}
    BY <1>4, <1>5, <1>6, <2>2 DEF ChannelsInStep
  <2>3. QED
    BY <2>1, <2>2
<1>8. v_scanline \in Int /\ FirstActive \in Int
  BY Timing DEF TypeOK, Scanlines
<1>9. QED
  BY <1>7, <1>8 DEF Nxt

(* Frame sync is at the level of one of the lines that the drawing loop may
   have come to: the two before the next, or the three if it is two behind. *)
LEMMA PinLevel ==
  ASSUME IInv, NEW n \in Lines, After(n) = Nxt
  PROVE  \/ UpToDate /\ \E l \in {n, Before(n)} : vsync_pin <=> Level(l)
         \/ /\ OneBehind
            /\ \/ vsync_pin <=> Level(Before(n))
               \/ Unsent(n) /\ (vsync_pin <=> Level(Before(Before(n))))
         \/ TwoBehind /\ Unsent(n) /\ (vsync_pin <=> Level(Before(Before(n))))
<1>1. CASE UpToDate
  <2>1. PinAt(After(n)) /\ Before(After(n)) = n
    BY <1>1, BeforeFacts DEF UpToDate, Ready
  <2>2. QED
    BY <1>1, <2>1 DEF PinAt
<1>2. CASE OneBehind
  <2>1. PICK a \in Lines : /\ After(a) = Nxt /\ Ready(a)
                           /\ job.at = "sync" => Unsent(a)
    BY <1>2 DEF OneBehind
  <2>2. a = n
    BY <2>1, AfterFacts
  <2>3. QED
    BY <1>2, <2>1, <2>2 DEF Ready, PinAt
<1>3. CASE TwoBehind
  <2>1. PICK a \in Lines, b \in Lines :
          /\ After(a) = b /\ After(b) = Nxt /\ Ready(a)
          /\ job.at # "sync" /\ Unsent(b)
    BY <1>3 DEF TwoBehind
  <2>2. b = n /\ Before(n) = a
    BY <2>1, AfterFacts, BeforeFacts
  <2>3. QED
    BY <1>3, <2>1, <2>2 DEF Ready, PinAt
<1>4. QED
  BY <1>1, <1>2, <1>3 DEF IInv, TimelyInv

LEMMA PinTracksBeam ==
  ASSUME IInv, BeamInv
  PROVE  VsyncTracksBeam
<1> DEFINE v == MODE_V_ACTIVE_LINES
<1>1. /\ VSYNC_ON \in Int /\ VSYNC_ON >= 1 /\ VSYNC_ON <= v - 3
      /\ v \in Nat /\ Lines = 0 .. v - 1
  BY SyncAssumption, PoolFacts DEF Lines
<1>2. ASSUME chan[running].kind \in {"vsync_on", "vsync_off"}
      PROVE  ~vsync_pin
  <2>1. Nxt = 0
    BY <1>2, BlankedLine DEF IInv
  <2>2. v - 1 \in Lines /\ After(v - 1) = 0
    BY <1>1, AfterFacts
  <2>3. /\ ~Level(v - 1) /\ ~Level(Before(v - 1))
        /\ ~Level(Before(Before(v - 1)))
    BY <1>1 DEF Level, Before
  <2>4. QED
    BY <2>1, <2>2, <2>3, PinLevel
<1>3. ASSUME NEW n \in Lines \ {0, VSYNC_ON}, Streaming(n)
      PROVE  vsync_pin <=> n < VSYNC_ON
  <2>1. After(n) = Nxt /\ ~Unsent(n)
    BY <1>3, StreamedLine DEF IInv, Unsent
  <2>2. Level(n) <=> n < VSYNC_ON
    BY DEF Level
  <2>3. Level(Before(n)) <=> n < VSYNC_ON
    BY <1>1 DEF Level, Before
  <2>4. QED
    BY <2>1, <2>2, <2>3, PinLevel
<1>4. QED
  BY <1>2, <1>3 DEF VsyncTracksBeam

(* If every line is drawn within a line period, PIN_VSYNC follows the beam,
   for every mode and every size of the pool (VSYNC_ON and VSYNC_OFF of
   mc6847_run). *)
THEOREM SyncTracksBeam == TimelySpec => []VsyncTracksBeam
<1>1. TimelySpec => Spec
  BY PTL DEF TimelySpec, Spec
<1>2. Init => BeamInv
  <2>1. Init => chan[running].at = 0
    BY DEF Init, Segment, Channels, DMACH_PING, DMACH_PONG
  <2>2. QED
    BY <2>1, Timing DEF BeamInv
<1>3. TypeOK /\ ChannelsInStep /\ BeamInv /\ [Next]_vars => BeamInv'
  BY BeamStep
<1>4. TypeOK /\ ChannelsInStep /\ TimelyInv /\ BeamInv => VsyncTracksBeam
  BY PinTracksBeam DEF IInv
<1>5. QED
  BY <1>1, <1>2, <1>3, <1>4, Timely, TypeCorrect, InStep, PTL DEF Spec

-----------------------------------------------------------------------------
LEMMA EdgeStep ==
  ASSUME IInv, EdgeInv, [Next]_vars
  PROVE  EdgeInv'
<1>1. CASE TransferDone \/ TakeRequest \/ FinishDrawing \/ UNCHANGED vars
  <2>1. UNCHANGED <<fs_previous, vsync_pin, v_scanline>>
    BY <1>1 DEF TransferDone, TakeRequest, FinishDrawing, vars, dmaVars,
                handlerVars, drawVars
  <2>2. QED
    BY <2>1 DEF EdgeInv
<1>2. CASE dma_irq_handler
  BY <1>2 DEF dma_irq_handler, MeasureFs, drawVars, EdgeInv
<1>3. CASE DriveVsync
  <2>1. /\ UNCHANGED <<fs_previous, v_scanline>> /\ job.at = "sync"
        /\ vsync_pin' = IF job.line = VSYNC_ON THEN FALSE
                        ELSE IF job.line = VSYNC_OFF THEN TRUE ELSE vsync_pin
    BY <1>3 DEF DriveVsync, handlerVars
  <2>2. CASE job.line # VSYNC_ON
    BY <2>1, <2>2 DEF EdgeInv
  <2>3. CASE job.line = VSYNC_ON
    <3>1. /\ VSYNC_ON \in Lines /\ VSYNC_ON + 1 \in Lines
          /\ After(VSYNC_ON) = VSYNC_ON + 1
          /\ After(VSYNC_ON + 1) = VSYNC_ON + 2
      <4>1. VSYNC_ON \in Lines /\ VSYNC_ON + 1 \in Lines
            /\ VSYNC_ON + 1 # MODE_V_ACTIVE_LINES - 1
            /\ VSYNC_ON # MODE_V_ACTIVE_LINES - 1
        BY SyncAssumption, PoolFacts DEF Lines
      <4>2. VSYNC_ON + 1 + 1 = VSYNC_ON + 2
        BY SyncAssumption, PoolFacts
      <4>3. QED
        BY <4>1, <4>2, AfterFacts
    <3>2. ASSUME NEW a \in Lines, PinAt(a)
          PROVE  a = VSYNC_ON + 1
      <4>1. Before(a) = VSYNC_ON
        BY <2>1, <2>3, <3>2 DEF PinAt
      <4>2. a \in Int /\ VSYNC_ON \in Int /\ VSYNC_ON # MODE_V_ACTIVE_LINES - 1
        BY SyncAssumption, PoolFacts DEF Lines
      <4>3. QED
        BY <4>1, <4>2 DEF Before
    <3>3. Nxt \in {VSYNC_ON + 1, VSYNC_ON + 2}
      <4>1. UpToDate => Nxt = VSYNC_ON + 1
        BY <3>2, NxtType DEF UpToDate, Ready, IInv
      <4>2. OneBehind => Nxt = VSYNC_ON + 2
        BY <3>1, <3>2 DEF OneBehind, Ready
      <4>3. ~TwoBehind
        BY <2>1 DEF TwoBehind
      <4>4. QED
        BY <4>1, <4>2, <4>3 DEF IInv, TimelyInv
    <3>4. /\ VSYNC_ON \in Int /\ VSYNC_ON >= 1
          /\ v_scanline \in Int /\ FirstActive \in Int
      BY Timing, SyncAssumption, PoolFacts DEF IInv, TypeOK, Scanlines
    <3>5. v_scanline \in {FirstActive + VSYNC_ON + 1, FirstActive + VSYNC_ON + 2}
      BY <3>3, <3>4 DEF Nxt
    <3>6. QED
      BY <2>1, <3>5 DEF EdgeInv
  <2>4. QED
    BY <2>2, <2>3
<1>4. QED
  BY <1>1, <1>2, <1>3 DEF Next, Draw

(* If every line is drawn within a line period, the measurement of frame sync
   jitters by one scanline at most, for every mode and every size of the pool
   (dma_irq_handler). *)
THEOREM MeasurementBounded == TimelySpec => []FsMeasurementBounded
<1>1. TimelySpec => Spec
  BY PTL DEF TimelySpec, Spec
<1>2. Init => EdgeInv /\ FsMeasurementBounded
  BY DEF Init, EdgeInv, FsMeasurementBounded
<1>3. TypeOK /\ ChannelsInStep /\ TimelyInv /\ EdgeInv /\ [Next]_vars => EdgeInv'
  BY EdgeStep DEF IInv
<1>4. EdgeInv /\ FsMeasurementBounded /\ [Next]_vars => FsMeasurementBounded'
  <2> SUFFICES ASSUME EdgeInv, FsMeasurementBounded, [Next]_vars
               PROVE  FsMeasurementBounded'
    OBVIOUS
  <2>1. CASE dma_irq_handler
    <3>1. CASE FallingEdge
      BY <2>1, <3>1 DEF dma_irq_handler, MeasureFs, FallingEdge, EdgeInv,
                        FsMeasurementBounded
    <3>2. CASE ~FallingEdge
      BY <2>1, <3>2 DEF dma_irq_handler, MeasureFs, FsMeasurementBounded
    <3>3. QED
      BY <3>1, <3>2
  <2>2. CASE TransferDone \/ Draw \/ UNCHANGED vars
    <3>1. fs_measured' = fs_measured
      BY <2>2 DEF TransferDone, Draw, TakeRequest, FinishDrawing, DriveVsync,
                  vars, handlerVars
    <3>2. QED
      BY <3>1 DEF FsMeasurementBounded
  <2>3. QED
    BY <2>1, <2>2 DEF Next
<1>5. QED
  BY <1>1, <1>2, <1>3, <1>4, Timely, PTL DEF Spec
=============================================================================
