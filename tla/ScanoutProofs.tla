--------------------------- MODULE ScanoutProofs ----------------------------
(***************************************************************************)
(* Proofs about Scanout, for every video mode that satisfies the named     *)
(* assumptions: the channels stay in step with the handler, and what they  *)
(* send is Raster's sequence of segments.                                  *)
(***************************************************************************)
EXTENDS Scanout, TLAPS

LEMMA ModInRange ==
  ASSUME NEW a \in Nat, NEW m \in Nat, m >= 1
  PROVE  a % m \in 0 .. m - 1
  OBVIOUS

LEMMA ModSmall ==
  ASSUME NEW a \in Nat, NEW m \in Nat, a < m
  PROVE  a % m = a
  OBVIOUS

LEMMA Timing ==
  /\ FirstActive \in Nat
  /\ MODE_V_TOTAL_LINES \in Nat
  /\ MODE_V_TOTAL_LINES >= 3
  /\ FirstActive >= 2
  /\ MODE_V_TOTAL_LINES = FirstActive + MODE_V_ACTIVE_LINES
  BY ModeAssumption DEF FirstActive, MODE_V_TOTAL_LINES

LEMMA FollowingType ==
  ASSUME NEW at \in Scanlines
  PROVE  (at + 1) % MODE_V_TOTAL_LINES \in Scanlines
<1>1. at + 1 \in Nat
  BY Timing DEF Scanlines
<1>2. MODE_V_TOTAL_LINES \in Nat /\ MODE_V_TOTAL_LINES >= 1
  BY Timing
<1>3. (at + 1) % MODE_V_TOTAL_LINES \in 0 .. MODE_V_TOTAL_LINES - 1
  BY <1>1, <1>2, ModInRange
<1>4. QED
  BY <1>3 DEF Scanlines

(* Raster and Scanout speak of the same frame. *)
LEMMA SameFrame ==
  /\ R!FirstActive = FirstActive
  /\ R!MODE_V_TOTAL_LINES = MODE_V_TOTAL_LINES
  /\ \A kind, at : R!Segment(kind, at) = Segment(kind, at)
  BY DEF R!FirstActive, FirstActive, R!MODE_V_TOTAL_LINES,
         MODE_V_TOTAL_LINES, R!Segment, Segment

(* A request is for a line of the picture, and so are the line drawn for it
   and the buffer it is drawn into. *)
LEMMA DrawType ==
  ASSUME NEW n \in Lines
  PROVE  /\ LineAhead(n) \in Lines
         /\ DrawBuffer(n) \in Buffers
<1>1. n + LINE_BUFFER_POOL_COUNT - 1 \in Nat
  BY PoolAssumption, ModeAssumption DEF Lines
<1>2. LineAhead(n) \in Lines
  BY <1>1, ModInRange, ModeAssumption DEF LineAhead, Lines
<1>3. LineAhead(n) \in Nat
  BY <1>2, ModeAssumption DEF Lines
<1>4. DrawBuffer(n) \in Buffers
  BY <1>3, ModInRange, PoolAssumption DEF DrawBuffer, Buffers
<1>5. QED
  BY <1>2, <1>4

-----------------------------------------------------------------------------
(* The handler posts segments of the frame to one of the two channels and
   leaves v_scanline a scanline. *)
LEMMA PostType ==
  ASSUME TypeOK,
         NEW kind \in {"vsync_on", "vsync_off", "commands", "pixels"},
         Post(kind)
  PROVE  chan' \in [Channels -> Segments]
  BY DEF TypeOK, Post, Segment, Segments, Finished, Channels

LEMMA HandlerType ==
  ASSUME TypeOK, dma_irq_handler
  PROVE  TypeOK'
<1>1. /\ running' \in Channels
      /\ intr' \in SUBSET Channels
      /\ dma_pong' \in BOOLEAN
      /\ fs_previous' \in BOOLEAN
      /\ fs_measured' \in Int
      /\ job' \in [at : {"wait", "draw", "sync"}, line : Lines]
      /\ line_buffer_pool' \in [Buffers -> Lines \cup {Blank, Torn}]
      /\ vsync_pin' \in BOOLEAN
  <2>1. v_scanline \in Int
    BY Timing DEF TypeOK, Scanlines
  <2>2. QED
    BY <2>1 DEF TypeOK, dma_irq_handler, MeasureFs, drawVars
<1>2. MeasuredError \in Int
  BY Timing, SyncAssumption DEF TypeOK, MeasuredError, Scanlines
<1>3. NextScanline => v_scanline' \in Scanlines
  BY FollowingType DEF NextScanline, TypeOK
<1>4. CASE PostBlanking
  <2>1. chan' \in [Channels -> Segments]
    BY <1>4, PostType DEF PostBlanking
  <2>2. /\ v_scanline' \in Scanlines
        /\ vactive_cmdlist_posted' \in BOOLEAN
        /\ fs_error' \in Int
        /\ line_request_queue' \in Seq(Lines)
    BY <1>4, <1>2, <1>3 DEF PostBlanking, TypeOK
  <2>3. QED
    BY <1>1, <2>1, <2>2 DEF TypeOK
<1>5. CASE PostCommands
  <2>1. chan' \in [Channels -> Segments]
    BY <1>5, PostType DEF PostCommands
  <2>2. /\ v_scanline' \in Scanlines
        /\ vactive_cmdlist_posted' \in BOOLEAN
        /\ fs_error' \in Int
        /\ line_request_queue' \in Seq(Lines)
    BY <1>5, <1>2 DEF PostCommands, TypeOK
  <2>3. QED
    BY <1>1, <2>1, <2>2 DEF TypeOK
<1>6. CASE PostPixels
  <2>1. chan' \in [Channels -> Segments]
    BY <1>6, PostType DEF PostPixels
  <2>2. v_scanline - FirstActive \in Lines
    BY <1>6, Timing, ModeAssumption DEF PostPixels, TypeOK, Scanlines, Lines
  <2>3. line_request_queue' \in Seq(Lines)
    BY <1>6, <2>2 DEF PostPixels, RequestLine, TryAdd, TypeOK
  <2>4. fs_error' \in Int
    BY <1>6, <1>2 DEF PostPixels
  <2>5. /\ v_scanline' \in Scanlines
        /\ vactive_cmdlist_posted' \in BOOLEAN
    BY <1>6, <1>3 DEF PostPixels
  <2>6. QED
    BY <1>1, <2>1, <2>3, <2>4, <2>5 DEF TypeOK
<1>7. QED
  BY <1>4, <1>5, <1>6 DEF dma_irq_handler

LEMMA DrawStepType ==
  ASSUME TypeOK, Draw
  PROVE  TypeOK'
<1>1. CASE TakeRequest
  <2>1. /\ Head(line_request_queue) \in Lines
        /\ Tail(line_request_queue) \in Seq(Lines)
    BY <1>1 DEF TakeRequest, TypeOK
  <2>2. line_buffer_pool' \in [Buffers -> Lines \cup {Blank, Torn}]
    BY <1>1, <2>1, DrawType DEF TakeRequest, TypeOK
  <2>3. QED
    BY <1>1, <2>1, <2>2 DEF TakeRequest, TypeOK, dmaVars, handlerVars
<1>2. CASE FinishDrawing
  <2>1. line_buffer_pool' \in [Buffers -> Lines \cup {Blank, Torn}]
    BY <1>2, DrawType DEF FinishDrawing, TypeOK
  <2>2. QED
    BY <1>2, <2>1 DEF FinishDrawing, TypeOK, dmaVars, handlerVars
<1>3. CASE DriveVsync
  BY <1>3 DEF DriveVsync, TypeOK, dmaVars, handlerVars
<1>4. QED
  BY <1>1, <1>2, <1>3 DEF Draw

(* Every variable keeps its type: in particular the line handed to
   mc6847_get_line_buffer is a line of the picture, and the drawing loop
   indexes the pool within its bounds. *)
THEOREM TypeCorrect == Spec => []TypeOK
<1>1. Init => TypeOK
  <2>1. ASSUME Init PROVE TypeOK
    <3>1. 0 \in Scanlines /\ 1 \in Scanlines /\ 2 \in Scanlines
      BY Timing DEF Scanlines
    <3>2. chan \in [Channels -> Segments]
      BY <2>1, <3>1 DEF Init, Segment, Segments, Channels
    <3>3. 0 \in Lines
      BY ModeAssumption DEF Lines
    <3>4. line_request_queue \in Seq(Lines)
      BY <2>1 DEF Init
    <3>5. job \in [at : {"wait", "draw", "sync"}, line : Lines]
      BY <2>1, <3>3 DEF Init
    <3>6. line_buffer_pool \in [Buffers -> Lines \cup {Blank, Torn}]
      BY <2>1 DEF Init
    <3>7. /\ running \in Channels
          /\ intr \in SUBSET Channels
          /\ fs_measured \in Int
          /\ fs_error \in Int
          /\ v_scanline \in Scanlines
      BY <2>1, <3>1, SyncAssumption DEF Init, Channels
    <3>8. /\ dma_pong \in BOOLEAN
          /\ vactive_cmdlist_posted \in BOOLEAN
          /\ fs_previous \in BOOLEAN
          /\ vsync_pin \in BOOLEAN
      BY <2>1 DEF Init
    <3>9. QED
      BY <3>2, <3>4, <3>5, <3>6, <3>7, <3>8 DEF TypeOK
  <2>2. QED
    BY <2>1
<1>2. TypeOK /\ [Next]_vars => TypeOK'
  <2> SUFFICES ASSUME TypeOK, [Next]_vars PROVE TypeOK'
    OBVIOUS
  <2>1. CASE TransferDone
    BY <2>1 DEF TransferDone, TypeOK, Channels, handlerVars, drawVars
  <2>2. CASE dma_irq_handler
    BY <2>2, HandlerType
  <2>3. CASE Draw
    BY <2>3, DrawStepType
  <2>4. CASE UNCHANGED vars
    BY <2>4 DEF vars, dmaVars, handlerVars, drawVars, TypeOK
  <2>5. QED
    BY <2>1, <2>2, <2>3, <2>4 DEF Next
<1>3. QED
  BY <1>1, <1>2, PTL DEF Spec

-----------------------------------------------------------------------------
LEMMA IdleIsOther ==
  ASSUME running \in Channels
  PROVE  /\ Idle \in Channels
         /\ Idle # running
         /\ \A c \in Channels : c = running \/ c = Idle
  BY DEF Channels, DMACH_PING, DMACH_PONG, Idle

(* The handler gives a channel the segment that is due, and the segment due
   next is the one after it. *)
LEMMA HandlerPostsDue ==
  ASSUME TypeOK, dma_irq_handler,
         vactive_cmdlist_posted => v_scanline >= FirstActive
  PROVE  /\ chan' = [chan EXCEPT ![Finished] = Due]
         /\ Due' = R!Successor(Due)
         /\ vactive_cmdlist_posted' => v_scanline' >= FirstActive
<1>1. v_scanline \in Int /\ MODE_V_FRONT_PORCH \in Int
      /\ MODE_V_SYNC_WIDTH \in Int /\ MODE_V_BACK_PORCH \in Int
      /\ FirstActive \in Int
  BY Timing, ModeAssumption DEF TypeOK, Scanlines
<1>2. CASE PostBlanking
  <2>1. ~vactive_cmdlist_posted /\ ~vactive_cmdlist_posted'
    BY <1>1, <1>2 DEF PostBlanking
  <2>2. Due = R!Opening(v_scanline) /\ Due' = R!Opening(v_scanline')
    BY <2>1 DEF Due
  <2>3. R!Opening(v_scanline) =
          Segment(IF /\ v_scanline >= MODE_V_FRONT_PORCH
                     /\ v_scanline < MODE_V_FRONT_PORCH + MODE_V_SYNC_WIDTH
                  THEN "vsync_on" ELSE "vsync_off", v_scanline)
    BY <1>1, <1>2, SameFrame DEF PostBlanking, R!Opening, R!VsyncLines
  <2>4. v_scanline' = R!Following(v_scanline)
    BY <1>2, SameFrame DEF PostBlanking, NextScanline, R!Following
  <2>5. R!Successor(Due) = R!Opening(R!Following(v_scanline))
    BY <2>2, <2>3 DEF R!Successor, Segment
  <2>6. QED
    BY <1>2, <2>1, <2>2, <2>3, <2>4, <2>5 DEF PostBlanking, Post
<1>3. CASE PostCommands
  <2>1. v_scanline \notin R!VsyncLines /\ ~(v_scanline < FirstActive)
    BY <1>1, <1>3, ModeAssumption
    DEF PostCommands, R!VsyncLines, FirstActive
  <2>2. Due = Segment("commands", v_scanline)
    BY <1>3, <2>1, SameFrame DEF PostCommands, Due, R!Opening
  <2>3. Due' = Segment("pixels", v_scanline)
    BY <1>3 DEF PostCommands, Due
  <2>4. R!Successor(Due) = Segment("pixels", v_scanline)
    BY <2>2, SameFrame DEF R!Successor, Segment
  <2>5. QED
    BY <1>3, <2>2, <2>3, <2>4 DEF PostCommands, Post
<1>4. CASE PostPixels
  <2>1. Due = Segment("pixels", v_scanline)
    BY <1>4 DEF PostPixels, Due
  <2>2. Due' = R!Opening(R!Following(v_scanline))
    BY <1>4, SameFrame DEF PostPixels, Due, NextScanline, R!Following
  <2>3. R!Successor(Due) = R!Opening(R!Following(v_scanline))
    BY <2>1 DEF R!Successor, Segment
  <2>4. QED
    BY <1>4, <2>1, <2>2, <2>3 DEF PostPixels, Post
<1>5. QED
  BY <1>2, <1>3, <1>4 DEF dma_irq_handler

LEMMA StartInStep ==
  ASSUME Init
  PROVE  ChannelsInStep /\ chan[running] = R!Opening(0)
<1>1. (0 + 1) % MODE_V_TOTAL_LINES = 1 /\ (1 + 1) % MODE_V_TOTAL_LINES = 2
  BY Timing, ModSmall
<1>2. R!Following(0) = 1 /\ R!Following(1) = 2
  BY <1>1, SameFrame DEF R!Following
<1>3. /\ R!Opening(0) = Segment("vsync_off", 0)
      /\ R!Opening(1) = Segment("vsync_off", 1)
  BY Timing, ModeAssumption, SameFrame DEF R!Opening, R!VsyncLines
<1>4. /\ running = DMACH_PING /\ Idle = DMACH_PONG
      /\ chan[DMACH_PING] = Segment("vsync_off", 0)
      /\ chan[DMACH_PONG] = Segment("vsync_off", 1)
  BY DEF Init, Idle, Channels, DMACH_PING, DMACH_PONG
<1>5. /\ R!Successor(Segment("vsync_off", 0)) = R!Opening(1)
      /\ R!Successor(Segment("vsync_off", 1)) = R!Opening(2)
  BY <1>2 DEF R!Successor, Segment
<1>6. Due = R!Opening(2) /\ Finished = running
  BY <1>4 DEF Init, Due, Finished
<1>7. QED
  BY <1>3, <1>4, <1>5, <1>6 DEF Init, ChannelsInStep

-----------------------------------------------------------------------------
(* A transfer that ends hands the beam to the channel the handler filled. *)
LEMMA TransferKeepsStep ==
  ASSUME TypeOK, ChannelsInStep, TransferDone
  PROVE  /\ ChannelsInStep'
         /\ chan'[running'] = R!Successor(chan[running])
<1>1. /\ intr = {} /\ Finished = running
      /\ chan[Idle] = R!Successor(chan[running])
      /\ Due = R!Successor(chan[Idle])
  BY DEF ChannelsInStep, TransferDone, HandlerMeetsDeadline, Idle,
         DMACH_PING, DMACH_PONG
<1>2. /\ running' = Idle /\ Idle' = running
      /\ intr' = {running} /\ chan' = chan
  BY DEF TransferDone, Idle, TypeOK, Channels, DMACH_PING, DMACH_PONG
<1>3. /\ Due' = Due /\ Finished' = Finished
      /\ v_scanline' = v_scanline
      /\ vactive_cmdlist_posted' = vactive_cmdlist_posted
  BY DEF TransferDone, handlerVars, Due, Finished
<1>4. QED
  BY <1>1, <1>2, <1>3 DEF ChannelsInStep

(* The handler fills the idle channel and leaves the beam alone. *)
LEMMA HandlerKeepsStep ==
  ASSUME TypeOK, ChannelsInStep, dma_irq_handler
  PROVE  /\ ChannelsInStep'
         /\ chan'[running'] = chan[running]
<1>1. /\ intr = {Idle} /\ Finished = Idle
      /\ Due = R!Successor(chan[running])
  BY DEF ChannelsInStep, dma_irq_handler
<1>2. /\ chan' = [chan EXCEPT ![Idle] = Due]
      /\ Due' = R!Successor(Due)
      /\ vactive_cmdlist_posted' => v_scanline' >= FirstActive
  BY <1>1, HandlerPostsDue DEF ChannelsInStep
<1>3. /\ running' = running /\ Idle' = Idle
      /\ intr' = {} /\ dma_pong' = ~dma_pong
  BY <1>1 DEF dma_irq_handler, Idle
<1>4. Finished' = running
  BY <1>1, <1>3 DEF Finished, Idle, TypeOK, Channels, DMACH_PING, DMACH_PONG
<1>5. /\ chan'[Idle] = R!Successor(chan[running])
      /\ chan'[running] = chan[running]
  BY <1>1, <1>2, IdleIsOther DEF TypeOK
<1>6. Due' = R!Successor(chan'[Idle'])
  BY <1>1, <1>2, <1>3, <1>5
<1>7. chan'[Idle'] = R!Successor(chan'[running'])
  BY <1>3, <1>5
<1>8. Finished' = running'
  BY <1>3, <1>4
<1>9. QED
  BY <1>2, <1>3, <1>5, <1>6, <1>7, <1>8 DEF ChannelsInStep

LEMMA DrawKeepsStep ==
  ASSUME ChannelsInStep, Draw \/ UNCHANGED vars
  PROVE  /\ ChannelsInStep'
         /\ chan'[running'] = chan[running]
<1>1. UNCHANGED <<dmaVars, handlerVars>>
  BY DEF Draw, TakeRequest, FinishDrawing, DriveVsync, vars
<1>2. QED
  BY <1>1 DEF ChannelsInStep, dmaVars, handlerVars, Finished, Idle, Due

(* The handler never loses count of the channels, whatever the mode and
   however slow the drawing is. *)
THEOREM InStep == Spec => []ChannelsInStep
<1>1. Init => ChannelsInStep
  BY StartInStep
<1>2. TypeOK /\ ChannelsInStep /\ [Next]_vars => ChannelsInStep'
  BY TransferKeepsStep, HandlerKeepsStep, DrawKeepsStep DEF Next
<1>3. QED
  BY <1>1, <1>2, TypeCorrect, PTL DEF Spec

(* The monitor receives Raster's frames, for every video mode. *)
THEOREM RasterImplemented == Spec => ImplementsRaster
<1>1. Init => R!Init
  BY StartInStep DEF R!Init
<1>2. TypeOK /\ ChannelsInStep /\ [Next]_vars => [R!Next]_(chan[running])
  <2> SUFFICES ASSUME TypeOK, ChannelsInStep, [Next]_vars
               PROVE  [R!Next]_(chan[running])
    OBVIOUS
  <2>1. CASE TransferDone
    BY <2>1, TransferKeepsStep DEF R!Next
  <2>2. CASE dma_irq_handler
    BY <2>2, HandlerKeepsStep
  <2>3. CASE Draw \/ UNCHANGED vars
    BY <2>3, DrawKeepsStep
  <2>4. QED
    BY <2>1, <2>2, <2>3 DEF Next
<1>3. QED
  BY <1>1, <1>2, TypeCorrect, InStep, PTL DEF Spec, ImplementsRaster, R!Spec

-----------------------------------------------------------------------------
(* The buffer that is drawn into for line n is not the one that is sent from,
   across the end of the frame included. *)
LEMMA OtherBuffer ==
  ASSUME NEW n \in Lines
  PROVE  DrawBuffer(n) # ScanBuffer(n)
<1> DEFINE p == LINE_BUFFER_POOL_COUNT
           v == MODE_V_ACTIVE_LINES
           a == LineAhead(n)
<1>1. /\ p \in Nat /\ p >= 2 /\ v \in Nat /\ v >= 1 /\ v % p = 0
      /\ n \in Nat /\ n < v
  BY PoolAssumption, ModeAssumption DEF Lines
<1>2. a = (n + p - 1) % v
  BY DEF LineAhead
<1>3. DrawBuffer(n) = a % p /\ ScanBuffer(n) = n % p
  BY DEF DrawBuffer, ScanBuffer
<1> HIDE DEF p, v, a
<1> DEFINE e == (n + p - 1) \div v
           k == v \div p
           i == a \div p
           j == n \div p
<1>4. a \in Int /\ e \in Int /\ n + p - 1 = v * e + a
  BY <1>1, <1>2
<1>5. k \in Int /\ v = p * k
  BY <1>1
<1>6. i \in Int /\ j \in Int
  BY <1>1, <1>4
<1>7. a = p * i + (a % p) /\ n = p * j + (n % p)
  BY <1>1, <1>4
<1> HIDE DEF e, k, i, j
<1>8. SUFFICES ASSUME a % p = n % p PROVE FALSE
  BY <1>3
<1> DEFINE d == i - j - 1 + k * e
<1>9. d \in Int /\ p * d = -1
  <2>1. k * e \in Int
    BY <1>4, <1>5
  <2>2. v * e = p * (k * e)
    BY <1>1, <1>4, <1>5
  <2>3. p * d = p * i - p * j - p + p * (k * e)
    BY <1>1, <1>6, <2>1
  <2>4. p * i - p * j = a - n
    BY <1>1, <1>4, <1>6, <1>7, <1>8
  <2>5. QED
    BY <1>1, <1>4, <1>6, <2>1, <2>2, <2>3, <2>4
<1> HIDE DEF d
<1>10. CASE d >= 0
  BY <1>1, <1>9, <1>10
<1>11. CASE d <= -1
  <2>1. p * d <= p * (-1)
    BY <1>1, <1>9, <1>11
  <2>2. QED
    BY <1>1, <1>9, <2>1
<1>12. QED
  BY <1>9, <1>10, <1>11

(* While pixels are sent the handler posts the opening of the next line, and
   requests nothing. *)
LEMMA NoRequestWhileStreaming ==
  ASSUME TypeOK, ChannelsInStep, NEW n \in Lines, Streaming(n), dma_irq_handler
  PROVE  UNCHANGED <<line_request_queue, job, line_buffer_pool>>
<1>1. Due = R!Successor(chan[running])
  BY DEF ChannelsInStep, dma_irq_handler
<1>2. R!Successor(chan[running]).kind # "pixels"
  BY SameFrame DEF Streaming, R!Successor, R!Opening, Segment
<1>3. ~PostPixels
  BY <1>1, <1>2 DEF PostPixels, Due, Segment
<1>4. QED
  BY <1>3 DEF dma_irq_handler, PostBlanking, PostCommands, drawVars

LEMMA CaughtUpDrawing ==
  ASSUME TypeOK, NEW n \in Lines, CaughtUp(n), Draw,
         line_buffer_pool[ScanBuffer(n)] = n
  PROVE  /\ line_buffer_pool'[ScanBuffer(n)] = n
         /\ CaughtUp(n)'
<1>1. DrawBuffer(n) # ScanBuffer(n)
  BY OtherBuffer
<1>2. line_request_queue \in Seq(Lines)
  BY DEF TypeOK
<1>3. CASE TakeRequest
  <2> DEFINE q == line_request_queue
  <2>1. /\ q # << >> /\ Len(q) \in Nat /\ Len(q) >= 1 /\ Head(q) = q[1]
        /\ Len(Tail(q)) = Len(q) - 1
        /\ \A i \in 1 .. Len(Tail(q)) : Tail(q)[i] = q[i + 1]
    BY <1>2, <1>3 DEF TakeRequest
  <2>2. \A i \in 1 .. Len(q) : q[i] = n
    BY DEF CaughtUp, Outstanding
  <2>3. /\ q' = Tail(q) /\ job' = [at |-> "draw", line |-> Head(q)]
        /\ line_buffer_pool' = [line_buffer_pool EXCEPT ![DrawBuffer(Head(q))] = Torn]
    BY <1>3 DEF TakeRequest
  <2> HIDE DEF q
  <2>4. Head(q) = n
    BY <2>1, <2>2
  <2>5. line_buffer_pool'[ScanBuffer(n)] = n
    BY <1>1, <2>3, <2>4 DEF TypeOK
  <2>6. \A i \in 1 .. Len(q') : q'[i] = n
    BY <2>1, <2>2, <2>3
  <2>7. CaughtUp(n)'
    BY <2>3, <2>4, <2>6 DEF CaughtUp, Outstanding, q
  <2>8. QED
    BY <2>5, <2>7
<1>4. CASE FinishDrawing
  <2>1. job.line = n
    BY <1>4 DEF FinishDrawing, CaughtUp, Outstanding
  <2>2. line_buffer_pool'[ScanBuffer(n)] = n
    BY <1>1, <1>4, <2>1 DEF FinishDrawing, TypeOK
  <2>3. job'.line = n /\ line_request_queue' = line_request_queue
    BY <1>4, <2>1 DEF FinishDrawing, TypeOK
  <2>4. QED
    BY <2>2, <2>3 DEF CaughtUp, Outstanding
<1>5. CASE DriveVsync
  <2>1. /\ job'.at = "wait" /\ line_request_queue' = line_request_queue
        /\ line_buffer_pool' = line_buffer_pool
    BY <1>5 DEF DriveVsync, TypeOK
  <2>2. QED
    BY <2>1 DEF CaughtUp, Outstanding
<1>6. QED
  BY <1>3, <1>4, <1>5 DEF Draw

(* A line that is complete stays so while it is sent, for every mode and every
   size of the pool (mc6847_run). *)
THEOREM CompleteLinesStay == Spec => CompleteLineStable
<1>1. ASSUME TypeOK, ChannelsInStep, [Next]_vars
      PROVE  [\A n \in Lines :
                (/\ Streaming(n) /\ CaughtUp(n) /\ running' = running
                 /\ line_buffer_pool[ScanBuffer(n)] = n)
                => /\ line_buffer_pool'[ScanBuffer(n)] = n
                   /\ CaughtUp(n)']_vars
  <2> SUFFICES ASSUME Next, NEW n \in Lines,
                      Streaming(n), CaughtUp(n), running' = running,
                      line_buffer_pool[ScanBuffer(n)] = n
               PROVE  /\ line_buffer_pool'[ScanBuffer(n)] = n
                      /\ CaughtUp(n)'
    BY <1>1
  <2>1. ~TransferDone
    BY <1>1 DEF TransferDone, TypeOK, Channels, DMACH_PING, DMACH_PONG
  <2>2. CASE dma_irq_handler
    <3>1. UNCHANGED <<line_request_queue, job, line_buffer_pool>>
      BY <1>1, <2>2, NoRequestWhileStreaming
    <3>2. QED
      BY <3>1 DEF CaughtUp, Outstanding
  <2>3. CASE Draw
    BY <1>1, <2>3, CaughtUpDrawing
  <2>4. QED
    BY <2>1, <2>2, <2>3 DEF Next
<1>2. QED
  BY <1>1, TypeCorrect, InStep, PTL DEF Spec, CompleteLineStable
=============================================================================
