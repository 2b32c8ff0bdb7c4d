------------------------------ MODULE Scanout -------------------------------
(***************************************************************************)
(* DVI scan-out: the two chained DMA channels that feed the HSTX FIFO, the *)
(* interrupt handler that reloads the channel that has just finished       *)
(* (dvi_out_hstx_encoder_mod.c), and the loop of mc6847.c that draws one   *)
(* scanline ahead of the beam into a pool of line buffers.                 *)
(*                                                                         *)
(* Three actors interleave: the DMA engine, the interrupt handler (it      *)
(* preempts the drawing loop, so it is one step) and the drawing loop,     *)
(* which the handler and the DMA may overtake anywhere.  A buffer is       *)
(* represented by the number of the line it holds.                         *)
(***************************************************************************)
EXTENDS VideoMode, PicoQueue

CONSTANTS
  LINE_BUFFER_POOL_COUNT,  \* line buffers, and the length of the queue
  VSYNC_ON,                \* the line whose request lowers PIN_VSYNC
  FS_SETPOINT              \* the scanline at which that edge is expected

(* The last line of a frame and the first of the next use different buffers
   only if the pool divides the picture; it does in every mode. *)
ASSUME PoolAssumption ==
  /\ LINE_BUFFER_POOL_COUNT \in Nat /\ LINE_BUFFER_POOL_COUNT >= 2
  /\ MODE_V_ACTIVE_LINES % LINE_BUFFER_POOL_COUNT = 0

(* VSYNC_ON is the line after the 192 rows of the 6847, above the lower
   border, which has more than two lines in every mode. *)
ASSUME SyncAssumption ==
  /\ VSYNC_ON \in 1 .. MODE_V_ACTIVE_LINES - 3
  /\ FS_SETPOINT \in Int

VARIABLES
  chan,          \* per DMA channel, the segment its read address points at
  running,       \* the channel that is feeding the FIFO
  intr,          \* channels whose completion interrupt is pending
  dma_pong,      \* handler: TRUE if PONG is the channel expected to finish
  v_scanline,    \* handler: the scanline it will post next
  vactive_cmdlist_posted,  \* handler: only the pixels of it are missing
  fs_previous, fs_measured, fs_error,   \* handler: frame sync measurement
  line_request_queue,      \* lines whose pixels have been posted
  job,                     \* the drawing loop: its position and its request
  line_buffer_pool,        \* per buffer, the line it holds
  vsync_pin                \* the level of PIN_VSYNC

handlerVars == <<dma_pong, v_scanline, vactive_cmdlist_posted,
                 fs_previous, fs_measured, fs_error>>
dmaVars     == <<chan, running, intr>>
drawVars    == <<job, line_buffer_pool, vsync_pin>>
vars        == <<dmaVars, handlerVars, line_request_queue, drawVars>>

DMACH_PING == 0
DMACH_PONG == 1
Channels   == {DMACH_PING, DMACH_PONG}

Blank == -1   \* a buffer of zeroes, as the pool is at start-up
Torn  == -2   \* a buffer that is being overwritten

Lines   == 0 .. MODE_V_ACTIVE_LINES - 1
Buffers == 0 .. LINE_BUFFER_POOL_COUNT - 1

R == INSTANCE Raster WITH beam <- chan[running]

TypeOK ==
  /\ chan \in [Channels -> Segments]
  /\ running \in Channels
  /\ intr \in SUBSET Channels
  /\ dma_pong \in BOOLEAN
  /\ v_scanline \in Scanlines
  /\ vactive_cmdlist_posted \in BOOLEAN
  /\ fs_previous \in BOOLEAN
  /\ fs_measured \in Int
  /\ fs_error \in Int
  /\ line_request_queue \in Seq(Lines)
  /\ job \in [at : {"wait", "draw", "sync"}, line : Lines]
  /\ line_buffer_pool \in [Buffers -> Lines \cup {Blank, Torn}]
  /\ vsync_pin \in BOOLEAN

-----------------------------------------------------------------------------
(* Initial state: hstx_main has cued a vsync_off line on both channels and
   started PING; main has left PIN_VSYNC driven low. *)
Init ==
  /\ chan = [c \in Channels |->
               Segment("vsync_off", IF c = DMACH_PING THEN 0 ELSE 1)]
  /\ running = DMACH_PING
  /\ intr = {}
  /\ dma_pong = FALSE
  /\ v_scanline = 2
  /\ vactive_cmdlist_posted = FALSE
  /\ fs_previous = TRUE
  /\ fs_measured = FS_SETPOINT
  /\ fs_error = 0
  /\ line_request_queue = << >>
  /\ job = [at |-> "wait", line |-> 0]
  /\ line_buffer_pool = [b \in Buffers |-> Blank]
  /\ vsync_pin = FALSE

-----------------------------------------------------------------------------
(* The DMA engine.  A finished channel raises its interrupt and triggers
   the other one, which starts on whatever it was last given.
   Timing assumption: the handler has reloaded a channel before the other
   one finishes; the command lists are padded to make this so. *)
HandlerMeetsDeadline == intr = {}

TransferDone ==
  /\ HandlerMeetsDeadline
  /\ intr' = {running}
  /\ running' = IF running = DMACH_PING THEN DMACH_PONG ELSE DMACH_PING
  /\ UNCHANGED <<chan, handlerVars, line_request_queue, drawVars>>

-----------------------------------------------------------------------------
(* dma_irq_handler: one of three segments is posted to the channel that the
   handler believes has finished. *)
Finished == IF dma_pong THEN DMACH_PONG ELSE DMACH_PING

Post(kind) == chan' = [chan EXCEPT ![Finished] = Segment(kind, v_scanline)]

(* Faulty variant: the wrap-around of the frame forgotten. *)
NextScanlineUnwrapped == v_scanline' = v_scanline + 1

NextScanline == v_scanline' = (v_scanline + 1) % MODE_V_TOTAL_LINES

(* Faulty variant: the edge of the opposite sense. *)
RisingEdge == ~fs_previous /\ vsync_pin

FallingEdge == fs_previous /\ ~vsync_pin

MeasuredError == IF FallingEdge THEN v_scanline - FS_SETPOINT ELSE fs_error

MeasureFs ==
  /\ fs_measured' = IF FallingEdge THEN v_scanline ELSE fs_measured
  /\ fs_previous' = vsync_pin

(* mc6847_get_line_buffer asks for the line to be drawn. *)
RequestLine(n) ==
  line_request_queue' = TryAdd(line_request_queue, LINE_BUFFER_POOL_COUNT, n)

(* The buffer mc6847_get_line_buffer returns for the pixels of line n. *)
ScanBuffer(n) == n % LINE_BUFFER_POOL_COUNT

(* Faulty variant: vsync starts a scanline late. *)
PostBlankingLate ==
  /\ v_scanline < FirstActive
  /\ Post(IF /\ v_scanline > MODE_V_FRONT_PORCH
             /\ v_scanline < MODE_V_FRONT_PORCH + MODE_V_SYNC_WIDTH
          THEN "vsync_on" ELSE "vsync_off")
  /\ NextScanline
  /\ fs_error' = MeasuredError
  /\ UNCHANGED <<vactive_cmdlist_posted, line_request_queue>>

PostBlanking ==
  /\ v_scanline < FirstActive
  /\ Post(IF /\ v_scanline >= MODE_V_FRONT_PORCH
             /\ v_scanline < MODE_V_FRONT_PORCH + MODE_V_SYNC_WIDTH
          THEN "vsync_on" ELSE "vsync_off")
  /\ NextScanline
  /\ fs_error' = MeasuredError
  /\ UNCHANGED <<vactive_cmdlist_posted, line_request_queue>>

PostCommands ==
  /\ v_scanline >= FirstActive
  /\ ~vactive_cmdlist_posted
  /\ Post("commands")
  /\ vactive_cmdlist_posted' = TRUE
  /\ fs_error' = MeasuredError
  /\ UNCHANGED <<v_scanline, line_request_queue>>

(* Faulty variant: the pixels posted, the flag not reset. *)
PostPixelsForever ==
  /\ v_scanline >= FirstActive
  /\ vactive_cmdlist_posted
  /\ Post("pixels")
  /\ RequestLine(v_scanline - FirstActive)
  /\ fs_error' = IF v_scanline = FS_SETPOINT + 1 THEN 0 ELSE MeasuredError
  /\ UNCHANGED <<v_scanline, vactive_cmdlist_posted>>

PostPixels ==
  /\ v_scanline >= FirstActive
  /\ vactive_cmdlist_posted
  /\ Post("pixels")
  /\ RequestLine(v_scanline - FirstActive)
  /\ vactive_cmdlist_posted' = FALSE
  /\ NextScanline
  /\ fs_error' = IF v_scanline = FS_SETPOINT + 1 THEN 0 ELSE MeasuredError

dma_irq_handler ==
  /\ intr # {}
  /\ intr' = intr \ {Finished}
  /\ dma_pong' = ~dma_pong
  /\ MeasureFs
  /\ PostBlanking \/ PostCommands \/ PostPixels
  /\ UNCHANGED <<running, drawVars>>

-----------------------------------------------------------------------------
(* mc6847_run: take a request, draw the line LINE_BUFFER_POOL_COUNT - 1
   ahead of it, then drive PIN_VSYNC.  The faulty variants draw one line too
   far ahead, or into the buffer of the line being sent. *)
LineTooFarAhead(n) == (n + LINE_BUFFER_POOL_COUNT) % MODE_V_ACTIVE_LINES

LineAhead(n) == (n + LINE_BUFFER_POOL_COUNT - 1) % MODE_V_ACTIVE_LINES

DrawBufferOfBeam(n) == n % LINE_BUFFER_POOL_COUNT

DrawBuffer(n) == LineAhead(n) % LINE_BUFFER_POOL_COUNT

TakeRequest ==
  /\ job.at = "wait"
  /\ line_request_queue # << >>
  /\ job' = [at |-> "draw", line |-> Head(line_request_queue)]
  /\ line_request_queue' = Tail(line_request_queue)
  /\ line_buffer_pool' =
       [line_buffer_pool EXCEPT ![DrawBuffer(Head(line_request_queue))] = Torn]
  /\ UNCHANGED <<dmaVars, handlerVars, vsync_pin>>

FinishDrawing ==
  /\ job.at = "draw"
  /\ job' = [job EXCEPT !.at = "sync"]
  /\ line_buffer_pool' =
       [line_buffer_pool EXCEPT ![DrawBuffer(job.line)] = LineAhead(job.line)]
  /\ UNCHANGED <<dmaVars, handlerVars, line_request_queue, vsync_pin>>

(* Faulty variants: frame sync released below the picture, or never. *)
VSYNC_OFF_LastLine == MODE_V_ACTIVE_LINES - 1
VSYNC_OFF_Never == MODE_V_ACTIVE_LINES

VSYNC_OFF == 0

DriveVsync ==
  /\ job.at = "sync"
  /\ job' = [job EXCEPT !.at = "wait"]
  /\ vsync_pin' = IF job.line = VSYNC_ON THEN FALSE
                  ELSE IF job.line = VSYNC_OFF THEN TRUE
                  ELSE vsync_pin
  /\ UNCHANGED <<dmaVars, handlerVars, line_request_queue, line_buffer_pool>>

Draw == TakeRequest \/ FinishDrawing \/ DriveVsync

Next == TransferDone \/ dma_irq_handler \/ Draw

(* Any speed of drawing, including one too slow for the beam. *)
Spec == Init /\ [][Next]_vars

-----------------------------------------------------------------------------
(* The requests the drawing loop has still to complete. *)
Outstanding ==
  {line_request_queue[i] : i \in 1 .. Len(line_request_queue)}
    \cup {l \in {job.line} : job.at # "wait"}

Streaming(n) == chan[running] = Segment("pixels", n + FirstActive)

CaughtUp(n) == Outstanding \subseteq {n}

(* Timing assumption of the picture: drawing a line takes less than a line
   period, so that the request of line n - 1 has been served when the pixels
   of line n start. *)
DrawingMeetsDeadline ==
  \A n \in Lines : Streaming(n)' /\ running' # running => CaughtUp(n)'

TimelySpec == Init /\ [][Next /\ DrawingMeetsDeadline]_vars

(* Fairness: the DMA runs off a free clock, a pending interrupt of priority 0
   is taken, and the drawing loop is the only thread of core 0. *)
FairTimelySpec ==
  /\ TimelySpec
  /\ WF_vars(TransferDone /\ DrawingMeetsDeadline)
  /\ WF_vars(dma_irq_handler)
  /\ WF_vars(Draw)

-----------------------------------------------------------------------------
(* The handler knows the channels only through dma_pong and v_scanline.
   It stays in step with them: while no reload is due, the idle channel holds
   the segment after the one being sent and the handler is about to post the
   one after that; while a reload is due, it is due to the channel dma_pong
   names and the handler is about to give it the segment after the one being
   sent (dma_irq_handler against the chained channels of hstx_main). *)
Idle == IF running = DMACH_PING THEN DMACH_PONG ELSE DMACH_PING

Due == IF vactive_cmdlist_posted THEN Segment("pixels", v_scanline)
       ELSE R!Opening(v_scanline)

ChannelsInStep ==
  /\ vactive_cmdlist_posted => v_scanline >= FirstActive
  /\ \/ /\ intr = {}
        /\ Finished = running
        /\ chan[Idle] = R!Successor(chan[running])
        /\ Due = R!Successor(chan[Idle])
     \/ /\ intr = {Idle}
        /\ Finished = Idle
        /\ Due = R!Successor(chan[running])

(* At any drawing speed the monitor receives well-formed frames: every
   segment that is sent is the one Raster puts after the previous one. *)
ImplementsRaster == R!Spec

(* And, under the fairness of the hardware, it never stops receiving them. *)
ImplementsLiveRaster == R!LiveSpec

(* At any drawing speed, a backlog is harmless once it is gone: if no request
   but that of line n is outstanding while the pixels of line n are sent, and
   the buffer holds line n, then it keeps line n until the last pixel is out
   (mc6847_run draws into the buffer the DMA is not reading). *)
CompleteLineStable ==
  [][\A n \in Lines :
       (/\ Streaming(n) /\ CaughtUp(n) /\ running' = running
        /\ line_buffer_pool[ScanBuffer(n)] = n)
       => /\ line_buffer_pool'[ScanBuffer(n)] = n
          /\ CaughtUp(n)']_vars

(* If every line is drawn within a line period, every line sent is the line
   that was drawn for it, never an older one nor one half overwritten, and no
   request for one is dropped by queue_try_add.  The first lines of the first
   frame are the only exception: nobody has drawn them yet, and the monitor
   sees the zeroed pool. *)
LineIsItsOwn ==
  \A n \in Lines :
    Streaming(n) =>
      \/ line_buffer_pool[ScanBuffer(n)] = n
      \/ /\ line_buffer_pool[ScanBuffer(n)] = Blank
         /\ n < LINE_BUFFER_POOL_COUNT - 1

(* If every line is drawn within a line period, the 6502 sees PIN_VSYNC low
   throughout the blanking and the lower border, and high while the beam is
   in the picture above them (VSYNC_ON and VSYNC_OFF of mc6847_run). *)
VsyncTracksBeam ==
  /\ chan[running].kind \in {"vsync_on", "vsync_off"} => ~vsync_pin
  /\ \A n \in Lines \ {0, VSYNC_ON} : Streaming(n) => (vsync_pin <=> n < VSYNC_ON)

(* If every line is drawn within a line period, the scanline recorded for the
   falling edge of PIN_VSYNC is that of one of the two lines after VSYNC_ON:
   the measurement fs_error is based on jitters by one scanline.  Until the
   first frame is over it is the initial value, or the edge the handler sees
   at its first call because the pin starts low. *)
FsMeasurementBounded ==
  fs_measured \in {FS_SETPOINT, 2}
    \cup {FirstActive + VSYNC_ON + 1, FirstActive + VSYNC_ON + 2}

(* If drawing keeps up, frame sync reaches the 6502 again and again. *)
FrameSyncForever == []<>vsync_pin /\ []<>~vsync_pin
=============================================================================
