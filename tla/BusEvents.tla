----------------------------- MODULE BusEvents ------------------------------
(***************************************************************************)
(* From a 6502 write to the devices on core 1: the DMA chain stores the    *)
(* byte in the shadow memory and then the address in a ring (atom_if.c),   *)
(* DMA_IRQ_1 drains the ring (sid_event_handler, atom_sid.cc), and the     *)
(* main loop applies the queued SID writes (as_timer_callback).            *)
(*                                                                         *)
(* The ring has no flow control and holds addresses only: the handler      *)
(* reads the byte from the shadow memory when it gets round to it.         *)
(***************************************************************************)
EXTENDS PicoQueue

CONSTANTS
  EB_EVENT_QUEUE_LEN,   \* slots of the ring the DMA writes addresses to
  AS_Q_LENGTH,          \* capacity of the queue of SID writes
  UI_Q_LENGTH,          \* capacity of the queue of user interface events
  SidRegs,              \* addresses of the writable SID registers
  KeyCells,             \* addresses 0x100 .. 0x11F
  OtherCells,           \* writable addresses the handler ignores
  TELETEXT_CRTA, TELETEXT_CRTB,   \* the CRTC's index and data ports
  TELETEXT_REG_COUNT,   \* CRTC registers
  SidValues,            \* what the 6502 may write to the SID
  PortValues            \* what it may write to the CRTC

Ports     == {TELETEXT_CRTA, TELETEXT_CRTB}
Addresses == SidRegs \cup KeyCells \cup OtherCells \cup Ports

(* Of the other cells the byte is never looked at. *)
ValuesFor(a) == IF a \in SidRegs THEN SidValues
                ELSE IF a \in Ports THEN PortValues
                ELSE {0}

Values == SidValues \cup PortValues \cup {0}

NoEvent   == -1
SID_RESET == 0

ASSUME SizeAssumption ==
  /\ EB_EVENT_QUEUE_LEN \in Nat /\ EB_EVENT_QUEUE_LEN >= 2
  /\ AS_Q_LENGTH \in Nat
  /\ UI_Q_LENGTH \in Nat
  /\ TELETEXT_REG_COUNT \in Nat /\ TELETEXT_REG_COUNT >= 1
  /\ SidValues \subseteq Nat
  /\ PortValues \subseteq Nat

ASSUME AddressAssumption ==
  /\ TELETEXT_CRTA # TELETEXT_CRTB
  /\ SidRegs \cap (KeyCells \cup OtherCells \cup Ports) = {}
  /\ KeyCells \cap (OtherCells \cup Ports) = {}
  /\ OtherCells \cap Ports = {}
  /\ {NoEvent, SID_RESET} \cap Addresses = {}

VARIABLES
  _eb_memory,      \* per address, the byte in the shadow memory
  inflight,        \* DMA: the address whose byte is stored, its event not yet
  eb_event_queue,  \* the ring
  in_ptr,          \* DMA: the slot the next event goes to
  out_ptr,         \* eb_get_event: the slot the next event is read from
  intr,            \* the completion interrupt of the event channel, latched
  setup,           \* how far eb_set_exclusive_handler is
  isr,             \* sid_event_handler: between calls, fetching, dispatching
  address,         \* the result of its last eb_get_event
  as_q,            \* SID writes and resets on their way to the emulation
  sid,             \* registers of the SID emulation
  ui_q,            \* user interface events
  address_reg,     \* teletext_reg_write: the CRTC register selected
  teletext_regs    \* the CRTC registers

ringVars  == <<eb_event_queue, in_ptr>>
sidVars   == <<as_q, sid>>
crtcVars  == <<address_reg, teletext_regs>>
queueVars == <<as_q, ui_q, crtcVars>>
vars == <<_eb_memory, inflight, ringVars, out_ptr, intr, setup, isr, address,
          sidVars, ui_q, crtcVars>>

Slots        == 0 .. EB_EVENT_QUEUE_LEN - 1
CrtcRegs     == 0 .. TELETEXT_REG_COUNT - 1
SidElement(a, data) == [address |-> a, data |-> data]
SidElements  == [address : SidRegs \cup {SID_RESET}, data : Values]

TypeOK ==
  /\ _eb_memory \in [Addresses -> Values]
  /\ inflight \in Addresses \cup {NoEvent}
  /\ eb_event_queue \in [Slots -> Addresses \cup {0}]
  /\ in_ptr \in Slots
  /\ out_ptr \in Slots
  /\ intr \in BOOLEAN
  /\ setup \in {"off", "enabled", "on"}
  /\ isr \in {"idle", "fetch", "dispatch"}
  /\ address \in Addresses \cup {NoEvent}
  /\ isr = "dispatch" => address \in Addresses
  /\ as_q \in Seq(SidElements) /\ Len(as_q) <= AS_Q_LENGTH
  /\ sid \in [SidRegs -> Values]
  /\ ui_q \in Seq({"KEY_PRESS"}) /\ Len(ui_q) <= UI_Q_LENGTH
  /\ address_reg \in Values
  /\ teletext_regs \in [CrtcRegs -> Values]

-----------------------------------------------------------------------------
(* Initial state: eb_init has started the PIO programs; as_run has not yet
   installed its handler. *)
Init ==
  /\ _eb_memory = [a \in Addresses |-> 0]
  /\ inflight = NoEvent
  /\ eb_event_queue = [s \in Slots |-> 0]
  /\ in_ptr = 0
  /\ out_ptr = 0
  /\ intr = FALSE
  /\ setup = "off"
  /\ isr = "idle"
  /\ address = NoEvent
  /\ as_q = << >>
  /\ sid = [r \in SidRegs |-> 0]
  /\ ui_q = << >>
  /\ address_reg = 0
  /\ teletext_regs = [r \in CrtcRegs |-> 0]

-----------------------------------------------------------------------------
(* The 6502 and the DMA chain of eb_setup_dma.  write_data_chan stores the
   byte and chains to eb_event_chan, which stores the address and raises its
   interrupt; the next bus cycle comes later than both. *)
BusWrite(a, value) ==
  /\ inflight = NoEvent
  /\ _eb_memory' = [_eb_memory EXCEPT ![a] = value]
  /\ inflight' = a
  /\ UNCHANGED <<ringVars, out_ptr, intr, setup, isr, address,
                 sidVars, ui_q, crtcVars>>

(* The ring wraps: of the DMA's write address by channel_config_set_ring, of
   the reader's pointer by eb_get_event.  (Of the faulty variants one never
   wraps, the other wraps a slot early.) *)
RingNoWrap(p) == p + 1
RingWrap(p) == IF p = EB_EVENT_QUEUE_LEN - 1 THEN 0 ELSE p + 1

WrapEarly(p) == IF p >= EB_EVENT_QUEUE_LEN - 2 THEN 0 ELSE p + 1
PointerWrap(p) == IF p + 1 > EB_EVENT_QUEUE_LEN - 1 THEN 0 ELSE p + 1

StoreEvent ==
  /\ inflight # NoEvent
  /\ eb_event_queue' = [eb_event_queue EXCEPT ![in_ptr] = inflight]
  /\ in_ptr' = RingWrap(in_ptr)
  /\ intr' = TRUE
  /\ inflight' = NoEvent
  /\ UNCHANGED <<_eb_memory, out_ptr, setup, isr, address,
                 sidVars, ui_q, crtcVars>>

-----------------------------------------------------------------------------
(* eb_set_exclusive_handler: the interrupt is enabled first, and what is
   pending is acknowledged after that. *)
EnableInterrupt ==
  /\ setup = "off"
  /\ setup' = "enabled"
  /\ UNCHANGED <<_eb_memory, inflight, ringVars, out_ptr, intr, isr, address,
                 sidVars, ui_q, crtcVars>>

AcknowledgePending ==
  /\ setup = "enabled"
  /\ isr = "idle"
  /\ intr' = FALSE
  /\ setup' = "on"
  /\ UNCHANGED <<_eb_memory, inflight, ringVars, out_ptr, isr, address,
                 sidVars, ui_q, crtcVars>>

-----------------------------------------------------------------------------
(* sid_event_handler: acknowledge first, then drain the ring. *)
EnterHandler ==
  /\ setup # "off"
  /\ isr = "idle"
  /\ intr
  /\ intr' = FALSE
  /\ isr' = "fetch"
  /\ UNCHANGED <<_eb_memory, inflight, ringVars, out_ptr, setup, address,
                 sidVars, ui_q, crtcVars>>

(* eb_get_event. *)
GetEvent ==
  /\ isr = "fetch"
  /\ out_ptr # in_ptr
  /\ address' = eb_event_queue[out_ptr]
  /\ out_ptr' = PointerWrap(out_ptr)
  /\ isr' = "dispatch"
  /\ UNCHANGED <<_eb_memory, inflight, ringVars, intr, setup,
                 sidVars, ui_q, crtcVars>>

FindEmpty ==
  /\ isr = "fetch"
  /\ out_ptr = in_ptr
  /\ address' = NoEvent
  /\ isr' = "idle"
  /\ UNCHANGED <<_eb_memory, inflight, ringVars, out_ptr, intr, setup,
                 sidVars, ui_q, crtcVars>>

(* The loop of the handler goes on until the ring is empty (in the faulty
   variant, one event is handled per interrupt). *)
HandleOneEvent == isr' = "idle"
HandleNext == isr' = "fetch"

(* as_sid_write: the byte is read now, not when the 6502 wrote it. *)
as_sid_write ==
  /\ address \in SidRegs
  /\ as_q' = TryAdd(as_q, AS_Q_LENGTH, SidElement(address, _eb_memory[address]))
  /\ UNCHANGED <<ui_q, crtcVars>>

(* teletext_reg_write: the index port selects, the data port writes, and an
   index beyond the last register is ignored (the faulty variant ignores the
   last register as well). *)
AllButLast == 0 .. TELETEXT_REG_COUNT - 2
Writable == CrtcRegs

teletext_reg_write ==
  /\ \/ /\ address = TELETEXT_CRTA
        /\ address_reg' = _eb_memory[address]
        /\ UNCHANGED teletext_regs
     \/ /\ address = TELETEXT_CRTB
        /\ teletext_regs' =
             [r \in CrtcRegs |-> IF r = address_reg /\ r \in Writable
                                THEN _eb_memory[address] ELSE teletext_regs[r]]
        /\ UNCHANGED address_reg
  /\ UNCHANGED <<as_q, ui_q>>

ui_post_event ==
  /\ address \in KeyCells
  /\ ui_q' = TryAdd(ui_q, UI_Q_LENGTH, "KEY_PRESS")
  /\ UNCHANGED <<as_q, crtcVars>>

Ignore ==
  /\ address \in OtherCells
  /\ UNCHANGED queueVars

Dispatch ==
  /\ isr = "dispatch"
  /\ HandleNext
  /\ as_sid_write \/ teletext_reg_write \/ ui_post_event \/ Ignore
  /\ UNCHANGED <<_eb_memory, inflight, ringVars, out_ptr, intr, setup,
                 address, sid>>

sid_event_handler == EnterHandler \/ GetEvent \/ FindEmpty \/ Dispatch

-----------------------------------------------------------------------------
(* The rest of core 1, which the handler preempts.  as_reset is called by
   gpio_callback when BREAK goes down. *)
as_reset ==
  /\ isr = "idle"
  /\ as_q' = TryAdd(as_q, AS_Q_LENGTH, SidElement(SID_RESET, 0))
  /\ UNCHANGED <<_eb_memory, inflight, ringVars, out_ptr, intr, setup, isr,
                 address, sid, ui_q, crtcVars>>

(* as_timer_callback: one turn of its loop over as_q.  The main loop may be
   held up for long by capture or display_licence before it comes here.
   (The faulty variant of a reset leaves the registers alone.) *)
ApplyResetToNothing(element) ==
  /\ element.address = SID_RESET
  /\ UNCHANGED sid

ApplyReset(element) ==
  /\ element.address = SID_RESET
  /\ sid' = [r \in SidRegs |-> 0]

ApplyWrite(element) ==
  /\ element.address # SID_RESET
  /\ sid' = [sid EXCEPT ![element.address] = element.data]

as_timer_callback ==
  /\ setup = "on"
  /\ isr = "idle"
  /\ as_q # << >>
  /\ ApplyReset(Head(as_q)) \/ ApplyWrite(Head(as_q))
  /\ as_q' = Tail(as_q)
  /\ UNCHANGED <<_eb_memory, inflight, ringVars, out_ptr, intr, setup, isr,
                 address, ui_q, crtcVars>>

(* ui_run takes an event from ui_q. *)
TakeUiEvent ==
  /\ setup = "on"
  /\ isr = "idle"
  /\ ui_q # << >>
  /\ ui_q' = Tail(ui_q)
  /\ UNCHANGED <<_eb_memory, inflight, ringVars, out_ptr, intr, setup, isr,
                 address, sidVars, crtcVars>>

-----------------------------------------------------------------------------
Next ==
  \/ \E a \in Addresses : \E value \in ValuesFor(a) : BusWrite(a, value)
  \/ StoreEvent
  \/ EnableInterrupt \/ AcknowledgePending
  \/ sid_event_handler
  \/ as_reset \/ as_timer_callback \/ TakeUiEvent

(* Nothing is assumed of the speed of the handler: the ring may be lapped. *)
Spec == Init /\ [][Next]_vars

-----------------------------------------------------------------------------
(* Timing assumption: the 6502 writes at most once in three microseconds and
   the handler takes less than one per event, so that the ring always has a
   free slot.  (Not so before as_run has installed the handler.) *)
HandlerKeepsUp == in_ptr' # in_ptr => in_ptr' # out_ptr

TimelySpec == Init /\ [][Next /\ HandlerKeepsUp]_vars

(* Fairness: a bus cycle that has stored its byte completes, and an enabled
   interrupt is taken and its handler runs.  The 6502 need not write. *)
FairTimelySpec ==
  /\ TimelySpec
  /\ WF_vars(StoreEvent /\ HandlerKeepsUp)
  /\ WF_vars(sid_event_handler)

-----------------------------------------------------------------------------
(* The ring seen as a queue: the slots from out_ptr up to in_ptr. *)
Unread == IF in_ptr >= out_ptr THEN in_ptr - out_ptr
          ELSE in_ptr - out_ptr + EB_EVENT_QUEUE_LEN

UnreadSlot(i) == IF out_ptr + i - 1 < EB_EVENT_QUEUE_LEN THEN out_ptr + i - 1
                 ELSE out_ptr + i - 1 - EB_EVENT_QUEUE_LEN

UnreadEvents == [i \in 1 .. Unread |-> eb_event_queue[UnreadSlot(i)]]

Q == INSTANCE EventQueue WITH queue <- UnreadEvents

(* If the handler keeps up with the 6502, eb_get_event returns every address
   written, once and in order, and -1 only when there is none: the ring that
   the DMA fills without looking at out_ptr is a queue. *)
ImplementsEventQueue == Q!Spec

(* An event that arrives while the handler is draining, or just after it has
   found the ring empty, is never left behind: once the handler is installed
   there is a pending interrupt whenever it is idle with events to handle,
   unless the acknowledgement of eb_set_exclusive_handler itself wiped out
   that interrupt, and then the next event repairs it. *)
Stranded == isr = "idle" /\ out_ptr # in_ptr /\ ~intr

NoLostWakeup ==
  [][Stranded' => Stranded \/ setup # setup']_vars

(* Whatever the 6502 does next, the oldest event is fetched once an interrupt
   is pending or the handler is at work, however many events it is the first
   of. *)
OldestEventFetched ==
  \A s \in Slots :
    (/\ setup = "on" /\ (intr \/ isr # "idle")
     /\ out_ptr = s /\ in_ptr # s)
    ~> out_ptr # s
=============================================================================
