------------------------------ MODULE BusCycle ------------------------------
(***************************************************************************)
(* What the firmware does in one cycle of the 6502: a PIO program samples  *)
(* the address (eb2_addr_65C02 or eb2_addr_other of sm.pio), two DMA       *)
(* channels fetch the cell's byte and permissions, and a second PIO        *)
(* program (eb2_access) answers a read, or takes the byte of a write when  *)
(* the cycle ends.  Two more channels then store the byte and its event,   *)
(* while the next cycle is under way (eb_setup_dma of atom_if.c).          *)
(*                                                                         *)
(* Eight pins carry, in turn, both halves of the address and the data,     *)
(* through a multiplexer that both programs switch.  No processor takes    *)
(* part; core 1 changes bytes and permissions at any time.                 *)
(*                                                                         *)
(* Once a read has been answered the pins stay outputs: the SET that is to *)
(* release them is configured for no pin at all (SET_COUNT).  What the     *)
(* programs then sense may be anything.                                    *)
(***************************************************************************)
EXTENDS PicoQueue

CONSTANTS
  Screen,      \* the video memory and the 80 column registers
  SidRegs,     \* the writable registers of the SID, and 0x100 .. 0x11F
  SidOutputs,  \* the read-only registers of the SID
  Unmapped,    \* cells that belong to others on the bus
  Bytes,       \* what a cell and the data bus may hold
  EB_EVENT_QUEUE_LEN

Cells     == Screen \cup SidRegs \cup SidOutputs \cup Unmapped
NoAddress == -1
NoData    == -1

ASSUME CellAssumption ==
  /\ Screen \cap (SidRegs \cup SidOutputs \cup Unmapped) = {}
  /\ SidRegs \cap (SidOutputs \cup Unmapped) = {}
  /\ SidOutputs \cap Unmapped = {}
  /\ NoAddress \notin Cells

ASSUME ValueAssumption ==
  /\ Bytes \subseteq Nat /\ 0 \in Bytes
  /\ EB_EVENT_QUEUE_LEN \in Nat /\ EB_EVENT_QUEUE_LEN >= 2

VARIABLES
  r65c02mode,      \* which of the two address programs eb_init has loaded
  phi,             \* PIN_1MHZ
  bus,             \* address, direction and data of the current cycle, as
                   \*   the programs sense them
  address_sm,      \* where the address program is
  access_sm,       \* where eb2_access is
  pindirs,         \* A0 .. A7 are outputs
  pins,            \* what they carry as outputs
  mux,             \* what the multiplexer connects them to
  rxf_address, txf_access, rxf_access,   \* FIFOs of the two programs
  busy,            \* the DMA channels that have a transfer to do
  read_addr,       \* read address of read_data_chan
  write_addr,      \* write address of write_data_chan
  perm,            \* _eb_memory: the high byte of each cell
  data,            \* _eb_memory: the low byte
  eb_event_queue, in_ptr, intr,   \* the ring of events, as in BusEvents
  \* history:
  driven,          \* the pins were outputs when this cycle began
  ram,             \* per cell, the bytes it may hold now
  seen_perm,       \* permissions the cell addressed has had in this cycle
  seen_data        \* bytes it may have had

pio     == <<address_sm, access_sm, pindirs, pins, mux>>
fifos   == <<rxf_address, txf_access, rxf_access>>
dma     == <<busy, read_addr, write_addr>>
ring    == <<eb_event_queue, in_ptr, intr>>
history == <<driven, ram, seen_perm, seen_data>>
vars    == <<r65c02mode, phi, bus, pio, fifos, dma, perm, data, ring, history>>

FIFO_DEPTH == 4
Slots      == 0 .. EB_EVENT_QUEUE_LEN - 1
Channels   == {"address_chan", "read_data_chan", "address_chan2",
               "write_data_chan", "eb_event_chan"}
Words      == [perm : SUBSET {"read", "write"}, data : Bytes]

Cycles ==
  [address : Cells, rw : {"read"}, data : {NoData}]
    \cup [address : Cells, rw : {"write"}, data : Bytes]

TypeOK ==
  /\ r65c02mode \in BOOLEAN
  /\ phi \in {"low", "high"}
  /\ bus \in Cycles
  /\ address_sm \in {"wait 1", "wait 0", "sample"}
  /\ access_sm \in {"pull", "wait 1", "wait 0"}
  /\ pindirs \in {"in", "out"}
  /\ pins \in Bytes
  /\ mux \in {"NONE", "ADHI", "ADLO", "DATA"}
  /\ rxf_address \in Seq(Cells) /\ Len(rxf_address) <= FIFO_DEPTH
  /\ txf_access \in Seq(Words) /\ Len(txf_access) <= FIFO_DEPTH
  /\ rxf_access \in Seq(Bytes) /\ Len(rxf_access) <= FIFO_DEPTH
  /\ busy \subseteq Channels
  /\ read_addr \in Cells \cup {NoAddress}
  /\ write_addr \in Cells \cup {NoAddress}
  /\ perm \in [Cells -> SUBSET {"read", "write"}]
  /\ data \in [Cells -> Bytes]
  /\ eb_event_queue \in [Slots -> Cells \cup {0}]
  /\ in_ptr \in Slots
  /\ intr \in BOOLEAN
  /\ driven \in BOOLEAN
  /\ ram \in [Cells -> SUBSET Bytes]
  /\ seen_perm \subseteq SUBSET {"read", "write"}
  /\ seen_data \subseteq Bytes

-----------------------------------------------------------------------------
(* The permissions of mc6847_init, which come before eb_init, and those of
   as_init, which come after it. *)
EarlyPerm(a) == IF a \in Screen THEN {"read", "write"} ELSE {}

LatePerm(a) == IF a \in SidRegs THEN {"write"}
               ELSE IF a \in SidOutputs THEN {"read"}
               ELSE EarlyPerm(a)

(* eb_init: the programs start at any point of a 6502 cycle. *)
Init ==
  /\ r65c02mode \in BOOLEAN
  /\ phi \in {"low", "high"}
  /\ bus \in Cycles
  /\ address_sm = "wait 1"
  /\ access_sm = "pull"
  /\ pindirs = "in"
  /\ pins = 0
  /\ mux = "NONE"
  /\ rxf_address = << >> /\ txf_access = << >> /\ rxf_access = << >>
  /\ busy = {"address_chan"}
  /\ read_addr = NoAddress
  /\ write_addr = NoAddress
  /\ perm = [a \in Cells |-> EarlyPerm(a)]
  /\ data = [a \in Cells |-> 0]
  /\ eb_event_queue = [s \in Slots |-> 0]
  /\ in_ptr = 0
  /\ intr = FALSE
  /\ driven = FALSE
  /\ ram = [a \in Cells |-> {0}]
  /\ seen_perm = {}
  /\ seen_data = {}

-----------------------------------------------------------------------------
(* The address program.  eb2_addr_65C02 samples a fixed time after the edge,
   eb2_addr_other when the clock has risen. *)
ArmAddress ==
  /\ address_sm = "wait 1"
  /\ phi = "high"
  /\ address_sm' = "wait 0"
  /\ UNCHANGED <<r65c02mode, phi, bus, access_sm, pindirs, pins, mux, fifos,
                 dma, perm, data, ring, history>>

(* Timing assumption: the byte and the event of the last cycle are stored
   within ADDR_DELAY, or half a cycle. *)
StoreIsDone == rxf_access = << >> /\ "eb_event_chan" \notin busy

SampleDue ==
  /\ address_sm = "sample"
  /\ r65c02mode \/ phi = "high"
  /\ StoreIsDone

SampleAddress ==
  /\ SampleDue
  /\ mux' = "ADLO"
  /\ rxf_address' = TryAdd(rxf_address, FIFO_DEPTH, bus.address)
  /\ address_sm' = "wait 1"
  /\ UNCHANGED <<r65c02mode, phi, bus, access_sm, pindirs, pins, txf_access,
                 rxf_access, dma, perm, data, ring, history>>

(* eb2_access: the word that has been pulled decides, with the R/W pin.  (The
   faulty variant takes the two flags out of the word in the other order.) *)
WordDue == access_sm = "pull" /\ txf_access # << >>

OtherFlag(word) == (IF bus.rw = "read" THEN "write" ELSE "read") \in word.perm
Allowed(word) == bus.rw \in word.perm

AcceptWrite(word) ==
  /\ bus.rw = "write"
  /\ Allowed(word)
  /\ mux' = "DATA"
  /\ access_sm' = "wait 1"
  /\ UNCHANGED pindirs

AnswerRead(word) ==
  /\ bus.rw = "read"
  /\ Allowed(word)
  /\ mux' = "DATA"
  /\ pindirs' = "out"
  /\ UNCHANGED access_sm

LeaveToOthers(word) ==
  /\ ~Allowed(word)
  /\ mux' = "NONE"
  /\ UNCHANGED <<access_sm, pindirs>>

PullWord ==
  /\ WordDue
  /\ txf_access' = Tail(txf_access)
  /\ pins' = Head(txf_access).data
  /\ \/ AcceptWrite(Head(txf_access))
     \/ AnswerRead(Head(txf_access))
     \/ LeaveToOthers(Head(txf_access))
  /\ UNCHANGED <<r65c02mode, phi, bus, address_sm, rxf_address, rxf_access,
                 dma, perm, data, ring, history>>

ArmAccess ==
  /\ access_sm = "wait 1"
  /\ phi = "high"
  /\ access_sm' = "wait 0"
  /\ UNCHANGED <<r65c02mode, phi, bus, address_sm, pindirs, pins, mux, fifos,
                 dma, perm, data, ring, history>>

-----------------------------------------------------------------------------
(* The DMA channels of eb_setup_dma, in the order of their chain.  A channel
   that is busy waits for a byte in its FIFO, if it reads one. *)
AddressDue == "address_chan" \in busy /\ rxf_address # << >>
WriteDue   == "write_data_chan" \in busy /\ rxf_access # << >>

MoveAddress ==
  /\ AddressDue
  /\ read_addr' = Head(rxf_address)
  /\ rxf_address' = Tail(rxf_address)
  /\ busy' = (busy \ {"address_chan"}) \cup {"read_data_chan"}
  /\ UNCHANGED <<r65c02mode, phi, bus, pio, txf_access, rxf_access,
                 write_addr, perm, data, ring, history>>

ReadData ==
  /\ "read_data_chan" \in busy
  /\ txf_access' = TryAdd(txf_access, FIFO_DEPTH,
                          [perm |-> perm[read_addr], data |-> data[read_addr]])
  /\ busy' = (busy \ {"read_data_chan"}) \cup {"address_chan2"}
  /\ UNCHANGED <<r65c02mode, phi, bus, pio, rxf_address, rxf_access,
                 read_addr, write_addr, perm, data, ring, history>>

(* address_chan2 triggers write_data_chan, or gives it another address if it
   still waits, as it does after a cycle in which nothing was written, and
   re-arms address_chan by its chain_to.  (One faulty variant never re-arms,
   the other leaves a waiting channel alone.) *)
NoRearm == {"write_data_chan"}
Rearm == {"write_data_chan", "address_chan"}

RetargetIdle == IF "write_data_chan" \in busy THEN write_addr ELSE read_addr
Retarget == read_addr

MoveAddress2 ==
  /\ "address_chan2" \in busy
  /\ write_addr' = Retarget
  /\ busy' = (busy \ {"address_chan2"}) \cup Rearm
  /\ UNCHANGED <<r65c02mode, phi, bus, pio, fifos, read_addr, perm, data,
                 ring, history>>

(* write_data_chan stores a byte, and leaves the permissions alone.  (The
   faulty variant is not chained to eb_event_chan.) *)
NoEventChained == {}
EventChained == {"eb_event_chan"}

WriteData ==
  /\ WriteDue
  /\ data' = [data EXCEPT ![write_addr] = Head(rxf_access)]
  /\ rxf_access' = Tail(rxf_access)
  /\ busy' = (busy \ {"write_data_chan"}) \cup EventChained
  /\ UNCHANGED <<r65c02mode, phi, bus, pio, rxf_address, txf_access,
                 read_addr, write_addr, perm, ring, history>>

StoreEvent ==
  /\ "eb_event_chan" \in busy
  /\ eb_event_queue' = [eb_event_queue EXCEPT ![in_ptr] = write_addr]
  /\ in_ptr' = (in_ptr + 1) % EB_EVENT_QUEUE_LEN
  /\ intr' = TRUE
  /\ busy' = busy \ {"eb_event_chan"}
  /\ UNCHANGED <<r65c02mode, phi, bus, pio, fifos, read_addr, write_addr,
                 perm, data, history>>

-----------------------------------------------------------------------------
(* Timing assumption: between two edges of the 6502's clock the programs and
   the channels do all they can.  They need some tens of cycles of a clock of
   240 MHz, half a cycle of the 6502 has 120. *)
Settled ==
  /\ ~SampleDue /\ ~WordDue /\ ~AddressDue /\ ~WriteDue
  /\ busy \cap {"read_data_chan", "address_chan2", "eb_event_chan"} = {}
  /\ phi = "high" => "wait 1" \notin {address_sm, access_sm}

Rise ==
  /\ phi = "low"
  /\ Settled
  /\ phi' = "high"
  /\ UNCHANGED <<r65c02mode, bus, pio, fifos, dma, perm, data, ring, history>>

(* sm_config_set_set_pins is given 8 pins for a field of 3 bits.  The carry
   goes to the field above it, which sm_config_set_sideset then overwrites. *)
SET_COUNT == 8 % 8

ReleasePins == IF SET_COUNT = 8 THEN "in" ELSE pindirs

(* The edge at which a cycle ends.  The programs see it at the same time: the
   access program takes the byte while the address program switches the
   multiplexer. *)
AddressEdge ==
  \/ /\ address_sm = "wait 0"
     /\ pindirs' = ReleasePins
     /\ mux' = "ADHI"
     /\ address_sm' = "sample"
  \/ /\ address_sm # "wait 0"
     /\ UNCHANGED <<address_sm, pindirs, mux>>

TakeByte ==
  IF bus.rw = "write" /\ mux = "DATA" THEN {bus.data} ELSE Bytes

AccessEdge ==
  \/ /\ access_sm = "wait 0"
     /\ Len(rxf_access) < FIFO_DEPTH
     /\ \E byte \in TakeByte : rxf_access' = Append(rxf_access, byte)
     /\ access_sm' = "pull"
  \/ /\ access_sm # "wait 0" \/ Len(rxf_access) = FIFO_DEPTH
     /\ UNCHANGED <<access_sm, rxf_access>>

(* History: what the cell written may hold now.  If its permissions have
   changed during the cycle, the write may count or not. *)
Written ==
  LET a        == bus.address
      Allows(p) == "write" \in p
  IN IF bus.rw = "read" \/ ~ \E p \in seen_perm : Allows(p) THEN ram
     ELSE IF \A p \in seen_perm : Allows(p)
          THEN [ram EXCEPT ![a] = {bus.data}]
          ELSE [ram EXCEPT ![a] = @ \cup {bus.data}]

(* The next cycle is any.  As long as the pins are inputs it is the one that
   the 6502 makes; when they are outputs only its direction is. *)
Fall ==
  /\ phi = "high"
  /\ Settled
  /\ phi' = "low"
  /\ bus' \in Cycles
  /\ AddressEdge
  /\ AccessEdge
  /\ driven' = (pindirs' = "out")
  /\ ram' = Written
  /\ seen_perm' = {perm[bus'.address]}
  /\ seen_data' = ram'[bus'.address]
  /\ UNCHANGED <<r65c02mode, pins, rxf_address, txf_access, dma, perm, data,
                 ring>>

-----------------------------------------------------------------------------
(* Core 1.  A byte and its permissions are written separately. *)
eb_set_perm_byte(a) ==
  /\ perm[a] # LatePerm(a)
  /\ perm' = [perm EXCEPT ![a] = LatePerm(a)]
  /\ seen_perm' = IF a = bus.address /\ seen_perm # {}
                  THEN seen_perm \cup {LatePerm(a)} ELSE seen_perm
  /\ UNCHANGED <<r65c02mode, phi, bus, pio, fifos, dma, data, ring, driven,
                 ram, seen_data>>

(* If the 6502 writes the same cell at the same time, either byte may stay. *)
eb_set(a, value) ==
  /\ data' = [data EXCEPT ![a] = value]
  /\ ram' = [ram EXCEPT ![a] = IF rxf_access # << >> /\ write_addr = a
                               THEN @ \cup {value} ELSE {value}]
  /\ seen_data' = IF a = bus.address THEN seen_data \cup {value} ELSE seen_data
  /\ UNCHANGED <<r65c02mode, phi, bus, pio, fifos, dma, perm, ring, driven,
                 seen_perm>>

-----------------------------------------------------------------------------
Next ==
  \/ ArmAddress \/ SampleAddress
  \/ PullWord \/ ArmAccess
  \/ MoveAddress \/ ReadData \/ MoveAddress2 \/ WriteData \/ StoreEvent
  \/ Rise \/ Fall
  \/ \E a \in Cells : eb_set_perm_byte(a)
  \/ \E a \in Screen \cup SidOutputs, value \in Bytes : eb_set(a, value)

Spec == Init /\ [][Next]_vars

-----------------------------------------------------------------------------
(* Until the first read is answered the firmware drives the pins for nothing
   else: not while the multiplexer drives them with an address, and not
   against a byte that the 6502 writes.  The data bus is connected only when
   the cell whose address has been sensed permits it, then and ever after. *)
NoContention ==
  /\ pindirs = "out" => driven \/ (mux = "DATA" /\ bus.rw = "read")
  /\ mux = "DATA" => bus.rw \in perm[bus.address]

(* When a read ends the 6502 gets the byte of the cell whose address has been
   sensed: the one that was stored last, be it in the cycle just before, or
   one that core 1 has set in this cycle.  No cycle ever goes unnoticed.  The
   cell is the one that the 6502 reads as long as the pins are inputs, the
   first answer included; after it nothing can be said of which cell it is. *)
CycleEnds == phi = "high" /\ Settled /\ seen_perm # {}

ReadsAnswered ==
  /\ CycleEnds
  /\ bus.rw = "read"
  /\ \A p \in seen_perm : "read" \in p
  => pindirs = "out" /\ mux = "DATA" /\ pins \in seen_data

(* Every byte taken for a cell that may be written to gets there, after reads
   and writes of whatever cells, and nothing is written elsewhere.  (The byte
   and the cell are those of the 6502 as long as the pins are inputs.) *)
WritesStored == rxf_access = << >> => \A a \in Cells : data[a] \in ram[a]

(* The channels store a byte and then its event, for writable cells only, as
   BusEvents has it, which takes over from here.  (Its handlers stand still;
   what the screen holds is nothing to it.) *)
BE == INSTANCE BusEvents WITH
  AS_Q_LENGTH <- 0, UI_Q_LENGTH <- 0, KeyCells <- {}, OtherCells <- Screen,
  TELETEXT_CRTA <- -2, TELETEXT_CRTB <- -3, TELETEXT_REG_COUNT <- 1,
  SidValues <- Bytes, PortValues <- {0},
  _eb_memory <- [a \in Screen \cup SidRegs \cup {-2, -3} |->
                   IF a \in SidRegs THEN data[a] ELSE 0],
  inflight <- IF "eb_event_chan" \in busy THEN write_addr ELSE NoAddress,
  out_ptr <- 0, setup <- "off", isr <- "idle", address <- NoAddress,
  as_q <- << >>, sid <- [r \in SidRegs |-> 0], ui_q <- << >>,
  address_reg <- 0, teletext_regs <- [r \in {0} |-> 0]

ImplementsBus == BE!Spec
=============================================================================
