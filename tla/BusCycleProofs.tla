--------------------------- MODULE BusCycleProofs ---------------------------
(***************************************************************************)
(* Proofs about BusCycle, for any cells, bytes and length of the ring: the *)
(* programs and channels are always at one of a few stages of a cycle, so  *)
(* that pins, answers, bytes and events are what they should be.  The      *)
(* address and the byte are those that the programs sense.                 *)
(***************************************************************************)
EXTENDS BusCycle, SequenceTheorems, TLAPS

Writable == Screen \cup SidRegs

Types ==
  /\ r65c02mode \in BOOLEAN
  /\ phi \in {"low", "high"}
  /\ bus \in Cycles
  /\ pins \in Bytes
  /\ busy \subseteq Channels
  /\ read_addr \in Cells \cup {NoAddress}
  /\ write_addr \in Cells \cup {NoAddress}
  /\ perm \in [Cells -> SUBSET {"read", "write"}]
  /\ data \in [Cells -> Bytes]
  /\ eb_event_queue \in [Slots -> Cells \cup {0}]
  /\ in_ptr \in Slots
  /\ intr \in BOOLEAN
  /\ driven \in BOOLEAN
  /\ ram \in [Cells -> SUBSET Bytes]
  /\ seen_perm \subseteq SUBSET {"read", "write"}
  /\ seen_data \subseteq Bytes

-----------------------------------------------------------------------------
(* The invariant.  Permissions only grow. *)
Perms == \A a \in Cells : perm[a] \in {EarlyPerm(a), LatePerm(a)}

Seen ==
  seen_perm # {} =>
    /\ perm[bus.address] \in seen_perm
    /\ \A p \in seen_perm : p \subseteq perm[bus.address]
    /\ ram[bus.address] \subseteq seen_data

(* Every cell holds what was written last, but for the byte on its way. *)
Memory ==
  \A a \in Cells : data[a] \in ram[a] \/ (rxf_access # << >> /\ a = write_addr)

(* While an address is sampled, the byte of the last cycle is stored, then its
   event. *)
ByteOnItsWay ==
  /\ \E byte \in ram[write_addr] : rxf_access = <<byte>>
  /\ "write_data_chan" \in busy /\ "eb_event_chan" \notin busy
  /\ write_addr \in Writable

EventOnItsWay ==
  /\ rxf_access = << >>
  /\ "eb_event_chan" \in busy
  /\ write_addr \in Writable

(* The pins are what they were when the cycle began: outputs once a read has
   been answered, for no edge makes them inputs again. *)
PinsKept == pindirs = IF driven THEN "out" ELSE "in"

(* What eb2_access has done in this cycle. *)
NothingYet == access_sm = "pull" /\ PinsKept /\ mux = "ADLO"

WordWaits ==
  /\ NothingYet
  /\ \E word \in Words :
       /\ txf_access = <<word>>
       /\ word.perm \in seen_perm
       /\ word.data \in seen_data

Accepted ==
  /\ txf_access = << >>
  /\ access_sm \in {"wait 1", "wait 0"} /\ PinsKept /\ mux = "DATA"
  /\ bus.rw = "write"
  /\ \E p \in seen_perm : "write" \in p

Answered ==
  /\ txf_access = << >>
  /\ access_sm = "pull" /\ pindirs = "out" /\ mux = "DATA"
  /\ bus.rw = "read"
  /\ \E p \in seen_perm : "read" \in p
  /\ pins \in seen_data

LeftAlone ==
  /\ txf_access = << >>
  /\ access_sm = "pull" /\ PinsKept /\ mux = "NONE"
  /\ \E p \in seen_perm : bus.rw \notin p

Access == WordWaits \/ Accepted \/ Answered \/ LeftAlone

(* The channel of the address, read and write path that has work to do. *)
Due(channel) ==
  busy \cap {"address_chan", "read_data_chan", "address_chan2"} = {channel}

(* The stages: before the first cycle, and from the edge at which a cycle
   begins to its end. *)
Waiting == address_sm \in {"wait 1", "wait 0"}

Starting ==
  /\ seen_perm = {}
  /\ Waiting
  /\ rxf_address = << >> /\ txf_access = << >> /\ StoreIsDone
  /\ Due("address_chan")
  /\ access_sm = "pull" /\ PinsKept /\ mux = "NONE"

Sampling ==
  /\ seen_perm # {}
  /\ address_sm = "sample"
  /\ rxf_address = << >> /\ txf_access = << >>
  /\ Due("address_chan")
  /\ access_sm = "pull" /\ PinsKept /\ mux = "ADHI"
  /\ StoreIsDone \/ ByteOnItsWay \/ EventOnItsWay

Sampled ==
  /\ seen_perm # {}
  /\ Waiting /\ StoreIsDone
  /\ rxf_address = <<bus.address>> /\ txf_access = << >>
  /\ Due("address_chan")
  /\ NothingYet

Fetching ==
  /\ seen_perm # {}
  /\ Waiting /\ StoreIsDone
  /\ rxf_address = << >> /\ txf_access = << >>
  /\ Due("read_data_chan") /\ read_addr = bus.address
  /\ NothingYet

Fetched ==
  /\ seen_perm # {}
  /\ Waiting /\ StoreIsDone
  /\ rxf_address = << >>
  /\ Due("address_chan2") /\ read_addr = bus.address
  /\ Access

Armed ==
  /\ seen_perm # {}
  /\ Waiting /\ StoreIsDone
  /\ rxf_address = << >>
  /\ Due("address_chan") /\ "write_data_chan" \in busy
  /\ write_addr = bus.address
  /\ Access

Stage == Starting \/ Sampling \/ Sampled \/ Fetching \/ Fetched \/ Armed

IInv == Types /\ Perms /\ Seen /\ Memory /\ Stage

LEMMA Empty ==
  ASSUME NEW S, NEW q, q = << >>
  PROVE  q \in Seq(S) /\ Len(q) < FIFO_DEPTH /\ Len(q) # FIFO_DEPTH
<1>1. Len(<< >>) = 0 /\ << >> \in Seq(S)
  OBVIOUS
<1>2. QED
  BY <1>1 DEF FIFO_DEPTH

LEMMA Single ==
  ASSUME NEW S, NEW x \in S, NEW q, q = <<x>>
  PROVE  q \in Seq(S) /\ Len(q) < FIFO_DEPTH /\ q # << >>
<1>1. <<x>> \in Seq(S) /\ Len(<<x>>) = 1 /\ <<x>> # << >>
  OBVIOUS
<1>2. QED
  BY <1>1 DEF FIFO_DEPTH

LEMMA Constants ==
  /\ \A a \in Cells : EarlyPerm(a) \subseteq LatePerm(a)
  /\ \A a \in Cells : "write" \in LatePerm(a) => a \in Writable
  /\ \A a \in Cells : LatePerm(a) \subseteq {"read", "write"}
  /\ Writable \subseteq Cells
  /\ NoAddress \notin Cells
  BY CellAssumption DEF EarlyPerm, LatePerm, Writable, Cells

LEMMA InitInv == Init => IInv
<1> SUFFICES ASSUME Init PROVE IInv
  OBVIOUS
<1>1. Types
  <2>1. perm \in [Cells -> SUBSET {"read", "write"}]
    BY DEF Init, EarlyPerm
  <2>2. 0 \in Bytes /\ 0 \in Slots
    BY ValueAssumption DEF Slots
  <2>3. /\ data \in [Cells -> Bytes] /\ ram \in [Cells -> SUBSET Bytes]
        /\ eb_event_queue \in [Slots -> Cells \cup {0}]
    BY <2>2 DEF Init
  <2>4. /\ r65c02mode \in BOOLEAN /\ intr \in BOOLEAN /\ driven \in BOOLEAN
        /\ phi \in {"low", "high"} /\ bus \in Cycles
        /\ pins \in Bytes /\ busy \subseteq Channels
        /\ read_addr \in Cells \cup {NoAddress}
        /\ write_addr \in Cells \cup {NoAddress}
    BY <2>2 DEF Init, Channels
  <2>5. /\ seen_perm \subseteq SUBSET {"read", "write"}
        /\ seen_data \subseteq Bytes
    BY DEF Init
  <2>6. in_ptr \in Slots
    BY <2>2 DEF Init
  <2>7. QED
    BY <2>1, <2>3, <2>4, <2>5, <2>6 DEF Types
<1>2. Perms /\ Seen /\ Memory
  BY DEF Init, Perms, Seen, Memory
<1>3. Starting
  BY DEF Init, Starting, Waiting, StoreIsDone, Due, PinsKept
<1>4. QED
  BY <1>1, <1>2, <1>3 DEF IInv, Stage

(* The steps that leave memory, its history and the path of a byte alone. *)
Still == UNCHANGED <<bus, perm, data, ram, seen_perm, seen_data>>

LEMMA StillMemory ==
  ASSUME Perms, Seen, Memory, Still, UNCHANGED rxf_access,
         rxf_access = << >> \/ UNCHANGED write_addr
  PROVE  Perms' /\ Seen' /\ Memory'
  BY DEF Perms, Seen, Memory, Still

LEMMA ArmAddressStep == IInv /\ ArmAddress => IInv'
<1> SUFFICES ASSUME IInv, ArmAddress PROVE IInv'
  OBVIOUS
<1> USE DEF ArmAddress, pio, fifos, dma, ring, history
<1>1. Types'
  BY DEF IInv, Types
<1>2. Perms' /\ Seen' /\ Memory'
  BY StillMemory DEF IInv, Still
<1>3. Stage'
  BY DEF IInv, Stage, Starting, Sampling, Sampled, Fetching, Fetched, Armed,
         Waiting, StoreIsDone, Due, Access, NothingYet, PinsKept, WordWaits,
         Accepted, Answered, LeftAlone
<1>4. QED
  BY <1>1, <1>2, <1>3 DEF IInv

LEMMA ArmAccessStep == IInv /\ ArmAccess => IInv'
<1> SUFFICES ASSUME IInv, ArmAccess PROVE IInv'
  OBVIOUS
<1> USE DEF ArmAccess, pio, fifos, dma, ring, history
<1>1. Types'
  BY DEF IInv, Types
<1>2. Perms' /\ Seen' /\ Memory'
  BY StillMemory DEF IInv, Still
<1>3. Stage'
  BY DEF IInv, Stage, Starting, Sampling, Sampled, Fetching, Fetched, Armed,
         Waiting, StoreIsDone, Due, Access, NothingYet, PinsKept, WordWaits,
         Accepted, Answered, LeftAlone
<1>4. QED
  BY <1>1, <1>2, <1>3 DEF IInv

LEMMA RiseStep == IInv /\ Rise => IInv'
<1> SUFFICES ASSUME IInv, Rise PROVE IInv'
  OBVIOUS
<1> USE DEF Rise, pio, fifos, dma, ring, history
<1>1. Types'
  BY DEF IInv, Types
<1>2. Perms' /\ Seen' /\ Memory'
  BY StillMemory DEF IInv, Still
<1>3. Stage'
  BY DEF IInv, Stage, Starting, Sampling, Sampled, Fetching, Fetched, Armed,
         Waiting, StoreIsDone, Due, Access, NothingYet, PinsKept, WordWaits,
         Accepted, Answered, LeftAlone, ByteOnItsWay, EventOnItsWay
<1>4. QED
  BY <1>1, <1>2, <1>3 DEF IInv

-----------------------------------------------------------------------------
(* The address program and the channels take an address from stage to stage. *)
LEMMA SampleAddressStep == IInv /\ SampleAddress => IInv' /\ Sampling /\ Sampled'
<1> SUFFICES ASSUME IInv, SampleAddress PROVE IInv' /\ Sampling /\ Sampled'
  OBVIOUS
<1>1. Types'
  BY DEF IInv, Types, SampleAddress, dma, ring, history
<1>2. Perms' /\ Seen' /\ Memory'
  BY StillMemory DEF IInv, Still, SampleAddress, dma, history
<1>3. Sampling
  BY DEF IInv, Stage, SampleAddress, SampleDue, Starting, Sampled, Fetching,
         Fetched, Armed, Waiting
<1>4. rxf_address' = <<bus.address>>
  <2>1. rxf_address' = TryAdd(<< >>, FIFO_DEPTH, bus.address)
    BY <1>3 DEF Sampling, SampleAddress
  <2>2. QED
    BY <2>1 DEF TryAdd, FIFO_DEPTH
<1>5. Sampled'
  BY <1>3, <1>4 DEF Sampling, Sampled, SampleAddress, SampleDue, Waiting,
         StoreIsDone, Due, NothingYet, PinsKept, dma, history
<1>6. QED
  BY <1>1, <1>2, <1>3, <1>5 DEF IInv, Stage

LEMMA MoveAddressStep == IInv /\ MoveAddress => IInv'
<1> SUFFICES ASSUME IInv, MoveAddress PROVE IInv'
  OBVIOUS
<1>1. Sampled
  BY DEF IInv, Stage, MoveAddress, AddressDue, Starting, Sampling, Fetching,
         Fetched, Armed
<1>2. read_addr' = bus.address /\ rxf_address' = << >>
  BY <1>1 DEF Sampled, MoveAddress
<1>3. bus.address \in Cells
  BY DEF IInv, Types, Cycles
<1>4. Types'
  BY <1>2, <1>3 DEF IInv, Types, MoveAddress, pio, ring, history, Channels
<1>5. Perms' /\ Seen' /\ Memory'
  BY StillMemory DEF IInv, Still, MoveAddress, history
<1>6. Fetching'
  BY <1>1, <1>2 DEF Sampled, Fetching, MoveAddress, pio, Waiting, StoreIsDone,
         Due, NothingYet, PinsKept, history
<1>7. QED
  BY <1>4, <1>5, <1>6 DEF IInv, Stage

LEMMA ReadDataStep == IInv /\ ReadData => IInv'
<1> SUFFICES ASSUME IInv, ReadData PROVE IInv'
  OBVIOUS
<1>1. Fetching
  BY DEF IInv, Stage, ReadData, Starting, Sampling, Sampled, Fetched, Armed, Due
<1>2. Types'
  BY DEF IInv, Types, ReadData, pio, ring, history, Channels
<1>3. Perms' /\ Seen' /\ Memory'
  BY StillMemory DEF IInv, Still, ReadData, history
<1> DEFINE word == [perm |-> perm[bus.address], data |-> data[bus.address]]
<1>4. bus.address \in Cells
  BY DEF IInv, Types, Cycles
<1>5. word \in Words /\ word.perm \in seen_perm /\ word.data \in seen_data
  BY <1>1, <1>4 DEF IInv, Types, Fetching, StoreIsDone, Words, Seen, Memory
<1>6. txf_access' = <<word>>
  BY <1>1 DEF Fetching, ReadData, TryAdd, FIFO_DEPTH
<1>7. WordWaits'
  BY <1>1, <1>5, <1>6 DEF Fetching, WordWaits, NothingYet, PinsKept, ReadData,
         pio, history
<1>8. Fetched'
  BY <1>1, <1>7 DEF Fetching, Fetched, Access, ReadData, pio, Waiting,
         StoreIsDone, Due, history
<1>9. QED
  BY <1>2, <1>3, <1>8 DEF IInv, Stage

LEMMA MoveAddress2Step == IInv /\ MoveAddress2 => IInv'
<1> SUFFICES ASSUME IInv, MoveAddress2 PROVE IInv'
  OBVIOUS
<1>1. Fetched
  BY DEF IInv, Stage, MoveAddress2, Starting, Sampling, Sampled, Fetching,
         Armed, Due
<1>2. Types'
  BY DEF IInv, Types, MoveAddress2, Retarget, Rearm, pio, fifos, ring, history,
         Channels
<1>3. Perms' /\ Seen' /\ Memory'
  BY <1>1, StillMemory
     DEF IInv, Still, MoveAddress2, history, fifos, Fetched, StoreIsDone
<1>4. Access'
  BY <1>1 DEF Fetched, Access, NothingYet, PinsKept, WordWaits, Accepted,
         Answered, LeftAlone, MoveAddress2, pio, fifos, history
<1>5. Armed'
  BY <1>1, <1>4 DEF Fetched, Armed, MoveAddress2, Retarget, Rearm, pio, fifos,
         Waiting, StoreIsDone, Due, history
<1>6. QED
  BY <1>2, <1>3, <1>5 DEF IInv, Stage

(* eb2_access decides on a word that the cell has had in this cycle. *)
LEMMA PullWordStep == IInv /\ PullWord => IInv'
<1> SUFFICES ASSUME IInv, PullWord PROVE IInv'
  OBVIOUS
<1>1. PICK word \in Words :
        /\ txf_access = <<word>>
        /\ word.perm \in seen_perm
        /\ word.data \in seen_data
  BY DEF IInv, Stage, PullWord, WordDue, Starting, Sampling, Sampled, Fetching,
         Fetched, Armed, Access, WordWaits, Accepted, Answered, LeftAlone
<1>2. NothingYet /\ (Fetched \/ Armed)
  BY <1>1 DEF IInv, Stage, Starting, Sampling, Sampled, Fetching,
         Fetched, Armed, Access, WordWaits, Accepted, Answered, LeftAlone
<1>3. /\ txf_access' = << >> /\ pins' = word.data
      /\ AcceptWrite(word) \/ AnswerRead(word) \/ LeaveToOthers(word)
  BY <1>1 DEF PullWord
<1>4. Types'
  BY <1>3 DEF IInv, Types, Words, PullWord, dma, ring, history
<1>5. Perms' /\ Seen' /\ Memory'
  BY StillMemory DEF IInv, Still, PullWord, dma, history
<1>6. Access'
  BY <1>1, <1>2, <1>3
     DEF Access, NothingYet, PinsKept, Accepted, Answered, LeftAlone,
         AcceptWrite, AnswerRead, LeaveToOthers, Allowed, PullWord, history
<1>7. Fetched' \/ Armed'
  BY <1>2, <1>6 DEF Fetched, Armed, PullWord, dma, Waiting, StoreIsDone, Due,
         history
<1>8. QED
  BY <1>4, <1>5, <1>7 DEF IInv, Stage

-----------------------------------------------------------------------------
(* The byte of a write and its event, while the next address is sampled. *)
LEMMA WriteDataStep ==
  IInv /\ WriteData =>
    IInv' /\ write_addr \in Writable /\ "eb_event_chan" \notin busy
<1> SUFFICES ASSUME IInv, WriteData
             PROVE  IInv' /\ write_addr \in Writable /\ "eb_event_chan" \notin busy
  OBVIOUS
<1>1. Sampling /\ ByteOnItsWay
  BY DEF IInv, Stage, WriteData, WriteDue, Starting, Sampling, Sampled,
         Fetching, Fetched, Armed, StoreIsDone, EventOnItsWay
<1>2. PICK byte \in ram[write_addr] : rxf_access = <<byte>>
  BY <1>1 DEF ByteOnItsWay
<1>3. /\ data' = [data EXCEPT ![write_addr] = byte]
      /\ rxf_access' = << >>
      /\ busy' = (busy \ {"write_data_chan"}) \cup {"eb_event_chan"}
      /\ write_addr' = write_addr
  BY <1>2 DEF WriteData, EventChained
<1>4. write_addr \in Writable /\ write_addr \in Cells
  BY <1>1, Constants DEF ByteOnItsWay
<1>5. byte \in Bytes
  BY <1>4 DEF IInv, Types
<1>6. Types'
  <2>1. data' \in [Cells -> Bytes]
    BY <1>3, <1>5 DEF IInv, Types
  <2>2. busy' \subseteq Channels
    BY <1>3 DEF IInv, Types, Channels
  <2>3. QED
    BY <2>1, <2>2 DEF IInv, Types, WriteData, pio, ring, history
<1>7. Perms' /\ Seen'
  BY DEF IInv, Perms, Seen, WriteData, history
<1>8. Memory'
  BY <1>2, <1>3, <1>4 DEF IInv, Memory, Types, WriteData, history
<1>9. Sampling'
  BY <1>1, <1>3, <1>4
     DEF Sampling, WriteData, pio, history, Due, EventOnItsWay, PinsKept
<1>10. QED
  BY <1>1, <1>4, <1>6, <1>7, <1>8, <1>9 DEF IInv, Stage, ByteOnItsWay

LEMMA StoreEventStep == IInv /\ StoreEvent => IInv' /\ write_addr \in Writable
<1> SUFFICES ASSUME IInv, StoreEvent PROVE IInv' /\ write_addr \in Writable
  OBVIOUS
<1>1. Sampling /\ EventOnItsWay
  BY DEF IInv, Stage, StoreEvent, Starting, Sampling, Sampled, Fetching,
         Fetched, Armed, StoreIsDone, ByteOnItsWay
<1>2. write_addr \in Writable /\ write_addr \in Cells
  BY <1>1, Constants DEF EventOnItsWay
<1>3. (in_ptr + 1) % EB_EVENT_QUEUE_LEN \in Slots
  BY ValueAssumption DEF IInv, Types, Slots
<1>4. Types'
  BY <1>2, <1>3 DEF IInv, Types, StoreEvent, pio, fifos, history, Channels
<1>5. Perms' /\ Seen' /\ Memory'
  BY StillMemory DEF IInv, Still, StoreEvent, fifos, history
<1>6. Sampling'
  BY <1>1 DEF Sampling, StoreEvent, pio, fifos, history, Due, EventOnItsWay,
         StoreIsDone, PinsKept
<1>7. QED
  BY <1>2, <1>4, <1>5, <1>6 DEF IInv, Stage

-----------------------------------------------------------------------------
(* Core 1 sets a byte or a cell's permissions, at any stage. *)
LEMMA SetPermStep ==
  ASSUME IInv, NEW a \in Cells, eb_set_perm_byte(a)
  PROVE  IInv'
<1>1. /\ perm' = [perm EXCEPT ![a] = LatePerm(a)]
      /\ seen_perm' = IF a = bus.address /\ seen_perm # {}
                      THEN seen_perm \cup {LatePerm(a)} ELSE seen_perm
      /\ bus' = bus /\ ram' = ram /\ data' = data /\ seen_data' = seen_data
      /\ rxf_access' = rxf_access /\ write_addr' = write_addr
  BY DEF eb_set_perm_byte, fifos, dma
<1>2. Types'
  <2>1. perm' \in [Cells -> SUBSET {"read", "write"}]
    BY <1>1, Constants DEF IInv, Types
  <2>2. seen_perm' \subseteq SUBSET {"read", "write"}
    <3>1. LatePerm(a) \in SUBSET {"read", "write"}
      BY Constants
    <3>2. QED
      BY <1>1, <3>1 DEF IInv, Types
  <2>3. QED
    BY <1>1, <2>1, <2>2 DEF IInv, Types, eb_set_perm_byte, pio, dma, ring
<1>3. Perms'
  BY <1>1 DEF IInv, Perms, Types
<1>4. bus.address \in Cells /\ bus'.address = bus.address
  BY <1>1 DEF IInv, Types, Cycles
<1>5. Seen'
  <2>1. perm[a] \subseteq LatePerm(a)
    BY Constants DEF IInv, Perms
  <2>2. CASE a = bus.address
    BY <1>1, <1>4, <2>1, <2>2 DEF IInv, Seen, Types
  <2>3. CASE a # bus.address
    BY <1>1, <1>4, <2>3 DEF IInv, Seen, Types
  <2>4. QED
    BY <2>2, <2>3
<1>6. Memory'
  BY <1>1 DEF IInv, Memory
<1>7. seen_perm \subseteq seen_perm' /\ (seen_perm = {} => seen_perm' = {})
  BY <1>1
<1>8. Access => Access'
  BY <1>1, <1>7 DEF Access, NothingYet, PinsKept, WordWaits, Accepted, Answered,
         LeftAlone, eb_set_perm_byte, pio, fifos
<1>9. Stage'
  BY <1>1, <1>7, <1>8
     DEF IInv, Stage, Starting, Sampling, Sampled, Fetching, Fetched, Armed,
         Waiting, StoreIsDone, Due, NothingYet, PinsKept, ByteOnItsWay,
         EventOnItsWay, eb_set_perm_byte, pio, fifos, dma
<1>10. QED
  BY <1>2, <1>3, <1>5, <1>6, <1>9 DEF IInv

LEMMA SetStep ==
  ASSUME IInv, NEW a \in Cells, NEW value \in Bytes, eb_set(a, value)
  PROVE  IInv'
<1>1. /\ data' = [data EXCEPT ![a] = value]
      /\ ram' = [ram EXCEPT ![a] = IF rxf_access # << >> /\ write_addr = a
                                   THEN ram[a] \cup {value} ELSE {value}]
      /\ seen_data' = IF a = bus.address THEN seen_data \cup {value} ELSE seen_data
      /\ bus' = bus /\ perm' = perm /\ seen_perm' = seen_perm
      /\ rxf_access' = rxf_access /\ write_addr' = write_addr
  BY DEF eb_set, fifos, dma
<1>2. Types'
  <2>1. data' \in [Cells -> Bytes] /\ seen_data' \subseteq Bytes
    BY <1>1 DEF IInv, Types
  <2>2. ram' \in [Cells -> SUBSET Bytes]
    BY <1>1 DEF IInv, Types
  <2>3. QED
    BY <2>1, <2>2 DEF IInv, Types, eb_set, pio, dma, ring
<1>3. Perms'
  BY <1>1 DEF IInv, Perms
<1>4. bus.address \in Cells /\ bus'.address = bus.address
  BY <1>1 DEF IInv, Types, Cycles
<1>5. Seen'
  BY <1>1, <1>4 DEF IInv, Seen, Types
<1>6. Memory'
  BY <1>1 DEF IInv, Memory, Types
<1>7. seen_data \subseteq seen_data'
  BY <1>1
<1>8. Access => Access'
  BY <1>1, <1>7 DEF Access, NothingYet, PinsKept, WordWaits, Accepted, Answered,
         LeftAlone, eb_set, pio, fifos
<1>9. ByteOnItsWay => ByteOnItsWay'
  BY <1>1, Constants DEF IInv, Types, ByteOnItsWay, eb_set, dma
<1>10. Stage'
  BY <1>1, <1>8, <1>9
     DEF IInv, Stage, Starting, Sampling, Sampled, Fetching, Fetched, Armed,
         Waiting, StoreIsDone, Due, NothingYet, PinsKept, EventOnItsWay,
         eb_set, pio, fifos, dma
<1>11. QED
  BY <1>2, <1>3, <1>5, <1>6, <1>10 DEF IInv

-----------------------------------------------------------------------------
(* The edge at which a cycle ends: a cycle that ends is either the one the
   programs were started in, or one they have dealt with. *)
LEMMA EdgeStage ==
  ASSUME IInv, phi = "high", Settled
  PROVE  /\ address_sm = "wait 0" /\ rxf_address = << >> /\ txf_access = << >>
         /\ StoreIsDone /\ Due("address_chan")
         /\ \/ Starting
            \/ Armed /\ (Accepted \/ Answered \/ LeftAlone)
<1>1. ~Sampling
  BY DEF Sampling, Settled, SampleDue, WriteDue, StoreIsDone, ByteOnItsWay,
         EventOnItsWay
<1>2. ~Sampled /\ ~Fetching /\ ~Fetched
  <2>1. <<bus.address>> # << >>
    OBVIOUS
  <2>2. QED
    BY <2>1 DEF Sampled, Fetching, Fetched, Settled, AddressDue, Due
<1>3. ~WordWaits
  <2>1. \A word \in Words : <<word>> # << >>
    OBVIOUS
  <2>2. QED
    BY <2>1 DEF WordWaits, NothingYet, PinsKept, Settled, WordDue
<1>4. QED
  BY <1>1, <1>2, <1>3
     DEF IInv, Stage, Starting, Armed, Access, Accepted, Answered, LeftAlone,
         Settled, Waiting

(* The SET of the address program moves no pin. *)
LEMMA EdgeKeepsPins == IInv /\ Fall => PinsKept' /\ driven' \in BOOLEAN
<1> SUFFICES ASSUME IInv, Fall PROVE PinsKept' /\ driven' \in BOOLEAN
  OBVIOUS
<1>1. ReleasePins = pindirs
  <2>1. SET_COUNT # 8
    BY DEF SET_COUNT
  <2>2. QED
    BY <2>1 DEF ReleasePins
<1>2. pindirs' = pindirs
  BY <1>1 DEF Fall, AddressEdge
<1>3. pindirs \in {"in", "out"}
  BY DEF IInv, Stage, Starting, Sampling, Sampled, Fetching, Fetched, Armed,
         Access, NothingYet, WordWaits, Accepted, Answered, LeftAlone, PinsKept
<1>4. QED
  BY <1>2, <1>3 DEF Fall, PinsKept

LEMMA FallStep == IInv /\ Fall => IInv'
<1> SUFFICES ASSUME IInv, Fall PROVE IInv'
  OBVIOUS
<1>1. /\ address_sm = "wait 0" /\ rxf_address = << >> /\ txf_access = << >>
      /\ StoreIsDone /\ Due("address_chan")
      /\ \/ Starting
         \/ Armed /\ (Accepted \/ Answered \/ LeftAlone)
  BY EdgeStage DEF Fall
<1>2. /\ PinsKept' /\ mux' = "ADHI" /\ address_sm' = "sample"
      /\ rxf_address' = << >> /\ txf_access' = << >>
      /\ busy' = busy /\ write_addr' = write_addr
      /\ perm' = perm /\ data' = data
      /\ bus' \in Cycles /\ bus'.address \in Cells
      /\ ram' = Written
      /\ seen_perm' = {perm[bus'.address]}
      /\ seen_data' = ram'[bus'.address]
  BY <1>1, EdgeKeepsPins DEF Fall, AddressEdge, dma, Cycles
<1>3. /\ bus.address \in Cells
      /\ bus.rw = "write" => bus.data \in Bytes
  BY DEF IInv, Types, Cycles
<1>4. ram' \in [Cells -> SUBSET Bytes]
  <2>1. CASE ram' = ram
    BY <2>1 DEF IInv, Types
  <2>2. CASE ram' # ram
    <3>1. /\ bus.rw = "write"
          /\ \/ ram' = [ram EXCEPT ![bus.address] = {bus.data}]
             \/ ram' = [ram EXCEPT ![bus.address] = ram[bus.address] \cup {bus.data}]
      BY <1>2, <2>2 DEF IInv, Types, Cycles, Written
    <3>2. QED
      BY <1>3, <3>1 DEF IInv, Types
  <2>3. QED
    BY <2>1, <2>2
<1>5. Types'
  <2>1. seen_perm' \subseteq SUBSET {"read", "write"} /\ seen_data' \subseteq Bytes
    BY <1>2, <1>4 DEF IInv, Types
  <2>2. QED
    BY <1>2, <1>4, <2>1, EdgeKeepsPins DEF IInv, Types, Fall, dma, ring
<1>6. Perms' /\ Seen'
  BY <1>2 DEF IInv, Perms, Seen
<1>7. \A a \in Cells : data[a] \in ram[a]
  BY <1>1 DEF IInv, Memory, StoreIsDone
<1>8. CASE Armed /\ Accepted
  <2>1. access_sm = "wait 0"
    BY <1>8 DEF Fall, Settled, Accepted
  <2>2. PICK byte \in {bus.data} : rxf_access' = <<byte>>
    <3>1. TakeByte = {bus.data}
      BY <1>8 DEF Accepted, TakeByte
    <3>2. rxf_access = << >> /\ Len(rxf_access) # FIFO_DEPTH
      BY <1>1, Empty DEF StoreIsDone
    <3>3. PICK byte \in TakeByte : rxf_access' = Append(rxf_access, byte)
      BY <2>1, <3>2 DEF Fall, AccessEdge
    <3>4. rxf_access' = <<byte>>
      BY <3>2, <3>3
    <3>5. QED
      BY <3>1, <3>4
  <2>3. access_sm' = "pull"
    BY <1>1, <2>1, Empty DEF Fall, AccessEdge, StoreIsDone
  <2>4. bus.data \in ram'[bus.address]
    BY <1>2, <1>3, <1>8 DEF IInv, Types, Accepted, Written
  <2>5. \A a \in Cells \ {bus.address} : ram'[a] = ram[a]
    BY <1>2, <1>3 DEF IInv, Types, Written
  <2>6. bus.address \in Writable
    <3>1. "write" \in perm[bus.address]
      BY <1>8 DEF IInv, Seen, Armed, Accepted
    <3>2. QED
      BY <1>3, <3>1, Constants DEF IInv, Perms
  <2>7. Memory'
    BY <1>2, <1>7, <1>8, <2>2, <2>5 DEF Memory, Armed
  <2>8. ByteOnItsWay'
    BY <1>1, <1>2, <1>8, <2>2, <2>4, <2>6 DEF ByteOnItsWay, Armed, StoreIsDone
  <2>9. Sampling'
    BY <1>1, <1>2, <2>3, <2>8 DEF Sampling, Due
  <2>10. QED
    BY <1>5, <1>6, <2>7, <2>9 DEF IInv, Stage
<1>9. CASE Starting \/ (Armed /\ (Answered \/ LeftAlone))
  <2>1. access_sm = "pull" /\ rxf_access = << >>
    BY <1>1, <1>9 DEF Starting, Answered, LeftAlone, StoreIsDone
  <2>2. access_sm' = "pull" /\ rxf_access' = << >>
    BY <2>1 DEF Fall, AccessEdge
  <2>3. \A a \in Cells : ram[a] \subseteq ram'[a]
    <3>1. \/ bus.rw = "read" \/ seen_perm = {}
          \/ bus.rw = "write" /\ \E p \in seen_perm : "write" \notin p
      BY <1>9 DEF IInv, Types, Cycles, Starting, Answered, LeftAlone
    <3>2. \/ ram' = ram
          \/ ram' = [ram EXCEPT ![bus.address] = ram[bus.address] \cup {bus.data}]
      BY <1>2, <3>1 DEF Written
    <3>3. QED
      BY <3>2 DEF IInv, Types
  <2>4. Memory'
    BY <1>2, <1>7, <2>3 DEF Memory
  <2>5. Sampling'
    BY <1>1, <1>2, <2>2 DEF Sampling, Due, StoreIsDone
  <2>6. QED
    BY <1>5, <1>6, <2>4, <2>5 DEF IInv, Stage
<1>10. QED
  BY <1>1, <1>8, <1>9

LEMMA StutterStep == IInv /\ UNCHANGED vars => IInv'
<1> SUFFICES ASSUME IInv, UNCHANGED vars PROVE IInv'
  OBVIOUS
<1> USE DEF vars, pio, fifos, dma, ring, history
<1>1. Types' /\ Perms' /\ Seen' /\ Memory'
  BY DEF IInv, Types, Perms, Seen, Memory
<1>2. PinsKept' = PinsKept
  BY DEF PinsKept
<1>3. Stage'
  BY <1>2 DEF IInv, Stage, Starting, Sampling, Sampled, Fetching, Fetched,
         Armed, Waiting, StoreIsDone, Due, Access, NothingYet, WordWaits,
         Accepted, Answered, LeftAlone, ByteOnItsWay, EventOnItsWay
<1>4. QED
  BY <1>1, <1>3 DEF IInv

LEMMA StepInv == IInv /\ [Next]_vars => IInv'
<1> SUFFICES ASSUME IInv, [Next]_vars PROVE IInv'
  OBVIOUS
<1>1. CASE ArmAddress \/ ArmAccess \/ Rise
  BY <1>1, ArmAddressStep, ArmAccessStep, RiseStep
<1>2. CASE SampleAddress \/ MoveAddress \/ ReadData \/ MoveAddress2
  BY <1>2, SampleAddressStep, MoveAddressStep, ReadDataStep, MoveAddress2Step
<1>3. CASE PullWord \/ WriteData \/ StoreEvent \/ Fall
  BY <1>3, PullWordStep, WriteDataStep, StoreEventStep, FallStep
<1>4. CASE \E a \in Cells : eb_set_perm_byte(a)
  BY <1>4, SetPermStep
<1>5. CASE \E a \in Screen \cup SidOutputs, value \in Bytes : eb_set(a, value)
  BY <1>5, SetStep DEF Cells
<1>6. CASE UNCHANGED vars
  BY <1>6, StutterStep
<1>7. QED
  BY <1>1, <1>2, <1>3, <1>4, <1>5, <1>6 DEF Next

LEMMA Invariance == Spec => []IInv
  BY InitInv, StepInv, PTL DEF Spec

-----------------------------------------------------------------------------
(* Every variable keeps its type; no FIFO ever holds more than one entry. *)
THEOREM TypeCorrect == Spec => []TypeOK
<1>1. IInv => TypeOK
  <2> SUFFICES ASSUME IInv PROVE TypeOK
    OBVIOUS
  <2>1. /\ address_sm \in {"wait 1", "wait 0", "sample"}
        /\ access_sm \in {"pull", "wait 1", "wait 0"}
        /\ pindirs \in {"in", "out"}
        /\ mux \in {"NONE", "ADHI", "ADLO", "DATA"}
    BY DEF IInv, Stage, Starting, Sampling, Sampled, Fetching, Fetched, Armed,
           Waiting, Access, NothingYet, PinsKept, WordWaits, Accepted,
           Answered, LeftAlone
  <2>2. rxf_address \in Seq(Cells) /\ Len(rxf_address) < FIFO_DEPTH
    <3>1. rxf_address = << >> \/ rxf_address = <<bus.address>>
      BY DEF IInv, Stage, Starting, Sampling, Sampled, Fetching, Fetched, Armed
    <3>2. bus.address \in Cells
      BY DEF IInv, Types, Cycles
    <3>3. QED
      BY <3>1, <3>2, Empty, Single
  <2>3. txf_access \in Seq(Words) /\ Len(txf_access) < FIFO_DEPTH
    <3>1. txf_access = << >> \/ \E word \in Words : txf_access = <<word>>
      BY DEF IInv, Stage, Starting, Sampling, Sampled, Fetching, Fetched, Armed,
             Access, WordWaits, Accepted, Answered, LeftAlone
    <3>2. QED
      BY <3>1, Empty, Single
  <2>4. rxf_access \in Seq(Bytes) /\ Len(rxf_access) < FIFO_DEPTH
    <3>1. rxf_access = << >> \/ ByteOnItsWay
      BY DEF IInv, Stage, Starting, Sampling, Sampled, Fetching, Fetched, Armed,
             StoreIsDone, EventOnItsWay
    <3>2. ByteOnItsWay => ram[write_addr] \subseteq Bytes
      BY Constants DEF IInv, Types, ByteOnItsWay
    <3>3. ByteOnItsWay => \E byte \in Bytes : rxf_access = <<byte>>
      BY <3>2 DEF ByteOnItsWay
    <3>4. QED
      BY <3>1, <3>3, Empty, Single
  <2>5. /\ Len(rxf_address) <= FIFO_DEPTH /\ Len(txf_access) <= FIFO_DEPTH
        /\ Len(rxf_access) <= FIFO_DEPTH
    BY <2>2, <2>3, <2>4, LenProperties DEF FIFO_DEPTH
  <2>6. QED
    BY <2>1, <2>2, <2>3, <2>4, <2>5 DEF IInv, Types, TypeOK
<1>2. QED
  BY Invariance, <1>1, PTL

(* Up to the first answer the firmware drives the pins for that answer only;
   it connects the data bus only when the cell whose address has been sensed
   permits it, whatever the pins do. *)
THEOREM PinsAreSafe == Spec => []NoContention
<1>1. IInv => NoContention
  BY DEF IInv, Stage, Starting, Sampling, Sampled, Fetching, Fetched, Armed,
         Access, NothingYet, PinsKept, WordWaits, Accepted, Answered,
         LeftAlone, Seen, NoContention
<1>2. QED
  BY Invariance, <1>1, PTL

(* Every read is answered with a byte that the cell whose address has been
   sensed has held in that cycle, if the cell is readable: the program and the
   channels are ready for each cycle, whatever the pins do. *)
THEOREM ReadsAreAnswered == Spec => []ReadsAnswered
<1>1. IInv => ReadsAnswered
  <2> SUFFICES ASSUME IInv, CycleEnds, bus.rw = "read",
                      \A p \in seen_perm : "read" \in p
               PROVE  pindirs = "out" /\ mux = "DATA" /\ pins \in seen_data
    BY DEF ReadsAnswered
  <2>1. Answered
    BY EdgeStage DEF CycleEnds, Starting, Accepted, LeftAlone
  <2>2. QED
    BY <2>1 DEF Answered
<1>2. QED
  BY Invariance, <1>1, PTL

(* Every byte taken for a writable cell is stored there, and no other byte
   anywhere. *)
THEOREM WritesAreStored == Spec => []WritesStored
<1>1. IInv => WritesStored
  BY DEF IInv, Memory, WritesStored
<1>2. QED
  BY Invariance, <1>1, PTL

-----------------------------------------------------------------------------
(* What BusEvents sees of the bus: the bytes of the registers, and the event
   on its way. *)
Registers == [a \in Screen \cup SidRegs \cup {-2, -3} |->
                IF a \in SidRegs THEN data[a] ELSE 0]
Event == IF "eb_event_chan" \in busy THEN write_addr ELSE NoAddress
BusView == <<Registers, Event, eb_event_queue, in_ptr, intr>>

LEMMA ViewIsStutter ==
  ASSUME UNCHANGED BusView
  PROVE  UNCHANGED BE!vars
  BY DEF BusView, Registers, Event, BE!vars, BE!ringVars, BE!sidVars, BE!crtcVars

LEMMA WriteDataIsBusWrite ==
  ASSUME IInv, WriteData
  PROVE  BE!Next
<1>1. write_addr \in Writable /\ "eb_event_chan" \notin busy
  BY WriteDataStep
<1>2. data' = [data EXCEPT ![write_addr] = Head(rxf_access)]
  BY DEF WriteData
<1> DEFINE value == IF write_addr \in SidRegs THEN data'[write_addr] ELSE 0
<1>3. write_addr \in Cells /\ data \in [Cells -> Bytes] /\ data' \in [Cells -> Bytes]
  BY <1>1, WriteDataStep, Constants DEF IInv, Types
<1>4. Registers' = [Registers EXCEPT ![write_addr] = value]
  BY <1>1, <1>2, <1>3 DEF Registers, Writable, Cells
<1>5. Event = NoAddress /\ Event' = write_addr
  BY <1>1 DEF Event, WriteData, EventChained
<1>6. UNCHANGED <<eb_event_queue, in_ptr, intr>>
  BY DEF WriteData, ring
<1>7. write_addr \in BE!Addresses
  BY <1>1 DEF Writable, BE!Addresses
<1>8. value \in BE!ValuesFor(write_addr)
  BY <1>3 DEF BE!ValuesFor
<1>9. \A a, v : a = write_addr /\ v = value => BE!BusWrite(a, v)
  BY <1>4, <1>5, <1>6
     DEF Registers, Event, BE!BusWrite, BE!NoEvent, NoAddress, BE!ringVars,
         BE!sidVars, BE!crtcVars
<1>10. \E a \in BE!Addresses : \E v \in BE!ValuesFor(a) : BE!BusWrite(a, v)
  BY <1>7, <1>8, <1>9
<1>11. QED
  BY <1>10 DEF BE!Next

LEMMA StoreEventIsStoreEvent ==
  ASSUME IInv, StoreEvent
  PROVE  BE!Next
<1>1. write_addr \in Writable /\ "eb_event_chan" \in busy
  BY StoreEventStep DEF StoreEvent
<1>2. Event = write_addr /\ Event # NoAddress /\ Event' = NoAddress
  BY <1>1, Constants DEF Event, StoreEvent
<1>3. Registers' = Registers
  BY DEF Registers, StoreEvent
<1>4. in_ptr' = BE!RingWrap(in_ptr)
  <2>1. in_ptr \in 0 .. EB_EVENT_QUEUE_LEN - 1
    BY DEF IInv, Types, Slots
  <2>2. in_ptr' = (in_ptr + 1) % EB_EVENT_QUEUE_LEN
    BY DEF StoreEvent
  <2>3. CASE in_ptr = EB_EVENT_QUEUE_LEN - 1
    <3>1. EB_EVENT_QUEUE_LEN % EB_EVENT_QUEUE_LEN = 0
      BY ValueAssumption
    <3>2. QED
      BY <2>1, <2>2, <2>3, <3>1, ValueAssumption DEF BE!RingWrap
  <2>4. CASE in_ptr # EB_EVENT_QUEUE_LEN - 1
    <3>1. in_ptr + 1 \in 0 .. EB_EVENT_QUEUE_LEN - 1
      BY <2>1, <2>4, ValueAssumption
    <3>2. (in_ptr + 1) % EB_EVENT_QUEUE_LEN = in_ptr + 1
      BY <3>1, ValueAssumption
    <3>3. QED
      BY <2>2, <2>4, <3>2 DEF BE!RingWrap
  <2>5. QED
    BY <2>3, <2>4
<1>5. /\ eb_event_queue' = [eb_event_queue EXCEPT ![in_ptr] = Event]
      /\ intr' = TRUE
  BY <1>2 DEF StoreEvent
<1>6. BE!StoreEvent
  BY <1>2, <1>3, <1>4, <1>5
     DEF Registers, Event, BE!StoreEvent, BE!NoEvent, NoAddress, BE!sidVars,
         BE!crtcVars
<1>7. QED
  BY <1>6 DEF BE!Next

(* The other steps BusEvents does not see. *)
LEMMA OthersStutter ==
  ASSUME IInv, [Next]_vars, ~WriteData, ~StoreEvent
  PROVE  UNCHANGED BusView
<1>1. /\ UNCHANGED ring
      /\ "eb_event_chan" \in busy <=> "eb_event_chan" \in busy'
  <2>1. CASE MoveAddress \/ ReadData \/ MoveAddress2
    BY <2>1 DEF MoveAddress, ReadData, MoveAddress2, Rearm, ring
  <2>2. CASE UNCHANGED <<busy, ring>>
    BY <2>2
  <2>3. QED
    BY <2>1, <2>2 DEF Next, ArmAddress, SampleAddress, PullWord, ArmAccess,
       Rise, Fall, eb_set_perm_byte, eb_set, vars, dma
<1>2. UNCHANGED Event
  <2>1. CASE MoveAddress2
    <3>1. "eb_event_chan" \notin busy
      BY <2>1 DEF IInv, Stage, MoveAddress2, Starting, Sampling, Sampled,
             Fetching, Fetched, Armed, Due, StoreIsDone
    <3>2. QED
      BY <1>1, <3>1 DEF Event
  <2>2. CASE ~MoveAddress2
    <3>1. UNCHANGED write_addr
      BY <2>2 DEF Next, ArmAddress, SampleAddress, PullWord, ArmAccess,
             MoveAddress, ReadData, Rise, Fall, eb_set_perm_byte, eb_set, vars,
             dma
    <3>2. QED
      BY <1>1, <3>1 DEF Event
  <2>3. QED
    BY <2>1, <2>2
<1>3. UNCHANGED Registers
  <2>1. CASE \E a \in Screen \cup SidOutputs, value \in Bytes : eb_set(a, value)
    <3>1. PICK a \in Screen \cup SidOutputs, value \in Bytes :
            data' = [data EXCEPT ![a] = value]
      BY <2>1 DEF eb_set
    <3>2. a \notin SidRegs
      BY CellAssumption
    <3>3. \A r \in SidRegs : data'[r] = data[r]
      BY <3>1, <3>2 DEF IInv, Types, Cells
    <3>4. QED
      BY <3>3 DEF Registers
  <2>2. CASE UNCHANGED data
    BY <2>2 DEF Registers
  <2>3. QED
    BY <2>1, <2>2
       DEF Next, ArmAddress, SampleAddress, PullWord, ArmAccess, MoveAddress,
           ReadData, MoveAddress2, Rise, Fall, eb_set_perm_byte, vars, history
<1>4. QED
  BY <1>1, <1>2, <1>3 DEF BusView, ring

(* The programs and channels are the bus that BusEvents assumes: an event
   follows each byte that is stored, for writable cells only, before another
   byte comes. *)
THEOREM BusImplemented == Spec => ImplementsBus
<1>1. Init => BE!Init
  <2> SUFFICES ASSUME Init PROVE BE!Init
    OBVIOUS
  <2>1. Registers = [a \in BE!Addresses |-> 0]
    BY DEF Init, Registers, BE!Addresses, BE!Ports, Cells
  <2>2. Event = NoAddress
    BY DEF Init, Event
  <2>3. BE!CrtcRegs = {0} /\ BE!Slots = Slots
    BY DEF BE!CrtcRegs, BE!Slots, Slots
  <2>4. QED
    BY <2>1, <2>2, <2>3
       DEF Init, Registers, Event, BE!Init, BE!NoEvent, NoAddress
<1>2. IInv /\ [Next]_vars => [BE!Next]_(BE!vars)
  BY WriteDataIsBusWrite, StoreEventIsStoreEvent, OthersStutter, ViewIsStutter
<1>3. QED
  BY Invariance, <1>1, <1>2, PTL DEF Spec, ImplementsBus, BE!Spec
=============================================================================
