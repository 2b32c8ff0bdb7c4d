--------------------------- MODULE BusEventsProofs ---------------------------
(***************************************************************************)
(* Proofs about BusEvents, for every length of the ring and of the queues  *)
(* and every set of addresses and values: types; no lost interrupt; if the *)
(* handler keeps up, the ring is the queue of EventQueue; and, if nothing  *)
(* is lost, SID and CRTC settle on what the 6502 wrote (BusHistory).       *)
(***************************************************************************)
EXTENDS BusHistory, SequenceTheorems, TLAPS

(* The writer's pointer and the reader's advance in the same way, although
   one is wrapped by the DMA's address mask and the other by a comparison. *)
LEMMA PointersAgree ==
  ASSUME NEW p \in Slots
  PROVE  /\ RingWrap(p) \in Slots
         /\ RingWrap(p) # p
         /\ PointerWrap(p) = RingWrap(p)
  BY SizeAssumption DEF Slots, RingWrap, PointerWrap

LEMMA TryAddType ==
  ASSUME NEW S, NEW q \in Seq(S), NEW e \in S, NEW capacity \in Nat,
         Len(q) <= capacity
  PROVE  /\ TryAdd(q, capacity, e) \in Seq(S)
         /\ Len(TryAdd(q, capacity, e)) <= capacity
  BY DEF TryAdd

LEMMA TailType ==
  ASSUME NEW S, NEW q \in Seq(S), q # << >>, NEW capacity \in Nat,
         Len(q) <= capacity
  PROVE  /\ Tail(q) \in Seq(S)
         /\ Len(Tail(q)) <= capacity
         /\ Head(q) \in S
<1>1. /\ Tail(q) \in Seq(S)
      /\ Head(q) \in S
      /\ Len(Tail(q)) = Len(q) - 1
  BY HeadTailProperties
<1>2. Len(q) \in Nat
  BY LenProperties
<1>3. QED
  BY <1>1, <1>2

LEMMA ValueTypes ==
  /\ 0 \in Values
  /\ \A a \in Addresses : ValuesFor(a) \subseteq Values
  BY DEF Values, ValuesFor

-----------------------------------------------------------------------------
(* Types.  The ring holds zeroes until the DMA has filled it; that none of
   them is ever returned needs more than the type: every slot the writer has
   passed in its first round, and every slot from its second round on, holds
   an address. *)
WrittenSlots ==
  \A s \in Slots :
    s < in_ptr \/ out_ptr > in_ptr => eb_event_queue[s] \in Addresses

TInv == TypeOK /\ WrittenSlots

LEMMA InitType == Init => TInv
<1> SUFFICES ASSUME Init PROVE TInv
  OBVIOUS
<1>1. 0 \in Slots
  BY SizeAssumption DEF Slots
<1>2. TypeOK
  <2>1. /\ as_q \in Seq(SidElements) /\ Len(as_q) <= AS_Q_LENGTH
        /\ ui_q \in Seq({"KEY_PRESS"}) /\ Len(ui_q) <= UI_Q_LENGTH
    BY SizeAssumption DEF Init
  <2>2. /\ _eb_memory \in [Addresses -> Values]
        /\ sid \in [SidRegs -> Values]
        /\ address_reg \in Values
        /\ teletext_regs \in [CrtcRegs -> Values]
    BY ValueTypes DEF Init
  <2>3. QED
    BY <1>1, <2>1, <2>2 DEF Init, TypeOK
<1>3. WrittenSlots
  BY DEF WrittenSlots, Init, Slots
<1>4. QED
  BY <1>2, <1>3 DEF TInv

LEMMA StoreEventType == TInv /\ StoreEvent => TInv'
<1> SUFFICES ASSUME TInv, StoreEvent PROVE TInv'
  OBVIOUS
<1> USE DEF TInv
<1>1. inflight \in Addresses
  BY DEF TypeOK, StoreEvent
<1>2. in_ptr' \in Slots
  BY PointersAgree DEF TypeOK, StoreEvent
<1>3. eb_event_queue' \in [Slots -> Addresses \cup {0}]
  BY <1>1 DEF TypeOK, StoreEvent
<1>4. TypeOK'
  BY <1>2, <1>3 DEF TypeOK, StoreEvent, sidVars, crtcVars
<1>5. WrittenSlots'
  <2> SUFFICES ASSUME NEW s \in Slots, s < in_ptr' \/ out_ptr > in_ptr'
               PROVE  eb_event_queue'[s] \in Addresses
    BY DEF WrittenSlots, StoreEvent
  <2>1. CASE s = in_ptr
    BY <2>1, <1>1 DEF TypeOK, StoreEvent
  <2>2. CASE s # in_ptr
    <3>1. s < in_ptr \/ out_ptr > in_ptr
      BY <2>2, SizeAssumption DEF TypeOK, StoreEvent, RingWrap, Slots
    <3>2. eb_event_queue[s] \in Addresses
      BY <3>1 DEF WrittenSlots
    <3>3. eb_event_queue'[s] = eb_event_queue[s]
      BY <2>2 DEF TypeOK, StoreEvent
    <3>4. QED
      BY <3>2, <3>3
  <2>3. QED
    BY <2>1, <2>2
<1>6. QED
  BY <1>4, <1>5

LEMMA GetEventType == TInv /\ GetEvent => TInv'
<1> SUFFICES ASSUME TInv, GetEvent PROVE TInv'
  OBVIOUS
<1> USE DEF TInv
<1>1. out_ptr' \in Slots
  BY PointersAgree DEF TypeOK, GetEvent
<1>2. address' \in Addresses
  <2>1. out_ptr \in Slots /\ (out_ptr < in_ptr \/ out_ptr > in_ptr)
    BY DEF TypeOK, GetEvent, Slots
  <2>2. QED
    BY <2>1 DEF WrittenSlots, GetEvent
<1>3. TypeOK'
  BY <1>1, <1>2 DEF TypeOK, GetEvent, ringVars, sidVars, crtcVars
<1>4. WrittenSlots'
  <2> SUFFICES ASSUME NEW s \in Slots, s < in_ptr \/ out_ptr' > in_ptr
               PROVE  eb_event_queue[s] \in Addresses
    BY DEF WrittenSlots, GetEvent, ringVars
  <2>1. s < in_ptr \/ out_ptr > in_ptr
    BY DEF TypeOK, GetEvent, PointerWrap, Slots
  <2>2. QED
    BY <2>1 DEF WrittenSlots
<1>5. QED
  BY <1>3, <1>4

LEMMA DispatchType == TInv /\ Dispatch => TInv'
<1> SUFFICES ASSUME TInv, Dispatch PROVE TInv'
  OBVIOUS
<1> USE DEF TInv
<1>1. WrittenSlots'
  BY DEF WrittenSlots, Dispatch, ringVars
<1>2. /\ _eb_memory' \in [Addresses -> Values]
      /\ inflight' \in Addresses \cup {NoEvent}
      /\ eb_event_queue' \in [Slots -> Addresses \cup {0}]
      /\ in_ptr' \in Slots
      /\ out_ptr' \in Slots
      /\ setup' \in {"off", "enabled", "on"}
      /\ isr' = "fetch"
      /\ address' \in Addresses
      /\ sid' \in [SidRegs -> Values]
  BY DEF TypeOK, Dispatch, HandleNext, ringVars
<1>3. intr' \in BOOLEAN
  BY DEF TypeOK, Dispatch
<1>4. address \in Addresses /\ _eb_memory[address] \in Values
  BY DEF TypeOK, Dispatch
<1>5. /\ as_q' \in Seq(SidElements) /\ Len(as_q') <= AS_Q_LENGTH
      /\ ui_q' \in Seq({"KEY_PRESS"}) /\ Len(ui_q') <= UI_Q_LENGTH
      /\ address_reg' \in Values
      /\ teletext_regs' \in [CrtcRegs -> Values]
  <2>1. CASE as_sid_write
    <3>1. SidElement(address, _eb_memory[address]) \in SidElements
      BY <2>1, <1>4 DEF as_sid_write, SidElement, SidElements
    <3>2. /\ as_q' \in Seq(SidElements) /\ Len(as_q') <= AS_Q_LENGTH
      BY <2>1, <3>1, TryAddType, SizeAssumption DEF as_sid_write, TypeOK
    <3>3. QED
      BY <2>1, <3>2 DEF as_sid_write, crtcVars, TypeOK
  <2>2. CASE teletext_reg_write
    BY <2>2, <1>4 DEF teletext_reg_write, TypeOK
  <2>3. CASE ui_post_event
    <3>1. /\ ui_q' \in Seq({"KEY_PRESS"}) /\ Len(ui_q') <= UI_Q_LENGTH
      BY <2>3, TryAddType, SizeAssumption DEF ui_post_event, TypeOK
    <3>2. QED
      BY <2>3, <3>1 DEF ui_post_event, crtcVars, TypeOK
  <2>4. CASE Ignore
    BY <2>4 DEF Ignore, queueVars, crtcVars, TypeOK
  <2>5. QED
    BY <2>1, <2>2, <2>3, <2>4 DEF Dispatch
<1>6. TypeOK'
  BY <1>2, <1>3, <1>5 DEF TypeOK
<1>7. QED
  BY <1>1, <1>6

(* The steps that leave the ring and its pointers alone. *)
LEMMA OtherStepType ==
  ASSUME TInv,
         \/ \E a \in Addresses : \E value \in ValuesFor(a) : BusWrite(a, value)
         \/ EnableInterrupt \/ AcknowledgePending
         \/ EnterHandler \/ FindEmpty
         \/ as_reset \/ as_timer_callback \/ TakeUiEvent
         \/ UNCHANGED vars
  PROVE  TInv'
<1> USE DEF TInv
<1>1. ASSUME NEW a \in Addresses, NEW value \in ValuesFor(a), BusWrite(a, value)
      PROVE  TInv'
  <2>1. value \in Values
    BY ValueTypes
  <2>2. _eb_memory' \in [Addresses -> Values]
    BY <1>1, <2>1 DEF BusWrite, TypeOK
  <2>3. TypeOK'
    BY <1>1, <2>2 DEF BusWrite, TypeOK, ringVars, sidVars, crtcVars
  <2>4. QED
    BY <1>1, <2>3 DEF BusWrite, WrittenSlots, ringVars
<1>2. CASE EnableInterrupt \/ AcknowledgePending \/ EnterHandler \/ FindEmpty
  <2>1. intr' \in BOOLEAN
    BY <1>2 DEF EnableInterrupt, AcknowledgePending, EnterHandler, FindEmpty,
                TypeOK
  <2>2. TypeOK'
    BY <1>2, <2>1
       DEF EnableInterrupt, AcknowledgePending, EnterHandler, FindEmpty,
           TypeOK, ringVars, sidVars, crtcVars
  <2>3. WrittenSlots'
    BY <1>2 DEF EnableInterrupt, AcknowledgePending, EnterHandler, FindEmpty,
                WrittenSlots, ringVars
  <2>4. QED
    BY <2>2, <2>3
<1>3. CASE as_reset
  <2>1. SidElement(SID_RESET, 0) \in SidElements
    BY ValueTypes DEF SidElement, SidElements
  <2>2. as_q' \in Seq(SidElements) /\ Len(as_q') <= AS_Q_LENGTH
    BY <1>3, <2>1, TryAddType, SizeAssumption DEF as_reset, TypeOK
  <2>3. TypeOK'
    BY <1>3, <2>2 DEF as_reset, TypeOK, ringVars, crtcVars
  <2>4. QED
    BY <1>3, <2>3 DEF as_reset, WrittenSlots, ringVars
<1>4. CASE as_timer_callback
  <2>1. /\ as_q' \in Seq(SidElements) /\ Len(as_q') <= AS_Q_LENGTH
        /\ Head(as_q) \in SidElements
    BY <1>4, TailType, SizeAssumption DEF as_timer_callback, TypeOK
  <2>2. sid' \in [SidRegs -> Values]
    <3>1. CASE ApplyReset(Head(as_q))
      BY <3>1, ValueTypes DEF ApplyReset
    <3>2. CASE ApplyWrite(Head(as_q))
      BY <3>2, <2>1 DEF ApplyWrite, SidElements, TypeOK
    <3>3. QED
      BY <1>4, <3>1, <3>2 DEF as_timer_callback
  <2>3. TypeOK'
    BY <1>4, <2>1, <2>2 DEF as_timer_callback, TypeOK, ringVars, crtcVars
  <2>4. QED
    BY <1>4, <2>3 DEF as_timer_callback, WrittenSlots, ringVars
<1>5. CASE TakeUiEvent
  <2>1. ui_q' \in Seq({"KEY_PRESS"}) /\ Len(ui_q') <= UI_Q_LENGTH
    BY <1>5, TailType, SizeAssumption DEF TakeUiEvent, TypeOK
  <2>2. TypeOK'
    BY <1>5, <2>1 DEF TakeUiEvent, TypeOK, ringVars, sidVars, crtcVars
  <2>3. QED
    BY <1>5, <2>2 DEF TakeUiEvent, WrittenSlots, ringVars
<1>6. CASE UNCHANGED vars
  BY <1>6 DEF vars, ringVars, sidVars, crtcVars, TypeOK, WrittenSlots
<1>7. QED
  BY <1>1, <1>2, <1>3, <1>4, <1>5, <1>6

LEMMA StepType == TInv /\ [Next]_vars => TInv'
<1>1. TInv /\ StoreEvent => TInv'
  BY StoreEventType
<1>2. TInv /\ GetEvent => TInv'
  BY GetEventType
<1>3. TInv /\ Dispatch => TInv'
  BY DispatchType
<1>4. QED
  BY <1>1, <1>2, <1>3, OtherStepType DEF Next, sid_event_handler

(* The state is well typed at any speed of the handler, lapped or not: in
   particular eb_get_event never returns the zero of a slot nobody has
   written (sid_event_handler dispatches on what it returns). *)
THEOREM TypeCorrect == Spec => []TypeOK
<1>1. Spec => []TInv
  BY InitType, StepType, PTL DEF Spec
<1>2. TInv => TypeOK
  BY DEF TInv
<1>3. QED
  BY <1>1, <1>2, PTL

-----------------------------------------------------------------------------
(* At any speed of the handler, an interrupt is lost only to the
   acknowledgement of eb_set_exclusive_handler: sid_event_handler
   acknowledges before it drains, and finds the ring empty in the step in
   which it returns. *)
THEOREM WakeupNeverLost == Spec => NoLostWakeup
<1>1. [Next]_vars => [Stranded' => Stranded \/ setup # setup']_vars
  <2> SUFFICES ASSUME Next, Stranded', setup' = setup PROVE Stranded
    BY DEF vars
  <2> USE DEF Stranded
  <2>1. CASE \E a \in Addresses : \E value \in ValuesFor(a) : BusWrite(a, value)
    BY <2>1 DEF BusWrite, ringVars
  <2>2. CASE StoreEvent
    BY <2>2 DEF StoreEvent
  <2>3. CASE EnableInterrupt \/ AcknowledgePending
    BY <2>3 DEF EnableInterrupt, AcknowledgePending
  <2>4. CASE sid_event_handler
    BY <2>4 DEF sid_event_handler, EnterHandler, GetEvent, FindEmpty,
                Dispatch, HandleNext, ringVars
  <2>5. CASE as_reset \/ as_timer_callback \/ TakeUiEvent
    BY <2>5 DEF as_reset, as_timer_callback, TakeUiEvent, ringVars
  <2>6. QED
    BY <2>1, <2>2, <2>3, <2>4, <2>5 DEF Next
<1>2. QED
  BY <1>1, PTL DEF Spec, NoLostWakeup

-----------------------------------------------------------------------------
(* The ring as a queue. *)
LEMMA UnreadType ==
  ASSUME TypeOK
  PROVE  /\ Unread \in Nat
         /\ Unread < EB_EVENT_QUEUE_LEN
         /\ Unread = 0 <=> in_ptr = out_ptr
         /\ \A i \in 1 .. Unread : UnreadSlot(i) \in Slots
  BY SizeAssumption DEF TypeOK, Slots, Unread, UnreadSlot

UnreadIsSeq ==
  /\ UnreadEvents \in Seq(Addresses \cup {0})
  /\ Len(UnreadEvents) = Unread

LEMMA UnreadSeq == TypeOK => UnreadIsSeq
<1> SUFFICES ASSUME TypeOK PROVE UnreadIsSeq
  OBVIOUS
<1>1. /\ Unread \in Nat
      /\ \A i \in 1 .. Unread : UnreadSlot(i) \in Slots
  BY UnreadType
<1>2. \A i \in 1 .. Unread : eb_event_queue[UnreadSlot(i)] \in Addresses \cup {0}
  BY <1>1 DEF TypeOK
<1>3. UnreadEvents \in [1 .. Unread -> Addresses \cup {0}]
  BY <1>2 DEF UnreadEvents
<1>4. UnreadEvents \in Seq(Addresses \cup {0})
  BY <1>1, <1>3, SeqDef
<1>5. Len(UnreadEvents) = Unread
  BY <1>1, <1>3, <1>4, LenProperties
<1>6. QED
  BY <1>4, <1>5 DEF UnreadIsSeq

(* An event stored in a free slot goes to the end of the queue. *)
LEMMA StoreIsPut ==
  ASSUME TypeOK, TypeOK', StoreEvent, HandlerKeepsUp
  PROVE  UnreadEvents' = Append(UnreadEvents, inflight)
<1> DEFINE E == Addresses \cup {0}
<1>1. inflight \in E
  BY DEF TypeOK, StoreEvent
<1>2. /\ in_ptr' = RingWrap(in_ptr)
      /\ out_ptr' = out_ptr
      /\ in_ptr' # out_ptr
      /\ in_ptr \in Slots
      /\ out_ptr \in Slots
  BY PointersAgree DEF TypeOK, StoreEvent, HandlerKeepsUp
<1>3. Unread' = Unread + 1
  BY <1>2, SizeAssumption DEF Unread, RingWrap, Slots
<1>4. \A i \in 1 .. Unread : UnreadSlot(i)' = UnreadSlot(i) /\ UnreadSlot(i) # in_ptr
  BY <1>2, SizeAssumption DEF Unread, UnreadSlot, Slots
<1>5. \A i : i = Unread + 1 => UnreadSlot(i)' = in_ptr
  BY <1>2, SizeAssumption DEF Unread, UnreadSlot, Slots
<1>6. Unread \in Nat
  BY UnreadType
<1>7. UnreadEvents \in Seq(E) /\ Len(UnreadEvents) = Unread
  BY UnreadSeq DEF UnreadIsSeq
<1>8. UnreadEvents' \in Seq(E) /\ Len(UnreadEvents') = Unread'
  <2>1. UnreadIsSeq'
    BY UnreadSeq, PTL
  <2>2. QED
    BY <2>1 DEF UnreadIsSeq
<1>9. /\ Append(UnreadEvents, inflight) \in Seq(E)
      /\ Len(Append(UnreadEvents, inflight)) = Unread + 1
      /\ \A i \in 1 .. Unread : Append(UnreadEvents, inflight)[i] = UnreadEvents[i]
      /\ Append(UnreadEvents, inflight)[Unread + 1] = inflight
  BY <1>1, <1>6, <1>7
<1>10. \A i \in 1 .. Unread + 1 :
         UnreadEvents'[i] = Append(UnreadEvents, inflight)[i]
  <2> SUFFICES ASSUME NEW i \in 1 .. Unread + 1
               PROVE  UnreadEvents'[i] = Append(UnreadEvents, inflight)[i]
    OBVIOUS
  <2>1. UnreadEvents'[i] = eb_event_queue'[UnreadSlot(i)']
    BY <1>3 DEF UnreadEvents
  <2>2. CASE i = Unread + 1
    <3>1. eb_event_queue'[in_ptr] = inflight
      BY <1>2 DEF StoreEvent, TypeOK
    <3>2. QED
      BY <2>1, <2>2, <3>1, <1>5, <1>9
  <2>3. CASE i # Unread + 1
    <3>1. i \in 1 .. Unread
      BY <2>3, <1>6
    <3>2. UnreadSlot(i) \in Slots
      BY <3>1, UnreadType
    <3>3. eb_event_queue'[UnreadSlot(i)] = eb_event_queue[UnreadSlot(i)]
      BY <3>1, <3>2, <1>4 DEF StoreEvent, TypeOK
    <3>4. UnreadEvents[i] = eb_event_queue[UnreadSlot(i)]
      BY <3>1 DEF UnreadEvents
    <3>5. QED
      BY <2>1, <3>1, <3>3, <3>4, <1>4, <1>9
  <2>4. QED
    BY <2>2, <2>3
<1>11. QED
  BY <1>3, <1>7, <1>8, <1>9, <1>10, SeqEqual

(* A call of eb_get_event on a ring that is not empty takes its head. *)
LEMMA GetIsGet ==
  ASSUME TypeOK, TypeOK', GetEvent
  PROVE  /\ UnreadEvents # << >>
         /\ address' = Head(UnreadEvents)
         /\ UnreadEvents' = Tail(UnreadEvents)
<1> DEFINE E == Addresses \cup {0}
<1>1. /\ out_ptr' = RingWrap(out_ptr)
      /\ in_ptr' = in_ptr
      /\ in_ptr # out_ptr
      /\ eb_event_queue' = eb_event_queue
      /\ in_ptr \in Slots
      /\ out_ptr \in Slots
  BY PointersAgree DEF TypeOK, GetEvent, ringVars
<1>2. Unread \in Nat /\ Unread >= 1 /\ Unread' = Unread - 1
  BY <1>1, SizeAssumption DEF Unread, RingWrap, Slots
<1>3. UnreadSlot(1) = out_ptr
  BY <1>1, SizeAssumption DEF UnreadSlot, Slots
<1>4. \A i \in 1 .. Unread - 1 : UnreadSlot(i)' = UnreadSlot(i + 1)
  BY <1>1, <1>2, SizeAssumption DEF Unread, UnreadSlot, RingWrap, Slots
<1>5. UnreadEvents \in Seq(E) /\ Len(UnreadEvents) = Unread
  BY UnreadSeq DEF UnreadIsSeq
<1>6. UnreadEvents' \in Seq(E) /\ Len(UnreadEvents') = Unread'
  <2>1. UnreadIsSeq'
    BY UnreadSeq, PTL
  <2>2. QED
    BY <2>1 DEF UnreadIsSeq
<1>7. UnreadEvents # << >>
  BY <1>2, <1>5, EmptySeq
<1>8. /\ Tail(UnreadEvents) \in Seq(E)
      /\ Len(Tail(UnreadEvents)) = Unread - 1
      /\ \A i \in 1 .. Unread - 1 : Tail(UnreadEvents)[i] = UnreadEvents[i + 1]
  BY <1>5, <1>7, HeadTailProperties
<1>9. \A i \in 1 .. Unread - 1 : UnreadEvents'[i] = Tail(UnreadEvents)[i]
  <2> SUFFICES ASSUME NEW i \in 1 .. Unread - 1
               PROVE  UnreadEvents'[i] = Tail(UnreadEvents)[i]
    OBVIOUS
  <2>1. UnreadEvents'[i] = eb_event_queue[UnreadSlot(i)']
    BY <1>1, <1>2 DEF UnreadEvents
  <2>2. UnreadEvents[i + 1] = eb_event_queue[UnreadSlot(i + 1)]
    BY <1>2 DEF UnreadEvents
  <2>3. QED
    BY <2>1, <2>2, <1>4, <1>8
<1>10. UnreadEvents' = Tail(UnreadEvents)
  BY <1>2, <1>6, <1>8, <1>9, SeqEqual
<1>11. address' = Head(UnreadEvents)
  <2>1. Head(UnreadEvents) = UnreadEvents[1]
    BY <1>5, <1>7
  <2>2. UnreadEvents[1] = eb_event_queue[UnreadSlot(1)]
    BY <1>2 DEF UnreadEvents
  <2>3. QED
    BY <2>1, <2>2, <1>3 DEF GetEvent
<1>12. QED
  BY <1>7, <1>10, <1>11

LEMMA RingUnchanged ==
  ASSUME UNCHANGED <<ringVars, out_ptr>>
  PROVE  UnreadEvents' = UnreadEvents
  BY DEF UnreadEvents, Unread, UnreadSlot, ringVars

(* If the handler keeps up with the 6502, the ring is a queue: every address
   written is returned by eb_get_event, once and in order, and NoEvent only
   when there is none, for every length of the ring. *)
THEOREM RingIsAQueue == TimelySpec => ImplementsEventQueue
<1>1. Init => Q!Init
  <2> SUFFICES ASSUME Init PROVE Q!Init
    OBVIOUS
  <2>1. TypeOK /\ Unread = 0
    BY InitType DEF TInv, Init, Unread
  <2>2. UnreadEvents = << >>
    BY <2>1, UnreadSeq, EmptySeq DEF UnreadIsSeq
  <2>3. QED
    BY <2>2 DEF Init, Q!Init
<1>2. TInv /\ TInv' /\ [Next /\ HandlerKeepsUp]_vars
      => [Q!Next]_<<UnreadEvents, address>>
  <2> SUFFICES ASSUME TypeOK, TypeOK', [Next /\ HandlerKeepsUp]_vars
               PROVE  [Q!Next]_<<UnreadEvents, address>>
    BY DEF TInv
  <2>1. CASE StoreEvent /\ HandlerKeepsUp
    <3>1. inflight \in Addresses /\ address' = address
      BY <2>1 DEF StoreEvent, TypeOK
    <3>2. QED
      BY <2>1, <3>1, StoreIsPut DEF Q!Next, Q!Put
  <2>2. CASE GetEvent
    BY <2>2, GetIsGet DEF Q!Next, Q!Get
  <2>3. CASE FindEmpty
    <3>1. UnreadEvents' = UnreadEvents
      BY <2>3, RingUnchanged DEF FindEmpty
    <3>2. Unread = 0
      BY <2>3, UnreadType DEF FindEmpty
    <3>3. UnreadEvents = << >>
      BY <3>2, UnreadSeq, EmptySeq DEF UnreadIsSeq
    <3>4. QED
      BY <2>3, <3>1, <3>3 DEF FindEmpty, Q!Next, Q!FindEmpty
  <2>4. CASE \/ \E a \in Addresses : \E value \in ValuesFor(a) : BusWrite(a, value)
             \/ EnableInterrupt \/ AcknowledgePending
             \/ EnterHandler \/ Dispatch
             \/ as_reset \/ as_timer_callback \/ TakeUiEvent
             \/ UNCHANGED vars
    <3>1. UNCHANGED <<ringVars, out_ptr>> /\ address' = address
      BY <2>4 DEF BusWrite, EnableInterrupt, AcknowledgePending, EnterHandler,
                  Dispatch, as_reset, as_timer_callback, TakeUiEvent, vars
    <3>2. QED
      BY <3>1, RingUnchanged
  <2>5. QED
    BY <2>1, <2>2, <2>3, <2>4 DEF Next, sid_event_handler
<1>3. TimelySpec => []TInv
  <2>1. [Next /\ HandlerKeepsUp]_vars => [Next]_vars
    OBVIOUS
  <2>2. QED
    BY <2>1, InitType, StepType, PTL DEF TimelySpec
<1>4. QED
  BY <1>1, <1>2, <1>3, PTL DEF TimelySpec, ImplementsEventQueue, Q!Spec

-----------------------------------------------------------------------------
(* Histories.  As long as nothing is lost, unread counts the events of the
   ring, whether or not its handler keeps up. *)
HInv ==
  /\ TInv
  /\ lost \in BOOLEAN
  /\ selected \in Values
  /\ programmed \in [CrtcRegs -> Values]
  /\ ~lost => unread = Unread

LEMMA StoreCounts ==
  ASSUME HInv, TypeOK', StoreEvent, RecordEvent, ~lost'
  PROVE  ~lost /\ UnreadEvents' = Append(UnreadEvents, inflight)
<1>1. ~lost /\ unread + 1 # EB_EVENT_QUEUE_LEN
  BY DEF RecordEvent
<1>2. unread = Unread
  BY <1>1 DEF HInv
<1>3. in_ptr' # out_ptr'
  BY <1>1, <1>2, SizeAssumption
     DEF HInv, TInv, TypeOK, StoreEvent, RingWrap, Unread, Slots
<1>4. HandlerKeepsUp
  BY <1>3 DEF HandlerKeepsUp, StoreEvent
<1>5. QED
  BY <1>1, <1>4, StoreIsPut DEF HInv, TInv

LEMMA LengthIsUnread ==
  ASSUME TypeOK
  PROVE  UnreadEvents \in Seq(Addresses \cup {0}) /\ Len(UnreadEvents) = Unread
  BY UnreadSeq DEF UnreadIsSeq

LEMMA InitHistory == HInit => HInv
<1> SUFFICES ASSUME HInit PROVE HInv
  OBVIOUS
<1>1. TInv
  BY InitType DEF HInit
<1>2. Unread = 0
  BY DEF HInit, Init, Unread
<1>3. QED
  BY <1>1, <1>2, ValueTypes DEF HInit, HInv

LEMMA HNextIsNext == [HNext]_hvars => [Next]_vars
  BY DEF HNext, Next, hvars, sid_event_handler

LEMMA StepHistory == HInv /\ [HNext]_hvars => HInv'
<1> SUFFICES ASSUME HInv, [HNext]_hvars PROVE HInv'
  OBVIOUS
<1>1. TInv'
  BY HNextIsNext, StepType DEF HInv
<1>2. ASSUME NEW a \in Addresses, NEW value \in ValuesFor(a),
             BusWrite(a, value), RecordWrite(a, value)
      PROVE  HInv'
  <2>1. Unread' = Unread /\ unread' = unread /\ lost' = lost
    BY <1>2 DEF BusWrite, RecordWrite, ringVars, Unread
  <2>2. value \in Values
    BY ValueTypes
  <2>3. selected' \in Values /\ programmed' \in [CrtcRegs -> Values]
    BY <1>2, <2>2 DEF HInv, RecordWrite
  <2>4. QED
    BY <1>1, <2>1, <2>3 DEF HInv
<1>3. CASE StoreEvent /\ RecordEvent
  <2>1. lost' \in BOOLEAN /\ selected' = selected /\ programmed' = programmed
    BY <1>3 DEF RecordEvent
  <2>2. ASSUME ~lost' PROVE unread' = Unread'
    <3>1. ~lost /\ UnreadEvents' = Append(UnreadEvents, inflight)
      BY <1>1, <1>3, <2>2, StoreCounts DEF TInv
    <3>2. inflight \in Addresses \cup {0}
      BY <1>3 DEF StoreEvent, HInv, TInv, TypeOK
    <3>3. UnreadEvents \in Seq(Addresses \cup {0}) /\ Len(UnreadEvents) = Unread
      BY LengthIsUnread DEF HInv, TInv
    <3>4. UnreadIsSeq'
      BY <1>1, UnreadSeq, PTL DEF TInv
    <3>5. Len(UnreadEvents') = Unread'
      BY <3>4 DEF UnreadIsSeq
    <3>6. Len(Append(UnreadEvents, inflight)) = Unread + 1
      BY <3>2, <3>3
    <3>7. QED
      BY <1>3, <3>1, <3>5, <3>6 DEF RecordEvent, HInv
  <2>3. QED
    BY <1>1, <2>1, <2>2 DEF HInv
<1>4. CASE GetEvent /\ RecordFetch
  <2>1. /\ out_ptr' = RingWrap(out_ptr)
        /\ in_ptr' = in_ptr
        /\ in_ptr # out_ptr
        /\ in_ptr \in Slots
        /\ out_ptr \in Slots
    BY <1>4, PointersAgree DEF HInv, TInv, TypeOK, GetEvent, ringVars
  <2>2. Unread' = Unread - 1
    BY <2>1, SizeAssumption DEF Unread, RingWrap, Slots
  <2>3. QED
    BY <1>1, <1>4, <2>2 DEF RecordFetch, HInv
<1>5. CASE Dispatch /\ RecordDispatch
  <2>1. Unread' = Unread
    BY <1>5 DEF Dispatch, ringVars, Unread
  <2>2. QED
    BY <1>1, <1>5, <2>1 DEF RecordDispatch, HInv
<1>6. CASE as_reset /\ RecordReset
  <2>1. Unread' = Unread
    BY <1>6 DEF as_reset, ringVars, Unread
  <2>2. QED
    BY <1>1, <1>6, <2>1 DEF RecordReset, HInv
<1>7. CASE /\ \/ EnableInterrupt \/ AcknowledgePending
              \/ EnterHandler \/ FindEmpty
              \/ as_timer_callback \/ TakeUiEvent
           /\ RecordNothing
  <2>1. Unread' = Unread
    BY <1>7 DEF EnableInterrupt, AcknowledgePending, EnterHandler, FindEmpty,
                as_timer_callback, TakeUiEvent, ringVars, Unread
  <2>2. QED
    BY <1>1, <1>7, <2>1 DEF RecordNothing, history, HInv
<1>8. CASE UNCHANGED hvars
  BY <1>1, <1>8 DEF hvars, history, vars, ringVars, Unread, HInv
<1>9. QED
  BY <1>2, <1>3, <1>4, <1>5, <1>6, <1>7, <1>8 DEF HNext

-----------------------------------------------------------------------------
(* Where the writes to an address wait: 0 is the event being dispatched, then
   come those of the ring, then the one that is not yet stored. *)
At(a, i) ==
  \/ i = 0 /\ isr = "dispatch" /\ address = a
  \/ i \in 1 .. Len(UnreadEvents) /\ UnreadEvents[i] = a
  \/ i = Len(UnreadEvents) + 1 /\ inflight = a

Waits(a) == \E i \in Nat : At(a, i)

LEMMA Positions ==
  ASSUME HInv, NEW a \in Addresses, NEW i \in Nat, At(a, i)
  PROVE  i <= Len(UnreadEvents) + 1 /\ Len(UnreadEvents) \in Nat
<1>1. Len(UnreadEvents) \in Nat
  BY LengthIsUnread, UnreadType DEF HInv, TInv
<1>2. QED
  BY <1>1 DEF At

LEMMA WriteMoves ==
  ASSUME HInv, NEW a \in Addresses, NEW value, BusWrite(a, value),
         NEW b \in Addresses, NEW i \in Nat
  PROVE  At(b, i)' <=> At(b, i) \/ (b = a /\ i = Len(UnreadEvents) + 1)
<1>1. /\ UnreadEvents' = UnreadEvents
      /\ inflight = NoEvent /\ inflight' = a
      /\ isr' = isr /\ address' = address
  BY RingUnchanged DEF BusWrite
<1>2. b # NoEvent
  BY AddressAssumption
<1>3. QED
  BY <1>1, <1>2 DEF At

LEMMA StoreMoves ==
  ASSUME HInv, TypeOK', StoreEvent, RecordEvent, ~lost',
         NEW b \in Addresses, NEW i \in Nat
  PROVE  At(b, i)' <=> At(b, i)
<1>1. UnreadEvents' = Append(UnreadEvents, inflight)
  BY StoreCounts
<1>2. /\ inflight' = NoEvent /\ inflight \in Addresses
      /\ isr' = isr /\ address' = address
  BY DEF StoreEvent, HInv, TInv, TypeOK
<1>3. b # NoEvent
  BY AddressAssumption
<1>4. PICK n \in Nat, u \in Seq(Addresses \cup {0}) : u = UnreadEvents /\ n = Len(u)
  BY LengthIsUnread, UnreadType DEF HInv, TInv
<1>5. PICK w : w = Append(u, inflight)
  OBVIOUS
<1>6. /\ Len(w) = n + 1
      /\ \A j \in 1 .. n : w[j] = u[j]
      /\ w[n + 1] = inflight
  BY <1>2, <1>4, <1>5
<1>7. At(b, i)' <=> \/ i = 0 /\ isr = "dispatch" /\ address = b
                    \/ i \in 1 .. n + 1 /\ w[i] = b
  BY <1>1, <1>2, <1>3, <1>4, <1>5, <1>6 DEF At
<1>8. At(b, i) <=> \/ i = 0 /\ isr = "dispatch" /\ address = b
                   \/ i \in 1 .. n /\ u[i] = b
                   \/ i = n + 1 /\ inflight = b
  BY <1>4 DEF At
<1>9. QED
  BY <1>4, <1>6, <1>7, <1>8

LEMMA GetMoves ==
  ASSUME HInv, TypeOK', GetEvent, NEW b \in Addresses, NEW i \in Nat
  PROVE  (At(b, i)' <=> At(b, i + 1)) /\ ~At(b, 0)
<1>1. /\ UnreadEvents # << >>
      /\ address' = Head(UnreadEvents)
      /\ UnreadEvents' = Tail(UnreadEvents)
  BY GetIsGet DEF HInv, TInv
<1>2. inflight' = inflight /\ isr = "fetch" /\ isr' = "dispatch"
  BY DEF GetEvent
<1>3. PICK n \in Nat, u \in Seq(Addresses \cup {0}) : u = UnreadEvents /\ n = Len(u)
  BY LengthIsUnread, UnreadType DEF HInv, TInv
<1>4. PICK w : w = Tail(u)
  OBVIOUS
<1>5. /\ n > 0 /\ Len(w) = n - 1
      /\ \A j \in 1 .. n - 1 : w[j] = u[j + 1]
      /\ Head(u) = u[1]
  BY <1>1, <1>3, <1>4, HeadTailProperties, EmptySeq
<1>6. At(b, i)' <=> \/ i = 0 /\ u[1] = b
                    \/ i \in 1 .. n - 1 /\ w[i] = b
                    \/ i = n /\ inflight = b
  BY <1>1, <1>2, <1>3, <1>4, <1>5 DEF At
<1>7. At(b, i + 1) <=> \/ i + 1 \in 1 .. n /\ u[i + 1] = b
                       \/ i + 1 = n + 1 /\ inflight = b
  BY <1>2, <1>3 DEF At
<1>8. ~At(b, 0)
  BY <1>2, <1>3 DEF At
<1>9. QED
  BY <1>3, <1>5, <1>6, <1>7, <1>8

LEMMA DispatchMoves ==
  ASSUME HInv, Dispatch, NEW b \in Addresses, NEW i \in Nat
  PROVE  /\ At(b, i)' <=> At(b, i) /\ i # 0
         /\ At(b, 0) <=> b = address
<1>1. /\ UnreadEvents' = UnreadEvents
      /\ inflight' = inflight /\ address' = address
      /\ isr = "dispatch" /\ isr' = "fetch"
  BY RingUnchanged DEF Dispatch, HandleNext
<1>2. Len(UnreadEvents) \in Nat
  BY LengthIsUnread, UnreadType DEF HInv, TInv
<1>3. QED
  BY <1>1, <1>2 DEF At

LEMMA OthersMoveNothing ==
  ASSUME HInv, \/ EnableInterrupt \/ AcknowledgePending \/ EnterHandler \/ FindEmpty
               \/ as_reset \/ as_timer_callback \/ TakeUiEvent \/ UNCHANGED vars,
         NEW b, NEW i
  PROVE  At(b, i)' <=> At(b, i)
<1>1. /\ UnreadEvents' = UnreadEvents /\ inflight' = inflight
      /\ address' = address \/ isr # "dispatch"
      /\ isr' = isr \/ (isr # "dispatch" /\ isr' # "dispatch")
  BY RingUnchanged
     DEF EnableInterrupt, AcknowledgePending, EnterHandler, FindEmpty,
         as_reset, as_timer_callback, TakeUiEvent, vars, ringVars
<1>2. QED
  BY <1>1 DEF At

LEMMA NothingWaits ==
  ASSUME HInv, Quiescent, NEW a \in Addresses
  PROVE  ~Waits(a)
<1>1. Len(UnreadEvents) = 0
  BY LengthIsUnread, UnreadType DEF HInv, TInv, Quiescent
<1>2. QED
  BY <1>1, AddressAssumption DEF Quiescent, Waits, At

-----------------------------------------------------------------------------
(* What a SID register is going to hold: as_q leaves the value v in it. *)
Affects(i, r) == as_q[i].address \in {r, SID_RESET}

Settles(r, v) ==
  \/ sid[r] = v /\ \A i \in 1 .. Len(as_q) : ~Affects(i, r)
  \/ \E i \in 1 .. Len(as_q) :
       /\ Affects(i, r) /\ as_q[i].data = v
       /\ \A j \in i + 1 .. Len(as_q) : ~Affects(j, r)

SidInv ==
  /\ fresh \subseteq SidRegs
  /\ silenced \in BOOLEAN
  /\ \A i \in 1 .. Len(as_q) : as_q[i].address = SID_RESET => as_q[i].data = 0
  /\ ~lost => \A r \in fresh : Waits(r) \/ Settles(r, _eb_memory[r])
  /\ ~lost /\ silenced => \A r \in SidRegs : Settles(r, 0)

LEMMA QueueType ==
  ASSUME HInv
  PROVE  as_q \in Seq(SidElements) /\ Len(as_q) \in Nat
  BY DEF HInv, TInv, TypeOK

(* An element goes to the end of the queue: it decides for the registers it
   affects, and changes nothing for the others. *)
LEMMA AppendSettles ==
  ASSUME HInv, NEW e \in SidElements, as_q' = Append(as_q, e), sid' = sid,
         NEW r \in SidRegs
  PROVE  /\ e.address \in {r, SID_RESET} => Settles(r, e.data)'
         /\ e.address \notin {r, SID_RESET} =>
              \A v : Settles(r, v) => Settles(r, v)'
<1>1. PICK n \in Nat, q \in Seq(SidElements) : q = as_q /\ n = Len(q)
  BY QueueType
<1>2. PICK w : w = Append(q, e)
  OBVIOUS
<1>3. /\ as_q' = w /\ Len(w) = n + 1
      /\ \A i \in 1 .. n : w[i] = q[i]
      /\ w[n + 1] = e
  BY <1>1, <1>2
<1>4. CASE e.address \in {r, SID_RESET}
  <2>1. n + 1 \in 1 .. n + 1 /\ n + 1 + 1 .. n + 1 = {}
    BY <1>1
  <2>2. QED
    BY <1>3, <1>4, <2>1 DEF Settles, Affects
<1>5. CASE e.address \notin {r, SID_RESET}
  <2> SUFFICES ASSUME NEW v, Settles(r, v) PROVE Settles(r, v)'
    BY <1>5
  <2>1. ~Affects(n + 1, r)'
    BY <1>3, <1>5 DEF Affects
  <2>2. \A i \in 1 .. n : (Affects(i, r)' <=> Affects(i, r)) /\ as_q'[i] = as_q[i]
    BY <1>1, <1>3 DEF Affects
  <2>3. CASE sid[r] = v /\ \A i \in 1 .. Len(as_q) : ~Affects(i, r)
    <3>1. \A i \in 1 .. n + 1 : ~Affects(i, r)'
      BY <1>1, <2>1, <2>2, <2>3
    <3>2. QED
      BY <1>3, <2>3, <3>1 DEF Settles
  <2>4. CASE \E i \in 1 .. Len(as_q) :
               /\ Affects(i, r) /\ as_q[i].data = v
               /\ \A j \in i + 1 .. Len(as_q) : ~Affects(j, r)
    <3>1. PICK i \in 1 .. n : /\ Affects(i, r) /\ as_q[i].data = v
                              /\ \A j \in i + 1 .. n : ~Affects(j, r)
      BY <1>1, <2>4
    <3>2. i \in 1 .. n + 1 /\ Affects(i, r)' /\ as_q'[i].data = v
      BY <1>1, <2>2, <3>1
    <3>3. \A j \in i + 1 .. n + 1 : ~Affects(j, r)'
      BY <1>1, <2>1, <2>2, <3>1
    <3>4. QED
      BY <1>3, <3>2, <3>3 DEF Settles
  <2>5. QED
    BY <2>3, <2>4 DEF Settles
<1>6. QED
  BY <1>4, <1>5

(* The head of the queue is applied: what the queue leads to stays. *)
LEMMA ApplySettles ==
  ASSUME HInv, SidInv, as_timer_callback, NEW r \in SidRegs, NEW v, Settles(r, v)
  PROVE  Settles(r, v)'
<1>1. PICK n \in Nat, q \in Seq(SidElements) : q = as_q /\ n = Len(q)
  BY QueueType
<1>2. PICK w : w = Tail(q)
  OBVIOUS
<1>3. /\ as_q' = w /\ n > 0 /\ Len(w) = n - 1
      /\ \A i \in 1 .. n - 1 : w[i] = q[i + 1]
      /\ Head(q) = q[1] /\ q[1] \in SidElements
  BY <1>1, <1>2, HeadTailProperties, EmptySeq DEF as_timer_callback
<1>4. \A i \in 1 .. n - 1 :
        (Affects(i, r)' <=> Affects(i + 1, r)) /\ as_q'[i] = as_q[i + 1]
  BY <1>1, <1>3 DEF Affects
<1>5. CASE sid[r] = v /\ \A i \in 1 .. Len(as_q) : ~Affects(i, r)
  <2>1. q[1].address # r /\ q[1].address # SID_RESET
    BY <1>1, <1>3, <1>5 DEF Affects
  <2>2. sid' = [sid EXCEPT ![q[1].address] = q[1].data]
    BY <1>1, <1>3, <2>1 DEF as_timer_callback, ApplyReset, ApplyWrite
  <2>3. sid'[r] = v
    BY <1>5, <2>1, <2>2 DEF HInv, TInv, TypeOK
  <2>4. \A i \in 1 .. n - 1 : ~Affects(i, r)'
    BY <1>1, <1>4, <1>5
  <2>5. QED
    BY <1>3, <2>3, <2>4 DEF Settles
<1>6. CASE \E i \in 1 .. Len(as_q) :
             /\ Affects(i, r) /\ as_q[i].data = v
             /\ \A j \in i + 1 .. Len(as_q) : ~Affects(j, r)
  <2>1. PICK i \in 1 .. n : /\ Affects(i, r) /\ as_q[i].data = v
                            /\ \A j \in i + 1 .. n : ~Affects(j, r)
    BY <1>1, <1>6
  <2>2. \A j \in i .. n - 1 : ~Affects(j, r)'
    BY <1>1, <1>4, <2>1
  <2>3. CASE i = 1
    <3>1. sid'[r] = v
      <4>1. CASE q[1].address = SID_RESET
        <5>1. v = 0
          BY <1>1, <1>3, <2>1, <2>3, <4>1 DEF SidInv
        <5>2. sid' = [s \in SidRegs |-> 0]
          BY <1>1, <1>3, <4>1 DEF as_timer_callback, ApplyReset, ApplyWrite
        <5>3. QED
          BY <5>1, <5>2
      <4>2. CASE q[1].address # SID_RESET
        <5>1. q[1].address = r /\ q[1].data = v
          BY <1>1, <2>1, <2>3, <4>2 DEF Affects
        <5>2. sid' = [sid EXCEPT ![r] = v]
          BY <1>1, <1>3, <4>2, <5>1 DEF as_timer_callback, ApplyReset, ApplyWrite
        <5>3. QED
          BY <5>2 DEF HInv, TInv, TypeOK
      <4>3. QED
        BY <4>1, <4>2
    <3>2. QED
      BY <1>3, <2>2, <2>3, <3>1 DEF Settles
  <2>4. CASE i # 1
    <3>1. i - 1 \in 1 .. n - 1 /\ i - 1 + 1 = i
      BY <2>4
    <3>2. Affects(i - 1, r)' /\ as_q'[i - 1].data = v
      BY <1>4, <2>1, <3>1
    <3>3. QED
      BY <1>3, <2>2, <3>1, <3>2 DEF Settles
  <2>5. QED
    BY <2>3, <2>4
<1>7. QED
  BY <1>5, <1>6 DEF Settles

LEMMA SettlesUnchanged ==
  ASSUME as_q' = as_q, sid' = sid, NEW r, NEW v
  PROVE  Settles(r, v)' <=> Settles(r, v)
  BY DEF Settles, Affects

LEMMA InitSid == HInit => SidInv
<1> SUFFICES ASSUME HInit PROVE SidInv
  OBVIOUS
<1>1. 1 .. Len(as_q) = {}
  BY DEF HInit, Init
<1>2. QED
  BY <1>1 DEF HInit, SidInv

ResetsAreZero ==
  \A i \in 1 .. Len(as_q) : as_q[i].address = SID_RESET => as_q[i].data = 0

LEMMA AddedResets ==
  ASSUME HInv, ResetsAreZero, NEW e \in SidElements,
         e.address = SID_RESET => e.data = 0,
         as_q' = TryAdd(as_q, AS_Q_LENGTH, e)
  PROVE  ResetsAreZero'
<1>1. PICK n \in Nat, q \in Seq(SidElements) : q = as_q /\ n = Len(q)
  BY QueueType
<1>2. PICK w : w = Append(q, e)
  OBVIOUS
<1>3. /\ Len(w) = n + 1
      /\ \A i \in 1 .. n : w[i] = q[i]
      /\ w[n + 1] = e
  BY <1>1, <1>2
<1>4. as_q' = q \/ as_q' = w
  BY <1>1, <1>2 DEF TryAdd
<1>5. ASSUME NEW i \in 1 .. n + 1, w[i].address = SID_RESET PROVE w[i].data = 0
  <2>1. i = n + 1 \/ i \in 1 .. n
    BY <1>1
  <2>2. QED
    BY <1>1, <1>3, <1>5, <2>1 DEF ResetsAreZero
<1>6. QED
  BY <1>1, <1>3, <1>4, <1>5 DEF ResetsAreZero

(* An element that is not dropped. *)
LEMMA AddedLast ==
  ASSUME HInv, Len(as_q) # AS_Q_LENGTH, NEW e
  PROVE  TryAdd(as_q, AS_Q_LENGTH, e) = Append(as_q, e)
  BY SizeAssumption, QueueType DEF HInv, TInv, TypeOK, TryAdd

LEMMA WriteSid ==
  ASSUME HInv, SidInv, NEW a \in Addresses, NEW value \in ValuesFor(a),
         BusWrite(a, value), RecordWrite(a, value)
  PROVE  SidInv'
<1>1. /\ as_q' = as_q /\ sid' = sid /\ lost' = lost /\ silenced' = silenced
      /\ fresh' = fresh \cup ({a} \cap SidRegs)
  BY DEF BusWrite, RecordWrite, sidVars
<1>2. \A r, v : Settles(r, v)' <=> Settles(r, v)
  BY <1>1, SettlesUnchanged
<1>3. \A b \in Addresses : b # a => _eb_memory'[b] = _eb_memory[b]
  BY DEF BusWrite, HInv, TInv, TypeOK
<1>4. \A b \in Addresses : (Waits(b) => Waits(b)') /\ (b = a => Waits(b)')
  <2>1. Len(UnreadEvents) + 1 \in Nat
    BY LengthIsUnread, UnreadType DEF HInv, TInv
  <2>2. \A b \in Addresses, i \in Nat :
          At(b, i)' <=> At(b, i) \/ (b = a /\ i = Len(UnreadEvents) + 1)
    BY WriteMoves
  <2>3. QED
    BY <2>1, <2>2 DEF Waits
<1>5. ASSUME ~lost, NEW r \in fresh'
      PROVE  Waits(r)' \/ Settles(r, _eb_memory[r])'
  <2>1. r \in Addresses
    BY <1>1, <1>5 DEF SidInv, Addresses
  <2>2. CASE r = a
    BY <1>4, <2>1, <2>2
  <2>3. CASE r # a
    <3>1. r \in fresh /\ _eb_memory'[r] = _eb_memory[r]
      BY <1>1, <1>3, <2>1, <2>3
    <3>2. Waits(r) \/ Settles(r, _eb_memory[r])
      BY <1>5, <3>1 DEF SidInv
    <3>3. CASE Waits(r)
      BY <1>4, <2>1, <3>3
    <3>4. CASE Settles(r, _eb_memory[r])
      BY <1>1, <3>1, <3>4 DEF Settles, Affects
    <3>5. QED
      BY <3>2, <3>3, <3>4
  <2>4. QED
    BY <2>2, <2>3
<1>6. fresh' \subseteq SidRegs
  BY <1>1 DEF SidInv
<1>7. ResetsAreZero'
  BY <1>1 DEF SidInv, ResetsAreZero
<1>8. QED
  BY <1>1, <1>2, <1>5, <1>6, <1>7, Zenon DEF SidInv, ResetsAreZero

(* The steps of the ring. *)
LEMMA RingSid ==
  ASSUME HInv, SidInv, TypeOK',
         (StoreEvent /\ RecordEvent) \/ (GetEvent /\ RecordFetch)
  PROVE  SidInv'
<1>1. /\ as_q' = as_q /\ sid' = sid /\ _eb_memory' = _eb_memory
      /\ fresh' = fresh /\ silenced' = silenced
      /\ lost => lost'
  <2>1. CASE StoreEvent /\ RecordEvent
    BY <2>1 DEF StoreEvent, RecordEvent, sidVars
  <2>2. CASE GetEvent /\ RecordFetch
    BY <2>2 DEF GetEvent, RecordFetch, sidVars
  <2>3. QED
    BY <2>1, <2>2
<1>2. \A r, v : Settles(r, v)' <=> Settles(r, v)
  BY <1>1, SettlesUnchanged
<1>3. ASSUME ~lost', NEW b \in Addresses, Waits(b) PROVE Waits(b)'
  <2>1. PICK i \in Nat : At(b, i)
    BY <1>3 DEF Waits
  <2>2. CASE StoreEvent /\ RecordEvent
    BY <1>3, <2>1, <2>2, StoreMoves DEF Waits
  <2>3. CASE GetEvent /\ RecordFetch
    <3>1. ~At(b, 0) /\ \A j \in Nat : At(b, j)' <=> At(b, j + 1)
      BY <2>3, GetMoves
    <3>2. i # 0 /\ i - 1 \in Nat /\ i - 1 + 1 = i
      BY <2>1, <3>1
    <3>3. QED
      BY <2>1, <3>1, <3>2 DEF Waits
  <2>4. QED
    BY <2>2, <2>3
<1>4. ASSUME ~lost', NEW r \in fresh
      PROVE  Waits(r)' \/ Settles(r, _eb_memory[r])'
  <2>1. r \in Addresses
    BY DEF SidInv, Addresses
  <2>2. Waits(r) \/ Settles(r, _eb_memory[r])
    BY <1>1, <1>4 DEF SidInv
  <2>3. Settles(r, _eb_memory[r]) => Settles(r, _eb_memory[r])'
    BY <1>1 DEF Settles, Affects
  <2>4. QED
    BY <1>3, <1>4, <2>1, <2>2, <2>3
<1>5. QED
  BY <1>1, <1>2, <1>4, Zenon DEF SidInv

(* The handler gives the byte of a register to as_q. *)
LEMMA DispatchSid ==
  ASSUME HInv, SidInv, Dispatch, RecordDispatch
  PROVE  SidInv'
<1>1. /\ _eb_memory' = _eb_memory /\ sid' = sid /\ fresh' = fresh
      /\ address \in Addresses
      /\ silenced' = (silenced /\ address \notin SidRegs)
      /\ lost' = (lost \/ /\ address \in SidRegs
                          /\ Len(as_q) = AS_Q_LENGTH)
  BY DEF Dispatch, RecordDispatch, HInv, TInv, TypeOK
<1>2. \A b \in Addresses : b # address /\ Waits(b) => Waits(b)'
  <2>1. \A b \in Addresses, i \in Nat : /\ At(b, i)' <=> At(b, i) /\ i # 0
                                        /\ At(b, 0) <=> b = address
    BY DispatchMoves
  <2>2. QED
    BY <2>1 DEF Waits
<1>3. CASE address \notin SidRegs
  <2>1. as_q' = as_q
    BY <1>3 DEF Dispatch, as_sid_write, teletext_reg_write, ui_post_event,
                Ignore, queueVars
  <2>2. \A r, v : Settles(r, v)' <=> Settles(r, v)
    BY <1>1, <2>1, SettlesUnchanged
  <2>3. ASSUME ~lost, NEW r \in fresh
        PROVE  Waits(r)' \/ Settles(r, _eb_memory[r])'
    <3>1. r \in Addresses /\ r # address
      BY <1>3 DEF SidInv, Addresses
    <3>2. Waits(r) \/ Settles(r, _eb_memory[r])
      BY <2>3 DEF SidInv
    <3>3. Settles(r, _eb_memory[r]) => Settles(r, _eb_memory[r])'
      BY <1>1, <2>1 DEF Settles, Affects
    <3>4. QED
      BY <1>2, <3>1, <3>2, <3>3
  <2>4. QED
    BY <1>1, <1>3, <2>1, <2>2, <2>3, Zenon DEF SidInv
<1>4. CASE address \in SidRegs
  <2>1. PICK e : e = SidElement(address, _eb_memory[address])
    OBVIOUS
  <2>2. /\ e \in SidElements /\ e.address = address
        /\ e.data = _eb_memory[address] /\ address # SID_RESET
    BY <1>1, <1>4, <2>1, AddressAssumption
       DEF HInv, TInv, TypeOK, SidElement, SidElements
  <2>3. as_q' = TryAdd(as_q, AS_Q_LENGTH, e)
    BY <1>4, <2>1, AddressAssumption
       DEF Dispatch, as_sid_write, teletext_reg_write, ui_post_event, Ignore,
           Ports
  <2>4. ResetsAreZero'
    BY <2>2, <2>3, AddedResets DEF SidInv, ResetsAreZero
  <2>5. ASSUME ~lost', NEW r \in fresh
        PROVE  Waits(r)' \/ Settles(r, _eb_memory[r])'
    <3>1. ~lost /\ Len(as_q) # AS_Q_LENGTH
      BY <1>1, <1>4, <2>5
    <3>2. as_q' = Append(as_q, e)
      BY <2>3, <3>1, AddedLast
    <3>3. r \in SidRegs /\ r \in Addresses
      BY DEF SidInv, Addresses
    <3>4. /\ e.address \in {r, SID_RESET} => Settles(r, e.data)'
          /\ e.address \notin {r, SID_RESET} =>
               \A v : Settles(r, v) => Settles(r, v)'
      BY <1>1, <2>2, <3>2, <3>3, AppendSettles
    <3>5. CASE r = address
      <4>1. Settles(r, e.data)'
        BY <2>2, <3>4, <3>5
      <4>2. e.data = _eb_memory'[r]
        BY <1>1, <2>2, <3>5
      <4>3. QED
        BY <4>1, <4>2 DEF Settles
    <3>6. CASE r # address
      <4>1. Waits(r) \/ Settles(r, _eb_memory[r])
        BY <2>5, <3>1 DEF SidInv
      <4>2. ASSUME Settles(r, _eb_memory[r]) PROVE Settles(r, _eb_memory[r])'
        <5>1. PICK v : v = _eb_memory[r] /\ v = _eb_memory'[r]
          BY <1>1
        <5>2. Settles(r, v)
          BY <4>2, <5>1 DEF Settles
        <5>3. Settles(r, v)'
          BY <2>2, <3>4, <3>6, <5>2
        <5>4. QED
          BY <5>1, <5>3 DEF Settles
      <4>3. QED
        BY <1>2, <3>3, <3>6, <4>1, <4>2
    <3>7. QED
      BY <3>5, <3>6
  <2>6. silenced' = FALSE
    BY <1>1, <1>4
  <2>7. QED
    BY <1>1, <2>4, <2>5, <2>6, Zenon DEF SidInv, ResetsAreZero
<1>5. QED
  BY <1>3, <1>4

(* A reset counts as a write of 0 to every register. *)
LEMMA ResetSid ==
  ASSUME HInv, SidInv, as_reset, RecordReset
  PROVE  SidInv'
<1>1. PICK e : e = SidElement(SID_RESET, 0)
  OBVIOUS
<1>2. e \in SidElements /\ e.address = SID_RESET /\ e.data = 0
  BY <1>1, ValueTypes DEF SidElement, SidElements
<1>3. /\ as_q' = TryAdd(as_q, AS_Q_LENGTH, e)
      /\ sid' = sid /\ fresh' = {} /\ silenced' = TRUE
      /\ lost' = (lost \/ Len(as_q) = AS_Q_LENGTH)
  BY <1>1 DEF as_reset, RecordReset
<1>4. ResetsAreZero'
  BY <1>2, <1>3, AddedResets DEF SidInv, ResetsAreZero
<1>5. ASSUME ~lost', NEW r \in SidRegs PROVE Settles(r, 0)'
  <2>1. as_q' = Append(as_q, e)
    BY <1>3, <1>5, AddedLast
  <2>2. Settles(r, e.data)'
    BY <1>2, <1>3, <2>1, AppendSettles
  <2>3. QED
    BY <1>2, <2>2
<1>6. QED
  BY <1>3, <1>4, <1>5, Zenon DEF SidInv, ResetsAreZero

LEMMA CallbackSid ==
  ASSUME HInv, SidInv, as_timer_callback, RecordNothing
  PROVE  SidInv'
<1>1. /\ fresh' = fresh /\ silenced' = silenced /\ lost' = lost
      /\ _eb_memory' = _eb_memory
  BY DEF RecordNothing, history, as_timer_callback
<1>2. \A b : Waits(b) => Waits(b)'
  BY OthersMoveNothing DEF Waits
<1>3. \A r \in SidRegs : \A v : Settles(r, v) => Settles(r, v)'
  BY ApplySettles
<1>4. ASSUME ~lost, NEW r \in fresh
      PROVE  Waits(r)' \/ Settles(r, _eb_memory[r])'
  <2>1. r \in SidRegs
    BY DEF SidInv
  <2>2. Waits(r) \/ Settles(r, _eb_memory[r])
    BY <1>4 DEF SidInv
  <2>3. ASSUME Settles(r, _eb_memory[r]) PROVE Settles(r, _eb_memory[r])'
    <3>1. PICK v : v = _eb_memory[r] /\ v = _eb_memory'[r]
      BY <1>1
    <3>2. Settles(r, v)'
      BY <1>3, <2>1, <2>3, <3>1 DEF Settles
    <3>3. QED
      BY <3>1, <3>2 DEF Settles
  <2>4. QED
    BY <1>2, <2>2, <2>3
<1>5. ResetsAreZero'
  <2>1. PICK n \in Nat, q \in Seq(SidElements) : q = as_q /\ n = Len(q)
    BY QueueType
  <2>2. PICK w : w = Tail(q)
    OBVIOUS
  <2>3. /\ as_q' = w /\ Len(w) = n - 1
        /\ \A i \in 1 .. n - 1 : w[i] = q[i + 1]
    BY <2>1, <2>2, HeadTailProperties, EmptySeq DEF as_timer_callback
  <2>4. QED
    BY <2>1, <2>3 DEF SidInv, ResetsAreZero
<1>6. QED
  BY <1>1, <1>3, <1>4, <1>5, Zenon DEF SidInv, ResetsAreZero

LEMMA StepSid == HInv /\ HInv' /\ SidInv /\ [HNext]_hvars => SidInv'
<1> SUFFICES ASSUME HInv, TypeOK', SidInv, [HNext]_hvars PROVE SidInv'
  BY DEF HInv, TInv
<1>1. CASE \/ /\ EnableInterrupt \/ AcknowledgePending
                 \/ EnterHandler \/ FindEmpty \/ TakeUiEvent
              /\ RecordNothing
           \/ UNCHANGED hvars
  <2>1. /\ fresh' = fresh /\ silenced' = silenced /\ lost' = lost
        /\ _eb_memory' = _eb_memory /\ as_q' = as_q /\ sid' = sid
    BY <1>1 DEF RecordNothing, history, hvars, vars, EnableInterrupt,
                AcknowledgePending, EnterHandler, FindEmpty, TakeUiEvent,
                sidVars
  <2>2. \A b : Waits(b) => Waits(b)'
    BY <1>1, OthersMoveNothing DEF Waits, hvars
  <2>3. \A r, v : Settles(r, v)' <=> Settles(r, v)
    BY <2>1, SettlesUnchanged
  <2>4. \A r : Settles(r, _eb_memory[r])' <=> Settles(r, _eb_memory[r])
    BY <2>1 DEF Settles, Affects
  <2>5. QED
    BY <2>1, <2>2, <2>3, <2>4, Zenon DEF SidInv
<1>2. CASE \E a \in Addresses : \E value \in ValuesFor(a) :
             BusWrite(a, value) /\ RecordWrite(a, value)
  BY <1>2, WriteSid
<1>3. QED
  BY <1>1, <1>2, RingSid, DispatchSid, ResetSid, CallbackSid DEF HNext

(* Whatever the speed of the handler, if nothing was lost and core 1 has
   nothing left to do, the SID has what was written last (as_sid_write reads
   the byte late, as_reset jumps the ring). *)
THEOREM SidIsRight == HSpec => []SidSettles
<1>1. HInv /\ SidInv => SidSettles
  <2> SUFFICES ASSUME HInv, SidInv, Quiescent, ~lost
               PROVE  /\ \A r \in fresh : sid[r] = _eb_memory[r]
                      /\ silenced => \A r \in SidRegs : sid[r] = 0
    BY DEF SidSettles
  <2>1. 1 .. Len(as_q) = {}
    BY DEF Quiescent
  <2>2. \A r, v : Settles(r, v) => sid[r] = v
    BY <2>1 DEF Settles
  <2>3. ASSUME NEW r \in fresh PROVE sid[r] = _eb_memory[r]
    <3>1. r \in Addresses
      BY DEF SidInv, Addresses
    <3>2. ~Waits(r)
      BY <3>1, NothingWaits
    <3>3. QED
      BY <2>2, <3>2 DEF SidInv
  <2>4. ASSUME silenced, NEW r \in SidRegs PROVE sid[r] = 0
    BY <2>2, <2>4 DEF SidInv
  <2>5. QED
    BY <2>3, <2>4
<1>2. QED
  BY InitHistory, StepHistory, InitSid, StepSid, <1>1, PTL DEF HSpec

-----------------------------------------------------------------------------
(* What the CRTC is going to hold.  If every byte is dispatched before the
   next write to its port, each port waits at most once, and what the data
   port selects depends on which of the two comes first. *)
Once(a) == \A i, j \in Nat : At(a, i) /\ At(a, j) => i = j

Before(a, b) == \E i, j \in Nat : i < j /\ At(a, i) /\ At(b, j)

Selects == IF Before(TELETEXT_CRTA, TELETEXT_CRTB)
           THEN _eb_memory[TELETEXT_CRTA] ELSE address_reg

CrtcInv ==
  ~lost /\ ~late =>
    /\ \A a \in Ports : Once(a)
    /\ IF Waits(TELETEXT_CRTA) THEN _eb_memory[TELETEXT_CRTA] = selected
                               ELSE address_reg = selected
    /\ programmed =
         IF Waits(TELETEXT_CRTB)
         THEN [r \in CrtcRegs |-> IF r = Selects THEN _eb_memory[TELETEXT_CRTB]
                                  ELSE teletext_regs[r]]
         ELSE teletext_regs

(* A step that leaves bytes and CRTC alone, and moves the writes up without
   changing their order or their number, keeps it. *)
LEMMA MovesKeepCrtc ==
  ASSUME CrtcInv, lost => lost', late => late',
         UNCHANGED <<_eb_memory, crtcVars, selected, programmed>>,
         \A a \in Ports : (Once(a) => Once(a)') /\ (Waits(a)' <=> Waits(a)),
         Before(TELETEXT_CRTA, TELETEXT_CRTB)' <=>
           Before(TELETEXT_CRTA, TELETEXT_CRTB)
  PROVE  CrtcInv'
<1>1. SUFFICES ASSUME ~lost', ~late' PROVE CrtcInv'
  BY DEF CrtcInv
<1>2. ~lost /\ ~late
  BY <1>1
<1>3. /\ _eb_memory' = _eb_memory /\ address_reg' = address_reg
      /\ teletext_regs' = teletext_regs
      /\ selected' = selected /\ programmed' = programmed
  BY DEF crtcVars
<1>4. Selects' = Selects
  BY <1>1, <1>3 DEF Selects
<1>5. \A a \in Ports : Once(a)' /\ (Waits(a)' <=> Waits(a))
  BY <1>1, <1>2 DEF CrtcInv
<1>6. TELETEXT_CRTA \in Ports /\ TELETEXT_CRTB \in Ports
  BY DEF Ports
<1>7. QED
  BY <1>2, <1>3, <1>4, <1>5, <1>6 DEF CrtcInv

LEMMA PortsAreAddresses ==
  /\ TELETEXT_CRTA \in Ports /\ TELETEXT_CRTB \in Ports
  /\ Ports \subseteq Addresses
  BY DEF Ports, Addresses

LEMMA InitCrtc == HInit => CrtcInv
<1> SUFFICES ASSUME HInit PROVE CrtcInv
  OBVIOUS
<1>1. /\ Len(UnreadEvents) = 0 /\ inflight = NoEvent /\ isr = "idle"
      /\ in_ptr = out_ptr
  BY InitType, LengthIsUnread, UnreadType DEF HInit, Init, TInv
<1>2. \A a \in Ports, i \in Nat : ~At(a, i)
  BY <1>1, PortsAreAddresses, AddressAssumption DEF At
<1>3. \A a \in Ports : Once(a) /\ ~Waits(a)
  BY <1>2 DEF Once, Waits
<1>4. programmed = teletext_regs /\ address_reg = selected
  BY DEF HInit, Init
<1>5. QED
  BY <1>3, <1>4, PortsAreAddresses DEF CrtcInv

(* What is not late is written when its address does not wait. *)
LEMMA NotLate ==
  ASSUME HInv, NEW a \in Addresses, NEW value, BusWrite(a, value),
         RecordWrite(a, value), ~late'
  PROVE  ~late /\ ~Waits(a)
<1>1. ~late /\ a \notin Unhandled /\ inflight = NoEvent
  BY DEF RecordWrite, BusWrite
<1>2. Len(UnreadEvents) = Unread
  BY LengthIsUnread DEF HInv, TInv
<1>3. QED
  BY <1>1, <1>2, AddressAssumption DEF Unhandled, Waits, At

LEMMA WriteCrtc ==
  ASSUME HInv, CrtcInv, NEW a \in Addresses, NEW value \in ValuesFor(a),
         BusWrite(a, value), RecordWrite(a, value)
  PROVE  CrtcInv'
<1>1. SUFFICES ASSUME ~lost', ~late' PROVE CrtcInv'
  BY DEF CrtcInv
<1>2. ~lost /\ ~late /\ ~Waits(a)
  BY <1>1, NotLate DEF RecordWrite
<1>3. PICK n \in Nat : n = Len(UnreadEvents)
  BY LengthIsUnread, UnreadType DEF HInv, TInv
<1>4. \A b \in Ports, i \in Nat : At(b, i)' <=> At(b, i) \/ (b = a /\ i = n + 1)
  BY <1>3, WriteMoves, PortsAreAddresses
<1>5. \A b \in Ports, i \in Nat : At(b, i) => i <= n
  <2>1. inflight = NoEvent
    BY DEF BusWrite
  <2>2. QED
    BY <1>3, <2>1, PortsAreAddresses, AddressAssumption DEF At
<1>6. \A b \in Ports : Once(b)' /\ (Waits(b)' <=> Waits(b) \/ b = a)
  BY <1>2, <1>4, <1>5 DEF CrtcInv, Once, Waits
<1>7. /\ address_reg' = address_reg /\ teletext_regs' = teletext_regs
      /\ _eb_memory' = [_eb_memory EXCEPT ![a] = value]
      /\ a \in DOMAIN _eb_memory
  BY DEF BusWrite, crtcVars, HInv, TInv, TypeOK
<1>8. CASE a = TELETEXT_CRTA
  <2>1. selected' = value /\ programmed' = programmed
    <3>1. a # TELETEXT_CRTB
      BY <1>8, AddressAssumption
    <3>2. QED
      BY <1>8, <3>1 DEF RecordWrite, HInv
  <2>2. /\ _eb_memory'[TELETEXT_CRTA] = value
        /\ _eb_memory'[TELETEXT_CRTB] = _eb_memory[TELETEXT_CRTB]
    BY <1>7, <1>8, AddressAssumption
  <2>3. ~Before(TELETEXT_CRTA, TELETEXT_CRTB)
    BY <1>2, <1>8 DEF Before, Waits
  <2>4. ~Before(TELETEXT_CRTA, TELETEXT_CRTB)'
    BY <1>2, <1>4, <1>5, <1>8, PortsAreAddresses, AddressAssumption
       DEF Before, Waits
  <2>5. Selects' = Selects
    BY <1>7, <2>3, <2>4 DEF Selects
  <2>6. Waits(TELETEXT_CRTA)' /\ (Waits(TELETEXT_CRTB)' <=> Waits(TELETEXT_CRTB))
    BY <1>6, <1>8, PortsAreAddresses, AddressAssumption
  <2>7. QED
    BY <1>2, <1>6, <1>7, <2>1, <2>2, <2>5, <2>6 DEF CrtcInv
<1>9. CASE a = TELETEXT_CRTB
  <2>1. /\ selected' = selected
        /\ programmed' = [r \in CrtcRegs |-> IF r = selected THEN value
                                             ELSE programmed[r]]
    <3>1. a # TELETEXT_CRTA
      BY <1>9, AddressAssumption
    <3>2. QED
      BY <1>9, <3>1 DEF RecordWrite
  <2>2. /\ _eb_memory'[TELETEXT_CRTB] = value
        /\ _eb_memory'[TELETEXT_CRTA] = _eb_memory[TELETEXT_CRTA]
    BY <1>7, <1>9, AddressAssumption, PortsAreAddresses DEF HInv, TInv, TypeOK
  <2>3. /\ programmed = teletext_regs
        /\ IF Waits(TELETEXT_CRTA) THEN _eb_memory[TELETEXT_CRTA] = selected
                                   ELSE address_reg = selected
    BY <1>2, <1>9 DEF CrtcInv
  <2>4. Waits(TELETEXT_CRTB)' /\ (Waits(TELETEXT_CRTA)' <=> Waits(TELETEXT_CRTA))
    BY <1>6, <1>9, PortsAreAddresses, AddressAssumption
  <2>5. Before(TELETEXT_CRTA, TELETEXT_CRTB)' <=> Waits(TELETEXT_CRTA)
    <3>1. \A i \in Nat : At(TELETEXT_CRTA, i)' <=> At(TELETEXT_CRTA, i)
      BY <1>4, <1>9, PortsAreAddresses, AddressAssumption
    <3>2. At(TELETEXT_CRTB, n + 1)' /\ n + 1 \in Nat
      BY <1>4, <1>9, PortsAreAddresses
    <3>3. \A i \in Nat : At(TELETEXT_CRTA, i) => i < n + 1
      BY <1>5, PortsAreAddresses
    <3>4. QED
      BY <3>1, <3>2, <3>3 DEF Before, Waits
  <2>6. Selects' = selected
    BY <1>7, <2>2, <2>3, <2>5 DEF Selects
  <2>7. QED
    BY <1>6, <1>7, <2>1, <2>2, <2>3, <2>4, <2>6 DEF CrtcInv
<1>10. CASE a \notin Ports
  <2>1. /\ selected' = selected /\ programmed' = programmed
        /\ _eb_memory'[TELETEXT_CRTA] = _eb_memory[TELETEXT_CRTA]
        /\ _eb_memory'[TELETEXT_CRTB] = _eb_memory[TELETEXT_CRTB]
    <3>1. a # TELETEXT_CRTA /\ a # TELETEXT_CRTB
      BY <1>10 DEF Ports
    <3>2. selected' = selected /\ programmed' = programmed
      BY <3>1 DEF RecordWrite, HInv
    <3>3. QED
      BY <1>7, <3>1, <3>2, PortsAreAddresses DEF HInv, TInv, TypeOK
  <2>2. \A b \in Ports, i \in Nat : At(b, i)' <=> At(b, i)
    BY <1>4, <1>10
  <2>3. Before(TELETEXT_CRTA, TELETEXT_CRTB)' <=> Before(TELETEXT_CRTA, TELETEXT_CRTB)
    BY <2>2, PortsAreAddresses DEF Before
  <2>4. Selects' = Selects
    BY <1>7, <2>1, <2>3 DEF Selects
  <2>5. \A b \in Ports : Waits(b)' <=> Waits(b)
    BY <2>2 DEF Waits
  <2>6. QED
    BY <1>2, <1>6, <1>7, <2>1, <2>4, <2>5, PortsAreAddresses DEF CrtcInv
<1>11. QED
  BY <1>8, <1>9, <1>10 DEF Ports

LEMMA RingCrtc ==
  ASSUME HInv, CrtcInv, TypeOK',
         (StoreEvent /\ RecordEvent) \/ (GetEvent /\ RecordFetch)
  PROVE  CrtcInv'
<1>1. /\ UNCHANGED <<_eb_memory, crtcVars, selected, programmed>>
      /\ lost => lost'
      /\ late => late'
  <2>1. CASE StoreEvent /\ RecordEvent
    BY <2>1 DEF StoreEvent, RecordEvent
  <2>2. CASE GetEvent /\ RecordFetch
    BY <2>2 DEF GetEvent, RecordFetch
  <2>3. QED
    BY <2>1, <2>2
<1>2. CASE StoreEvent /\ RecordEvent
  <2>1. SUFFICES ASSUME ~lost' PROVE CrtcInv'
    BY DEF CrtcInv
  <2>2. \A a \in Ports, i \in Nat : At(a, i)' <=> At(a, i)
    BY <1>2, <2>1, StoreMoves, PortsAreAddresses
  <2>3. \A a \in Ports : (Once(a) => Once(a)') /\ (Waits(a)' <=> Waits(a))
    BY <2>2 DEF Once, Waits
  <2>4. Before(TELETEXT_CRTA, TELETEXT_CRTB)' <=> Before(TELETEXT_CRTA, TELETEXT_CRTB)
    BY <2>2, PortsAreAddresses DEF Before
  <2>5. QED
    BY <1>1, <2>3, <2>4, MovesKeepCrtc
<1>3. CASE GetEvent /\ RecordFetch
  <2>1. \A a \in Ports : ~At(a, 0) /\ \A i \in Nat : At(a, i)' <=> At(a, i + 1)
    BY <1>3, GetMoves, PortsAreAddresses
  <2>2. \A a \in Ports, i \in Nat :
          At(a, i) => i # 0 /\ i - 1 \in Nat /\ i - 1 + 1 = i /\ At(a, i - 1)'
    <3> SUFFICES ASSUME NEW a \in Ports, NEW i \in Nat, At(a, i)
                 PROVE  i # 0 /\ i - 1 \in Nat /\ i - 1 + 1 = i /\ At(a, i - 1)'
      OBVIOUS
    <3>1. i # 0 /\ i - 1 \in Nat /\ i - 1 + 1 = i
      BY <2>1
    <3>2. At(a, i - 1)' <=> At(a, i - 1 + 1)
      BY <2>1, <3>1
    <3>3. QED
      BY <3>1, <3>2
  <2>3. \A a \in Ports : (Once(a) => Once(a)') /\ (Waits(a)' <=> Waits(a))
    <3> SUFFICES ASSUME NEW a \in Ports
                 PROVE  (Once(a) => Once(a)') /\ (Waits(a)' <=> Waits(a))
      OBVIOUS
    <3>1. ASSUME Once(a), NEW i \in Nat, NEW j \in Nat, At(a, i)', At(a, j)'
          PROVE  i = j
      BY <2>1, <3>1 DEF Once
    <3>2. QED
      BY <2>1, <2>2, <3>1 DEF Once, Waits
  <2>4. Before(TELETEXT_CRTA, TELETEXT_CRTB)' <=> Before(TELETEXT_CRTA, TELETEXT_CRTB)
    <3>1. ASSUME Before(TELETEXT_CRTA, TELETEXT_CRTB)'
          PROVE  Before(TELETEXT_CRTA, TELETEXT_CRTB)
      <4>1. PICK i \in Nat, j \in Nat :
              i < j /\ At(TELETEXT_CRTA, i)' /\ At(TELETEXT_CRTB, j)'
        BY <3>1 DEF Before
      <4>2. /\ i + 1 < j + 1 /\ i + 1 \in Nat /\ j + 1 \in Nat
            /\ At(TELETEXT_CRTA, i + 1) /\ At(TELETEXT_CRTB, j + 1)
        BY <2>1, <4>1, PortsAreAddresses
      <4>3. QED
        BY <4>2 DEF Before
    <3>2. ASSUME Before(TELETEXT_CRTA, TELETEXT_CRTB)
          PROVE  Before(TELETEXT_CRTA, TELETEXT_CRTB)'
      <4>1. PICK i \in Nat, j \in Nat :
              i < j /\ At(TELETEXT_CRTA, i) /\ At(TELETEXT_CRTB, j)
        BY <3>2 DEF Before
      <4>2. /\ i - 1 < j - 1 /\ i - 1 \in Nat /\ j - 1 \in Nat
            /\ At(TELETEXT_CRTA, i - 1)' /\ At(TELETEXT_CRTB, j - 1)'
        BY <2>2, <4>1, PortsAreAddresses
      <4>3. QED
        BY <4>2 DEF Before
    <3>3. QED
      BY <3>1, <3>2
  <2>5. QED
    BY <1>1, <2>3, <2>4, MovesKeepCrtc
<1>4. QED
  BY <1>2, <1>3

(* A port that is dispatched no longer waits. *)
LEMMA DispatchCrtc ==
  ASSUME HInv, CrtcInv, Dispatch, RecordDispatch
  PROVE  CrtcInv'
<1>1. SUFFICES ASSUME ~lost', ~late' PROVE CrtcInv'
  BY DEF CrtcInv
<1>2. /\ ~lost /\ ~late
      /\ _eb_memory' = _eb_memory
      /\ selected' = selected /\ programmed' = programmed
      /\ address \in Addresses
  BY <1>1 DEF Dispatch, RecordDispatch, HInv, TInv, TypeOK
<1>3. \A a \in Ports, i \in Nat : /\ At(a, i)' <=> At(a, i) /\ i # 0
                                  /\ At(a, 0) <=> a = address
  BY DispatchMoves, PortsAreAddresses
<1>4. \A a \in Ports : Once(a) /\ Once(a)'
  BY <1>2, <1>3 DEF CrtcInv, Once
<1>5. \A a \in Ports : a # address => (Waits(a)' <=> Waits(a))
  BY <1>3 DEF Waits
<1>6. \A a \in Ports : a = address => Waits(a) /\ ~Waits(a)'
  BY <1>3, <1>4 DEF Waits, Once
<1>7. CASE address = TELETEXT_CRTA
  <2>1. /\ address_reg' = _eb_memory[TELETEXT_CRTA]
        /\ teletext_regs' = teletext_regs
    BY <1>7, AddressAssumption
       DEF Dispatch, as_sid_write, teletext_reg_write, ui_post_event, Ignore, Ports
  <2>2. Waits(TELETEXT_CRTB)' <=> Waits(TELETEXT_CRTB)
    BY <1>5, <1>7, PortsAreAddresses, AddressAssumption
  <2>3. Waits(TELETEXT_CRTA) /\ ~Waits(TELETEXT_CRTA)'
    BY <1>6, <1>7, PortsAreAddresses
  <2>4. Waits(TELETEXT_CRTB) => Before(TELETEXT_CRTA, TELETEXT_CRTB)
    <3>1. At(TELETEXT_CRTA, 0) /\ ~At(TELETEXT_CRTB, 0)
      BY <1>3, <1>7, PortsAreAddresses, AddressAssumption
    <3>2. \A j \in Nat : At(TELETEXT_CRTB, j) => 0 < j
      BY <3>1
    <3>3. QED
      BY <3>1, <3>2 DEF Before, Waits
  <2>5. Waits(TELETEXT_CRTB) => Selects' = Selects
    BY <1>2, <2>1, <2>4 DEF Selects
  <2>6. address_reg' = selected
    BY <1>2, <2>1, <2>3 DEF CrtcInv
  <2>7. QED
    BY <1>2, <1>4, <2>1, <2>2, <2>3, <2>5, <2>6 DEF CrtcInv
<1>8. CASE address = TELETEXT_CRTB
  <2>1. /\ address_reg' = address_reg
        /\ teletext_regs' = [r \in CrtcRegs |->
                               IF r = address_reg /\ r \in Writable
                               THEN _eb_memory[TELETEXT_CRTB] ELSE teletext_regs[r]]
    BY <1>8, AddressAssumption
       DEF Dispatch, as_sid_write, teletext_reg_write, ui_post_event, Ignore, Ports
  <2>2. Waits(TELETEXT_CRTA)' <=> Waits(TELETEXT_CRTA)
    BY <1>5, <1>8, PortsAreAddresses, AddressAssumption
  <2>3. Waits(TELETEXT_CRTB) /\ ~Waits(TELETEXT_CRTB)'
    BY <1>6, <1>8, PortsAreAddresses
  <2>4. ~Before(TELETEXT_CRTA, TELETEXT_CRTB)
    <3>1. \A j \in Nat : At(TELETEXT_CRTB, j) => j = 0
      BY <1>3, <1>4, <1>8, PortsAreAddresses DEF Once
    <3>2. QED
      BY <3>1 DEF Before
  <2>5. Selects = address_reg
    BY <2>4 DEF Selects
  <2>6. programmed = [r \in CrtcRegs |-> IF r = Selects THEN _eb_memory[TELETEXT_CRTB]
                                         ELSE teletext_regs[r]]
    BY <1>2, <2>3 DEF CrtcInv
  <2>7. teletext_regs' = programmed
    BY <2>1, <2>5, <2>6 DEF Writable
  <2>8. QED
    BY <1>2, <1>4, <2>1, <2>2, <2>3, <2>7 DEF CrtcInv
<1>9. CASE address \notin Ports
  <2>1. UNCHANGED crtcVars
    BY <1>9 DEF Dispatch, as_sid_write, teletext_reg_write, ui_post_event, Ignore,
                queueVars, Ports
  <2>2. \A a \in Ports, i \in Nat : At(a, i)' <=> At(a, i)
    BY <1>3, <1>9
  <2>3. \A a \in Ports : (Once(a) => Once(a)') /\ (Waits(a)' <=> Waits(a))
    BY <2>2 DEF Once, Waits
  <2>4. Before(TELETEXT_CRTA, TELETEXT_CRTB)' <=> Before(TELETEXT_CRTA, TELETEXT_CRTB)
    BY <2>2, PortsAreAddresses DEF Before
  <2>5. QED
    BY <1>1, <1>2, <2>1, <2>3, <2>4, MovesKeepCrtc
<1>10. QED
  BY <1>7, <1>8, <1>9 DEF Ports

LEMMA OtherCrtc ==
  ASSUME HInv, CrtcInv,
         \/ as_reset /\ RecordReset
         \/ /\ \/ EnableInterrupt \/ AcknowledgePending
               \/ EnterHandler \/ FindEmpty
               \/ as_timer_callback \/ TakeUiEvent
            /\ RecordNothing
         \/ UNCHANGED hvars
  PROVE  CrtcInv'
<1>1. /\ UNCHANGED <<_eb_memory, crtcVars, selected, programmed>>
      /\ lost => lost'
      /\ late => late'
  <2>1. CASE as_reset /\ RecordReset
    BY <2>1 DEF as_reset, RecordReset
  <2>2. CASE /\ \/ EnableInterrupt \/ AcknowledgePending
                \/ EnterHandler \/ FindEmpty
                \/ as_timer_callback \/ TakeUiEvent
             /\ RecordNothing
    BY <2>2 DEF EnableInterrupt, AcknowledgePending, EnterHandler, FindEmpty,
                as_timer_callback, TakeUiEvent, RecordNothing, history
  <2>3. CASE UNCHANGED hvars
    BY <2>3 DEF hvars, history, vars
  <2>4. QED
    BY <2>1, <2>2, <2>3
<1>2. \A a, i : At(a, i)' <=> At(a, i)
  BY OthersMoveNothing DEF hvars
<1>3. \A a \in Ports : (Once(a) => Once(a)') /\ (Waits(a)' <=> Waits(a))
  BY <1>2 DEF Once, Waits
<1>4. Before(TELETEXT_CRTA, TELETEXT_CRTB)' <=> Before(TELETEXT_CRTA, TELETEXT_CRTB)
  BY <1>2 DEF Before
<1>5. QED
  BY <1>1, <1>3, <1>4, MovesKeepCrtc

LEMMA StepCrtc == HInv /\ HInv' /\ CrtcInv /\ [HNext]_hvars => CrtcInv'
<1> SUFFICES ASSUME HInv, TypeOK', CrtcInv, [HNext]_hvars PROVE CrtcInv'
  BY DEF HInv, TInv
<1>1. CASE \E a \in Addresses : \E value \in ValuesFor(a) :
             BusWrite(a, value) /\ RecordWrite(a, value)
  BY <1>1, WriteCrtc
<1>2. QED
  BY <1>1, RingCrtc, DispatchCrtc, OtherCrtc DEF HNext

(* Whatever the speed of the handler, if nothing was lost and every byte was
   dispatched before the next write to its port, the CRTC has what the 6502
   has programmed (teletext_reg_write). *)
THEOREM CrtcIsRight == HSpec => []CrtcAgrees
<1>1. HInv /\ CrtcInv => CrtcAgrees
  <2> SUFFICES ASSUME HInv, CrtcInv, Quiescent, ~lost, ~late
               PROVE  address_reg = selected /\ teletext_regs = programmed
    BY DEF CrtcAgrees
  <2>1. ~Waits(TELETEXT_CRTA) /\ ~Waits(TELETEXT_CRTB)
    BY NothingWaits, PortsAreAddresses
  <2>2. QED
    BY <2>1 DEF CrtcInv
<1>2. QED
  BY InitHistory, StepHistory, InitCrtc, StepCrtc, <1>1, PTL DEF HSpec
=============================================================================
