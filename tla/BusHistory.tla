----------------------------- MODULE BusHistory -----------------------------
(***************************************************************************)
(* BusEvents with history variables: what the 6502 wrote and what the      *)
(* firmware was asked to do, to be compared with where the devices end up. *)
(***************************************************************************)
EXTENDS BusEvents

CONSTANT MaxUnread   \* bound: events stored and not fetched

VARIABLES
  unread,      \* events stored and not fetched
  late,        \* a byte was overwritten before its event was dispatched
  lost,        \* an element found a queue full, or the ring was lapped
  fresh,       \* SID registers written since the last reset
  silenced,    \* as_reset was called after the last as_sid_write
  selected,    \* the CRTC register the 6502 has selected
  programmed   \* the CRTC registers as the 6502 has written them

history == <<unread, late, lost, fresh, silenced, selected, programmed>>
hvars   == <<vars, history>>

HInit ==
  /\ Init
  /\ unread = 0
  /\ late = FALSE
  /\ lost = FALSE
  /\ fresh = {}
  /\ silenced = FALSE
  /\ selected = 0
  /\ programmed = [r \in CrtcRegs |-> 0]

Unhandled ==
  {UnreadEvents[i] : i \in 1 .. Unread}
    \cup {b \in {address} : isr = "dispatch"}

RecordWrite(a, value) ==
  /\ late' = (late \/ setup # "on" \/ a \in Unhandled)
  /\ fresh' = fresh \cup ({a} \cap SidRegs)
  /\ selected' = IF a = TELETEXT_CRTA THEN value ELSE selected
  /\ programmed' = [r \in CrtcRegs |->
                      IF a = TELETEXT_CRTB /\ r = selected THEN value
                      ELSE programmed[r]]
  /\ UNCHANGED <<unread, lost, silenced>>

RecordEvent ==
  /\ unread < MaxUnread
  /\ unread' = unread + 1
  /\ lost' = (lost \/ unread + 1 = EB_EVENT_QUEUE_LEN)
  /\ UNCHANGED <<late, fresh, silenced, selected, programmed>>

RecordFetch ==
  /\ unread' = unread - 1
  /\ UNCHANGED <<late, lost, fresh, silenced, selected, programmed>>

RecordDispatch ==
  /\ lost' = (lost \/ /\ address \in SidRegs
                      /\ Len(as_q) = AS_Q_LENGTH)
  /\ silenced' = (silenced /\ address \notin SidRegs)
  /\ UNCHANGED <<late, unread, fresh, selected, programmed>>

RecordReset ==
  /\ lost' = (lost \/ Len(as_q) = AS_Q_LENGTH)
  /\ fresh' = {}
  /\ silenced' = TRUE
  /\ UNCHANGED <<late, unread, selected, programmed>>

RecordNothing == UNCHANGED history

HNext ==
  \/ \E a \in Addresses : \E value \in ValuesFor(a) :
       BusWrite(a, value) /\ RecordWrite(a, value)
  \/ StoreEvent /\ RecordEvent
  \/ GetEvent /\ RecordFetch
  \/ Dispatch /\ RecordDispatch
  \/ as_reset /\ RecordReset
  \/ /\ \/ EnableInterrupt \/ AcknowledgePending
        \/ EnterHandler \/ FindEmpty
        \/ as_timer_callback \/ TakeUiEvent
     /\ RecordNothing

HSpec == HInit /\ [][HNext]_hvars

-----------------------------------------------------------------------------
Quiescent ==
  /\ setup = "on"
  /\ inflight = NoEvent
  /\ out_ptr = in_ptr
  /\ isr = "idle"
  /\ as_q = << >>

(* Once core 1 has nothing left to do, and if nothing was dropped, the SID
   plays what the 6502 wrote last, however late the handler read the bytes
   and however writes and resets were interleaved; and a reset that no write
   followed has silenced it. *)
SidSettles ==
  Quiescent /\ ~lost =>
    /\ \A r \in fresh : sid[r] = _eb_memory[r]
    /\ silenced => \A r \in SidRegs : sid[r] = 0

(* The CRTC's registers are the ones the 6502 has programmed, if every byte
   was dispatched before the next write to the same port.  The two ports make
   sense only as pairs, and the handler reads both bytes late: otherwise a
   value can end up in the register selected after it. *)
CrtcAgrees ==
  Quiescent /\ ~lost /\ ~late =>
    address_reg = selected /\ teletext_regs = programmed

(* atom_sid.h on as_reset: "reset the SID - so it stops making a noise". *)
ResetSilences ==
  silenced /\ as_q = << >> => \A r \in SidRegs : sid[r] = 0
=============================================================================
