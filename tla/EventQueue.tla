----------------------------- MODULE EventQueue -----------------------------
(***************************************************************************)
(* What the bus interface promises its interrupt handler: the addresses    *)
(* the 6502 writes to are queued in order, each call of eb_get_event       *)
(* returns the oldest one, and NoEvent when there is none.                 *)
(***************************************************************************)
EXTENDS Sequences

CONSTANTS Addresses, NoEvent

VARIABLES
  queue,    \* the addresses written and not yet returned, oldest first
  address   \* the result of the last call

Init == queue = << >> /\ address = NoEvent

Put ==
  /\ \E a \in Addresses : queue' = Append(queue, a)
  /\ UNCHANGED address

Get ==
  /\ queue # << >>
  /\ address' = Head(queue)
  /\ queue' = Tail(queue)

FindEmpty ==
  /\ queue = << >>
  /\ address' = NoEvent
  /\ UNCHANGED queue

Next == Put \/ Get \/ FindEmpty

Spec == Init /\ [][Next]_<<queue, address>>
=============================================================================
