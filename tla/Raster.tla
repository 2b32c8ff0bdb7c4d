------------------------------- MODULE Raster -------------------------------
(***************************************************************************)
(* What the monitor is promised: an endless repetition of one frame, sent  *)
(* as segments in a fixed order.  A blanking scanline is one segment       *)
(* (vsync asserted or not), an active scanline is two: the HSTX command    *)
(* list that ends in the TMDS command, and then the pixels it announces.   *)
(*                                                                         *)
(* The module says nothing of channels, interrupts or rendering; Scanout   *)
(* is shown to implement it.                                               *)
(***************************************************************************)
EXTENDS VideoMode

VARIABLE beam   \* the segment being sent: its kind and its scanline

VsyncLines ==
  MODE_V_FRONT_PORCH .. MODE_V_FRONT_PORCH + MODE_V_SYNC_WIDTH - 1

(* The segment a scanline starts with. *)
Opening(at) ==
  Segment(IF at \in VsyncLines THEN "vsync_on"
          ELSE IF at < FirstActive THEN "vsync_off"
          ELSE "commands", at)

Following(at) == (at + 1) % MODE_V_TOTAL_LINES

(* The order of the segments of a frame: pixels follow their commands,
   anything else is followed by the opening of the next scanline. *)
Successor(segment) ==
  IF segment.kind = "commands"
  THEN Segment("pixels", segment.at)
  ELSE Opening(Following(segment.at))

Init == beam = Opening(0)

Next == beam' = Successor(beam)

Spec == Init /\ [][Next]_beam

(* With the channels running, no segment is the last one. *)
LiveSpec == Spec /\ WF_beam(Next)
=============================================================================
