----------------------------- MODULE VideoMode ------------------------------
(***************************************************************************)
(* The vertical timing of a video mode (videomode.h), and the segments a   *)
(* frame is cut into on its way to the monitor.                            *)
(***************************************************************************)
EXTENDS Integers

CONSTANTS
  MODE_V_FRONT_PORCH,   \* scanlines before vsync is asserted
  MODE_V_SYNC_WIDTH,    \* scanlines with vsync asserted
  MODE_V_BACK_PORCH,    \* scanlines between vsync and the picture
  MODE_V_ACTIVE_LINES   \* scanlines of the picture

(* The two channels are cued with two vsync_off lines before the first
   interrupt, so a front porch shorter than two lines would start with a
   malformed frame.  Every mode of videomode.h but 800x600 satisfies this. *)
ASSUME ModeAssumption ==
  /\ MODE_V_FRONT_PORCH \in Nat /\ MODE_V_FRONT_PORCH >= 2
  /\ MODE_V_SYNC_WIDTH \in Nat
  /\ MODE_V_BACK_PORCH \in Nat
  /\ MODE_V_ACTIVE_LINES \in Nat /\ MODE_V_ACTIVE_LINES >= 1

(* First scanline of the picture, and the number of scanlines of a frame. *)
FirstActive == MODE_V_FRONT_PORCH + MODE_V_SYNC_WIDTH + MODE_V_BACK_PORCH
MODE_V_TOTAL_LINES == FirstActive + MODE_V_ACTIVE_LINES

Scanlines == 0 .. MODE_V_TOTAL_LINES - 1

(* A segment is what one DMA transfer sends: a blanking line, the commands
   that open a line of the picture, or the pixels of that line. *)
Segment(kind, at) == [kind |-> kind, at |-> at]

Segments == [kind : {"vsync_on", "vsync_off", "commands", "pixels"},
             at   : Scanlines]
=============================================================================
