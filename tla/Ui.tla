--------------------------------- MODULE Ui ---------------------------------
(***************************************************************************)
(* The BREAK key and the capture button: debounced in the GPIO interrupt   *)
(* (handle_key and gpio_callback, main.c), passed on through ui_q, and     *)
(* acted upon by the main loop of core 1 (ui_run, ui.c), which a capture   *)
(* or the licence page holds up.                                           *)
(*                                                                         *)
(* A timeout is represented by the time that is left until it, in ticks;   *)
(* get_absolute_time() < timeout means that some time is left.             *)
(***************************************************************************)
EXTENDS PicoQueue, Console

CONSTANTS
  PIN_NRST, PIN_CAPTURE_BUTTON,
  DEBOUNCE_TIME,       \* ticks in which further changes of a key are ignored
  DOUBLE_CLICK_TIME,   \* ticks between two releases of a double click
  UI_Q_LENGTH,
  BounceTime,          \* the contacts may bounce for this long
  HoldTime             \* and then stay as they are until this long

Keys == {PIN_NRST, PIN_CAPTURE_BUTTON}

ASSUME TimeAssumption ==
  /\ PIN_NRST # PIN_CAPTURE_BUTTON
  /\ DEBOUNCE_TIME \in Nat /\ DOUBLE_CLICK_TIME \in Nat
  /\ UI_Q_LENGTH \in Nat
  /\ BounceTime \in Nat /\ HoldTime \in Nat
  /\ BounceTime < HoldTime

(* The debounce time outlasts the bouncing, and is over when a key may change
   again. *)
ASSUME BounceAssumption ==
  /\ 0 < BounceTime /\ BounceTime <= DEBOUNCE_TIME
  /\ DEBOUNCE_TIME + BounceTime <= HoldTime + 1

VARIABLES
  pin,               \* per key, its level: FALSE is down
  edge,              \* per key, a change of level not yet seen by gpio_callback
  previous_state,    \* per key, the level gpio_callback saw last
  debounce_left,     \* per key, time until debounce_timeout
  double_click_left, \* time until double_click_timeout
  ui_q,              \* events for the main loop
  main,              \* what the main loop is doing
  vga80,             \* COL80_ON is set: the 80 column screen is shown
  finger,            \* per key, the level the contacts settle at
  since,             \* per key, time since they started to move
  reported,          \* history: per key, the level of its last report
  release_age,       \* history: time since the last BREAK_KEY_UP
  release_gap        \* history: time between the last two BREAK_KEY_UPs

keyVars  == <<pin, edge, finger, since>>
mainVars == <<double_click_left, main>>
history  == <<reported, release_age, release_gap>>
vars == <<keyVars, previous_state, debounce_left, ui_q, mainVars, vga80,
          history>>

LongAgo == DOUBLE_CLICK_TIME + 1   \* bound: older releases are all alike

KeyEvents == {"BREAK_KEY_DOWN", "BREAK_KEY_UP",
              "CAPTURE_KEY_DOWN", "CAPTURE_KEY_UP"}

TypeOK ==
  /\ pin \in [Keys -> BOOLEAN]
  /\ edge \in [Keys -> BOOLEAN]
  /\ previous_state \in [Keys -> BOOLEAN]
  /\ debounce_left \in [Keys -> 0 .. DEBOUNCE_TIME]
  /\ double_click_left \in 0 .. DOUBLE_CLICK_TIME
  /\ ui_q \in Seq(KeyEvents \cup {"KEY_PRESS"}) /\ Len(ui_q) <= UI_Q_LENGTH
  /\ main \in {"ui_run", "capture", "opening", "display_licence"}
  /\ vga80 \in BOOLEAN
  /\ finger \in [Keys -> BOOLEAN]
  /\ since \in [Keys -> 0 .. HoldTime]
  /\ reported \in [Keys -> BOOLEAN]
  /\ release_age \in 0 .. LongAgo
  /\ release_gap \in 0 .. LongAgo

Init ==
  /\ pin = [k \in Keys |-> TRUE]
  /\ edge = [k \in Keys |-> FALSE]
  /\ previous_state = [k \in Keys |-> TRUE]
  /\ debounce_left = [k \in Keys |-> 0]
  /\ double_click_left = 0
  /\ ui_q = << >>
  /\ main = "ui_run"
  /\ vga80 = FALSE
  /\ finger = [k \in Keys |-> TRUE]
  /\ since = [k \in Keys |-> HoldTime]
  /\ reported = [k \in Keys |-> TRUE]
  /\ release_age = LongAgo
  /\ release_gap = LongAgo

-----------------------------------------------------------------------------
(* The contacts of a key change.  The first change after a time at rest
   starts a press or a release, which ends at the level it went to. *)
Resting(k) == since[k] = HoldTime

Change(k) ==
  /\ pin' = [pin EXCEPT ![k] = ~@]
  /\ edge' = [edge EXCEPT ![k] = TRUE]
  /\ IF Resting(k)
     THEN /\ finger' = [finger EXCEPT ![k] = ~pin[k]]
          /\ since' = [since EXCEPT ![k] = 0]
     ELSE UNCHANGED <<finger, since>>
  /\ UNCHANGED <<previous_state, debounce_left, ui_q, mainVars, vga80, history>>

(* A tick of the clock.  gpio_callback runs within a tick of the edge. *)
Less(time) == IF time = 0 THEN 0 ELSE time - 1

Tick ==
  /\ \A k \in Keys : ~edge[k]
  /\ debounce_left' = [k \in Keys |-> Less(debounce_left[k])]
  /\ double_click_left' = Less(double_click_left)
  /\ since' = [k \in Keys |-> IF Resting(k) THEN HoldTime ELSE since[k] + 1]
  /\ release_age' = IF release_age = LongAgo THEN LongAgo ELSE release_age + 1
  /\ UNCHANGED <<pin, edge, finger, previous_state, ui_q, main, vga80,
                 reported, release_gap>>

-----------------------------------------------------------------------------
(* gpio_callback. *)
Post(event) == ui_q' = TryAdd(ui_q, UI_Q_LENGTH, event)

(* Faulty variant: the 80 column screen not reset by BREAK. *)
ReportBreakOnly ==
  /\ Post(IF pin[PIN_NRST] THEN "BREAK_KEY_UP" ELSE "BREAK_KEY_DOWN")
  /\ UNCHANGED vga80

(* What the callback does with a report of handle_key; as_reset is in
   BusEvents. *)
ReportBreak ==
  IF pin[PIN_NRST] THEN Post("BREAK_KEY_UP") /\ UNCHANGED vga80
  ELSE Post("BREAK_KEY_DOWN") /\ vga80' = FALSE

ReportCapture ==
  /\ Post(IF pin[PIN_CAPTURE_BUTTON] THEN "CAPTURE_KEY_UP"
                                     ELSE "CAPTURE_KEY_DOWN")
  /\ UNCHANGED vga80

Record(k) ==
  /\ reported' = [reported EXCEPT ![k] = pin[k]]
  /\ IF k = PIN_NRST /\ pin[k]
     THEN release_gap' = release_age /\ release_age' = 0
     ELSE UNCHANGED <<release_gap, release_age>>

Report(k) == IF k = PIN_NRST THEN ReportBreak ELSE ReportCapture

(* handle_key remembers the level it has seen before it looks at the time:
   a change it ignores will not be looked at again. *)
Unchanged(k) ==
  /\ pin[k] = previous_state[k]
  /\ UNCHANGED <<previous_state, debounce_left, ui_q, vga80, history>>

Ignored(k) ==
  /\ pin[k] # previous_state[k]
  /\ debounce_left[k] > 0
  /\ previous_state' = [previous_state EXCEPT ![k] = pin[k]]
  /\ UNCHANGED <<debounce_left, ui_q, vga80, history>>

(* Faulty variants: the level reported not remembered; a report although the
   level has not changed. *)
ReportedForgotten(k) ==
  /\ pin[k] # previous_state[k]
  /\ debounce_left[k] = 0
  /\ debounce_left' = [debounce_left EXCEPT ![k] = DEBOUNCE_TIME]
  /\ Report(k)
  /\ Record(k)
  /\ UNCHANGED previous_state

ReportedAnyway(k) ==
  /\ debounce_left[k] = 0
  /\ previous_state' = [previous_state EXCEPT ![k] = pin[k]]
  /\ debounce_left' = [debounce_left EXCEPT ![k] = DEBOUNCE_TIME]
  /\ Report(k)
  /\ Record(k)

Reported(k) ==
  /\ pin[k] # previous_state[k]
  /\ debounce_left[k] = 0
  /\ previous_state' = [previous_state EXCEPT ![k] = pin[k]]
  /\ debounce_left' = [debounce_left EXCEPT ![k] = DEBOUNCE_TIME]
  /\ Report(k)
  /\ Record(k)

gpio_callback(k) ==
  /\ edge[k]
  /\ edge' = [edge EXCEPT ![k] = FALSE]
  /\ Unchanged(k) \/ Ignored(k) \/ Reported(k)
  /\ UNCHANGED <<pin, finger, since, mainVars>>

(* sid_event_handler posts an event for a 6502 write to 0x100 .. 0x11F. *)
KeyPress ==
  /\ Post("KEY_PRESS")
  /\ UNCHANGED <<keyVars, previous_state, debounce_left, mainVars, vga80, history>>

-----------------------------------------------------------------------------
(* ui_run takes the events in turn. *)
Take(event) ==
  /\ ui_q # << >>
  /\ Head(ui_q) = event
  /\ ui_q' = Tail(ui_q)

FirstClick ==
  /\ Take("BREAK_KEY_UP")
  /\ double_click_left = 0
  /\ double_click_left' = DOUBLE_CLICK_TIME
  /\ UNCHANGED main

(* (The faulty variant forgets to look at the time.) *)
AnyClick ==
  /\ Take("BREAK_KEY_UP")
  /\ main' = "opening"
  /\ UNCHANGED double_click_left

SecondClick ==
  /\ Take("BREAK_KEY_UP")
  /\ double_click_left > 0
  /\ main' = "opening"
  /\ UNCHANGED double_click_left

StartCapture ==
  /\ Take("CAPTURE_KEY_DOWN")
  /\ main' = "capture"
  /\ UNCHANGED double_click_left

Disregard ==
  /\ \/ Take("KEY_PRESS") \/ Take("BREAK_KEY_DOWN") \/ Take("CAPTURE_KEY_UP")
  /\ UNCHANGED mainVars

ui_run ==
  /\ main = "ui_run"
  /\ FirstClick \/ SecondClick \/ StartCapture \/ Disregard
  /\ UNCHANGED <<keyVars, previous_state, debounce_left, vga80, history>>

(* capture blocks the main loop for as long as the drive takes. *)
FinishCapture ==
  /\ main = "capture"
  /\ main' = "ui_run"
  /\ UNCHANGED <<keyVars, previous_state, debounce_left, ui_q,
                 double_click_left, vga80, history>>

(* display_licence switches to 80 columns and then takes the events itself,
   until BREAK is released. *)
OpenLicence ==
  /\ main = "opening"
  /\ vga80' = TRUE
  /\ main' = "display_licence"
  /\ UNCHANGED <<keyVars, previous_state, debounce_left, ui_q,
                 double_click_left, history>>

(* (The faulty variant waits for the other key.) *)
LeaveOnCapture == "CAPTURE_KEY_UP"
LeaveOn == "BREAK_KEY_UP"

CloseLicence ==
  /\ Take(LeaveOn)
  /\ main' = "ui_run"
  /\ double_click_left' = 0

KeepLicence ==
  /\ \E event \in (KeyEvents \cup {"KEY_PRESS"}) \ {LeaveOn} : Take(event)
  /\ UNCHANGED mainVars

display_licence ==
  /\ main = "display_licence"
  /\ CloseLicence \/ KeepLicence
  /\ UNCHANGED <<keyVars, previous_state, debounce_left, vga80, history>>

Main == ui_run \/ FinishCapture \/ OpenLicence \/ display_licence

Next ==
  \/ \E k \in Keys : Change(k) \/ gpio_callback(k)
  \/ KeyPress
  \/ Tick
  \/ Main

(* Keys that change at any time, and a main loop held up for any time. *)
Spec == Init /\ [][Next]_vars

-----------------------------------------------------------------------------
(* Assumption on the keys: a press or a release bounces for at most
   BounceTime, settles, and stays as it is until HoldTime. *)
KeyBehaves(k) ==
  /\ pin'[k] # pin[k] => since[k] < BounceTime \/ Resting(k)
  /\ since[k] < BounceTime /\ since'[k] = BounceTime => pin[k] = finger[k]

KeysBehave == \A k \in Keys : KeyBehaves(k)

(* Assumption on the main loop: it has handled every event before the next
   tick, so no capture lasts that long.  Assumption on the 6502: it does not
   flood the queue with key presses. *)
MainIsPrompt ==
  Tick => ui_q = << >> /\ main \in {"ui_run", "display_licence"}

QueueHasRoom == KeyPress => Len(ui_q) + 2 < UI_Q_LENGTH

PromptNext == Next /\ KeysBehave /\ MainIsPrompt /\ QueueHasRoom

PromptSpec == Init /\ [][PromptNext]_vars

(* Fairness: time passes, interrupts are taken, the main loop runs. *)
FairPromptSpec ==
  /\ PromptSpec
  /\ WF_vars(Tick /\ KeysBehave /\ MainIsPrompt)
  /\ \A k \in Keys : WF_vars(gpio_callback(k))
  /\ WF_vars(Main)

-----------------------------------------------------------------------------
(* A key that bounces for less than DEBOUNCE_TIME and is then held is always
   reported: when it is at rest, its last report is its level, so that no
   press or release is missed (handle_key). *)
RestingKeyReported ==
  \A k \in Keys : Resting(k) /\ ~edge[k] => reported[k] = pin[k]

(* And it is reported only once: presses and releases alternate. *)
ReportsAlternate ==
  [][\A k \in Keys : debounce_left'[k] > debounce_left[k]
                       => reported'[k] # reported[k]]_vars

(* If the main loop is not held up, the licence is shown only for two
   releases of BREAK within DOUBLE_CLICK_TIME: ui_run takes the time when it
   handles an event, not when the event was posted. *)
DoubleClickIsReal ==
  main = "opening" => release_gap <= DOUBLE_CLICK_TIME

(* When the main loop has no more to do, the licence page has gone from the
   screen: the BREAK that closes it also leaves the 80 column mode, and never
   before that mode is entered. *)
NormalScreenRestored ==
  main = "ui_run" /\ ui_q = << >> => ~vga80

Held(k)     == Resting(k) /\ ~pin[k]
Released(k) == Resting(k) /\ pin[k]

(* A user who keeps pressing and releasing BREAK gets rid of the licence. *)
LicenceEnds ==
  []<>Held(PIN_NRST) /\ []<>Released(PIN_NRST)
    => (main = "display_licence" ~> main = "ui_run")

(* While the licence is shown it can be read as it was written, and so could
   every short text in a small box: the box breaks its lines within its frame,
   on a screen with more rows than the cursor of mc6847_outc knows. *)
LicenceReadable == main = "display_licence" => BoxesReadable

(* "Debounce - ignore noise" (main.c): a key that has come to rest where it
   was before is not taken for a key that is held down. *)
NoiseIgnored ==
  \A k \in Keys :
    ~edge[k] /\ pin[k] /\ Resting(k) => reported[k]
=============================================================================
