------------------------------ MODULE UiProofs ------------------------------
(***************************************************************************)
(* Proofs about Ui: debouncing, for every debounce time and every way of   *)
(* bouncing that is shorter, whatever else goes on; and, with a main loop  *)
(* that is not held up, the 80 column screen and the double click.  At the *)
(* end, the message box: every text whose lines fit into it can be read    *)
(* (TextIsReadable), and the licence fits.                                 *)
(***************************************************************************)
EXTENDS Ui, SequenceTheorems, WellFoundedInduction, TLAPS

(* What the proofs need of the types. *)
KeyTypeOK ==
  /\ pin \in [Keys -> BOOLEAN]
  /\ edge \in [Keys -> BOOLEAN]
  /\ finger \in [Keys -> BOOLEAN]
  /\ since \in [Keys -> 0 .. HoldTime]
  /\ previous_state \in [Keys -> BOOLEAN]
  /\ debounce_left \in [Keys -> 0 .. DEBOUNCE_TIME]
  /\ reported \in [Keys -> BOOLEAN]

(* A key moves, and handle_key has not yet seen it anywhere but where it
   came from. *)
Pending(k) ==
  /\ since[k] < BounceTime
  /\ previous_state[k] = ~finger[k]
  /\ reported[k] = ~finger[k]
  /\ debounce_left[k] = 0

(* The level it goes to has been reported: the debounce time has begun with
   the movement or later. *)
Done(k) ==
  /\ reported[k] = finger[k]
  /\ debounce_left[k] + since[k] >= DEBOUNCE_TIME

KeyInv(k) ==
  /\ ~edge[k] => previous_state[k] = pin[k]
  /\ since[k] >= BounceTime => ~edge[k] /\ pin[k] = finger[k]
  /\ debounce_left[k] > 0 =>
       debounce_left[k] + since[k] <= DEBOUNCE_TIME + BounceTime - 1
  /\ Pending(k) \/ Done(k)

IInv == KeyTypeOK /\ \A k \in Keys : KeyInv(k)

LEMMA Times ==
  /\ BounceTime \in Nat /\ DEBOUNCE_TIME \in Nat /\ HoldTime \in Nat
  /\ 0 < BounceTime /\ BounceTime <= DEBOUNCE_TIME
  /\ BounceTime < HoldTime
  /\ DEBOUNCE_TIME + BounceTime <= HoldTime + 1
  BY TimeAssumption, BounceAssumption

LEMMA InitInv == Init => IInv
<1> SUFFICES ASSUME Init PROVE IInv
  OBVIOUS
<1>1. KeyTypeOK
  BY Times DEF Init, KeyTypeOK
<1>2. ASSUME NEW k \in Keys PROVE KeyInv(k)
  BY Times DEF Init, KeyInv, Done
<1>3. QED
  BY <1>1, <1>2 DEF IInv

-----------------------------------------------------------------------------
(* The contact of a key changes: at rest, which starts a movement, or while it
   bounces. *)
LEMMA ChangeStep ==
  ASSUME IInv, KeysBehave, NEW j \in Keys, Change(j)
  PROVE  IInv'
<1>1. KeyTypeOK'
  <2>1. pin' \in [Keys -> BOOLEAN] /\ edge' \in [Keys -> BOOLEAN]
    BY DEF IInv, KeyTypeOK, Change
  <2>2. finger' \in [Keys -> BOOLEAN]
    BY DEF IInv, KeyTypeOK, Change
  <2>3. since' \in [Keys -> 0 .. HoldTime]
    BY Times DEF IInv, KeyTypeOK, Change
  <2>4. QED
    BY <2>1, <2>2, <2>3 DEF IInv, KeyTypeOK, Change, history
<1>2. ASSUME NEW k \in Keys, k # j PROVE KeyInv(k)'
  BY <1>2 DEF IInv, KeyTypeOK, KeyInv, Pending, Done, Change, Resting, history
<1>3. KeyInv(j)'
  <2>1. KeyInv(j)
    BY DEF IInv
  <2>2. pin'[j] = ~pin[j] /\ pin'[j] # pin[j] /\ edge'[j]
    BY DEF IInv, KeyTypeOK, Change
  <2>3. /\ previous_state' = previous_state /\ debounce_left' = debounce_left
        /\ reported' = reported
    BY DEF Change, history
  <2>4. CASE Resting(j)
    <3>1. debounce_left[j] = 0 /\ ~Pending(j)
      BY <2>1, <2>4, Times
         DEF IInv, KeyTypeOK, KeyInv, Resting, Pending
    <3>2. previous_state[j] = pin[j] /\ reported[j] = pin[j]
      BY <2>1, <2>4, <3>1, Times DEF KeyInv, Resting, Done
    <3>3. finger'[j] = ~pin[j] /\ since'[j] = 0
      BY <2>4 DEF IInv, KeyTypeOK, Change
    <3>4. Pending(j)'
      BY <2>3, <3>1, <3>2, <3>3, Times DEF IInv, KeyTypeOK, Pending
    <3>5. QED
      BY <2>2, <2>3, <3>1, <3>3, <3>4, Times DEF KeyInv
  <2>5. CASE ~Resting(j)
    <3>1. finger' = finger /\ since' = since
      BY <2>5 DEF Change
    <3>2. since[j] < BounceTime
      BY <2>2, <2>5 DEF KeysBehave, KeyBehaves
    <3>3. QED
      BY <2>1, <2>2, <2>3, <3>1, <3>2, Times
         DEF IInv, KeyTypeOK, KeyInv, Pending, Done
  <2>6. QED
    BY <2>4, <2>5
<1>4. QED
  BY <1>1, <1>2, <1>3 DEF IInv

(* handle_key: a level is reported only if it is the one the key goes to, for
   the first time. *)
LEMMA ReportIsNew ==
  ASSUME IInv, NEW k \in Keys, edge[k], Reported(k)
  PROVE  Pending(k) /\ pin[k] = finger[k]
  BY Times DEF IInv, KeyTypeOK, KeyInv, Pending, Done, Reported

LEMMA CallbackStep ==
  ASSUME IInv, NEW j \in Keys, gpio_callback(j)
  PROVE  IInv'
<1>1. /\ edge[j] /\ edge' = [edge EXCEPT ![j] = FALSE]
      /\ pin' = pin /\ finger' = finger /\ since' = since
  BY DEF gpio_callback
<1>2. KeyInv(j)
  BY DEF IInv
<1>3. CASE Unchanged(j)
  BY <1>1, <1>3
     DEF IInv, KeyTypeOK, KeyInv, Pending, Done, Unchanged, history
<1>4. CASE Ignored(j)
  BY <1>1, <1>2, <1>4, Times
     DEF IInv, KeyTypeOK, KeyInv, Pending, Done, Ignored, history
<1>5. CASE Reported(j)
  <2>1. Pending(j) /\ pin[j] = finger[j]
    BY <1>1, <1>5, ReportIsNew
  <2>2. /\ previous_state' = [previous_state EXCEPT ![j] = pin[j]]
        /\ debounce_left' = [debounce_left EXCEPT ![j] = DEBOUNCE_TIME]
        /\ reported' = [reported EXCEPT ![j] = pin[j]]
    BY <1>5 DEF Reported, Record
  <2>3. QED
    BY <1>1, <1>2, <2>1, <2>2, Times
       DEF IInv, KeyTypeOK, KeyInv, Pending, Done
<1>6. QED
  BY <1>3, <1>4, <1>5 DEF gpio_callback

(* A tick: a movement that ends has been reported, and a debounce time does
   not outlast it. *)
LEMMA TickStep ==
  ASSUME IInv, KeysBehave, Tick
  PROVE  IInv'
<1>1. /\ pin' = pin /\ edge' = edge /\ finger' = finger
      /\ previous_state' = previous_state /\ reported' = reported
  BY DEF Tick
<1>2. KeyTypeOK'
  BY <1>1, Times DEF IInv, KeyTypeOK, Tick, Less, Resting
<1>3. ASSUME NEW k \in Keys PROVE KeyInv(k)'
  <2>1. KeyInv(k) /\ ~edge[k] /\ KeyBehaves(k)
    BY DEF IInv, Tick, KeysBehave
  <2>2. /\ since[k] \in 0 .. HoldTime /\ debounce_left[k] \in 0 .. DEBOUNCE_TIME
        /\ pin[k] \in BOOLEAN /\ finger[k] \in BOOLEAN
    BY DEF IInv, KeyTypeOK
  <2>3. /\ since'[k] = IF since[k] = HoldTime THEN HoldTime ELSE since[k] + 1
        /\ debounce_left'[k] = IF debounce_left[k] = 0 THEN 0
                               ELSE debounce_left[k] - 1
    BY DEF Tick, Less, Resting
  <2>4. CASE since[k] = HoldTime
    BY <1>1, <2>1, <2>2, <2>3, <2>4, Times DEF KeyInv, Pending, Done
  <2>5. CASE since[k] # HoldTime
    <3>1. since'[k] = BounceTime => pin[k] = finger[k]
      BY <2>1, <2>2, <2>3, <2>5 DEF KeyBehaves
    <3>2. CASE Pending(k)
      <4>1. since'[k] # BounceTime
        BY <2>1, <2>2, <3>1, <3>2 DEF KeyInv, Pending
      <4>2. QED
        BY <1>1, <2>1, <2>2, <2>3, <2>5, <3>2, <4>1, Times DEF KeyInv, Pending
    <3>3. CASE Done(k)
      BY <1>1, <2>1, <2>2, <2>3, <2>5, <3>1, <3>3, Times DEF KeyInv, Done
    <3>4. QED
      BY <2>1, <3>2, <3>3 DEF KeyInv
  <2>6. QED
    BY <2>4, <2>5
<1>4. QED
  BY <1>2, <1>3 DEF IInv

LEMMA OtherStep ==
  ASSUME IInv, KeyPress \/ Main \/ UNCHANGED vars
  PROVE  IInv'
<1>1. /\ pin' = pin /\ edge' = edge /\ finger' = finger /\ since' = since
      /\ previous_state' = previous_state /\ debounce_left' = debounce_left
      /\ reported' = reported
  BY DEF KeyPress, Main, ui_run, FinishCapture, OpenLicence, display_licence,
         vars, keyVars, history
<1>2. QED
  BY <1>1 DEF IInv, KeyTypeOK, KeyInv, Pending, Done

LEMMA StepInv == IInv /\ [PromptNext]_vars => IInv'
  BY ChangeStep, CallbackStep, TickStep, OtherStep DEF PromptNext, Next

-----------------------------------------------------------------------------
(* Every press and every release of a key that bounces for less than the
   debounce time is reported (handle_key). *)
THEOREM PressesReported == PromptSpec => []RestingKeyReported
<1>1. IInv => RestingKeyReported
  BY Times DEF IInv, KeyTypeOK, KeyInv, Pending, Done, RestingKeyReported, Resting
<1>2. QED
  BY InitInv, StepInv, <1>1, PTL DEF PromptSpec

(* None is reported twice: a report is always of another level than the one
   before (handle_key). *)
THEOREM ReportsAreNew == PromptSpec => ReportsAlternate
<1>1. ASSUME IInv, [PromptNext]_vars
      PROVE  [\A k \in Keys : debounce_left'[k] > debounce_left[k]
                                => reported'[k] # reported[k]]_vars
  <2> SUFFICES ASSUME NEW k \in Keys, debounce_left'[k] > debounce_left[k],
                      PromptNext
               PROVE  reported'[k] # reported[k]
    BY <1>1
  <2>1. debounce_left[k] \in 0 .. DEBOUNCE_TIME
    BY <1>1 DEF IInv, KeyTypeOK
  <2>2. debounce_left' # debounce_left
    BY <2>1
  <2>3. ~Tick
    <3> SUFFICES ASSUME Tick PROVE FALSE
      OBVIOUS
    <3>1. debounce_left'[k] = IF debounce_left[k] = 0 THEN 0
                              ELSE debounce_left[k] - 1
      BY DEF Tick, Less
    <3>2. QED
      BY <2>1, <3>1
  <2>4. PICK j \in Keys : edge[j] /\ Reported(j)
    BY <2>2, <2>3
       DEF PromptNext, Next, Change, gpio_callback, Unchanged, Ignored,
           KeyPress, Main, ui_run, FinishCapture, OpenLicence, display_licence
  <2>5. j = k
    BY <1>1, <2>1, <2>4 DEF IInv, KeyTypeOK, Reported
  <2>6. Pending(k) /\ pin[k] = finger[k] /\ reported' = [reported EXCEPT ![k] = pin[k]]
    BY <1>1, <2>4, <2>5, ReportIsNew DEF Reported, Record
  <2>7. QED
    BY <1>1, <2>6 DEF IInv, KeyTypeOK, Pending
<1>2. QED
  BY InitInv, StepInv, <1>1, PTL DEF PromptSpec, ReportsAlternate

-----------------------------------------------------------------------------
(* The prompt.  While the main loop keeps up, an event of BREAK is handled in
   the tick in which it is posted, and debouncing lets no second one come. *)
Events == KeyEvents \cup {"KEY_PRESS"}

Breaks == {"BREAK_KEY_DOWN", "BREAK_KEY_UP"}

Waiting(event) == \E i \in 1 .. Len(ui_q) : ui_q[i] = event

BreakWaiting == \E i \in 1 .. Len(ui_q) : ui_q[i] \in Breaks

PromptTypeOK ==
  /\ ui_q \in Seq(Events)
  /\ vga80 \in BOOLEAN
  /\ double_click_left \in 0 .. DOUBLE_CLICK_TIME
  /\ release_age \in 0 .. LongAgo
  /\ release_gap \in 0 .. LongAgo

JustReported == debounce_left[PIN_NRST] = DEBOUNCE_TIME

OneBreak ==
  /\ BreakWaiting => JustReported /\ main # "opening"
  /\ \A i, j \in 1 .. Len(ui_q) : ui_q[i] \in Breaks /\ ui_q[j] \in Breaks => i = j
  /\ Waiting("BREAK_KEY_UP") => reported[PIN_NRST]

ScreenInv ==
  /\ main = "opening" => JustReported /\ reported[PIN_NRST]
  /\ vga80 => /\ main = "display_licence" /\ reported[PIN_NRST]
              /\ ~Waiting("BREAK_KEY_UP")

(* What is left of the time for a double click began with a release, and no
   later one is older. *)
ClickInv ==
  /\ double_click_left > 0 => double_click_left + release_age <= DOUBLE_CLICK_TIME
  /\ Waiting("BREAK_KEY_UP") =>
       /\ release_age = 0
       /\ double_click_left > 0 => release_gap <= DOUBLE_CLICK_TIME
  /\ main = "opening" => release_gap <= DOUBLE_CLICK_TIME

PromptInv == PromptTypeOK /\ OneBreak /\ ScreenInv /\ ClickInv

LEMMA ClickTimes == DOUBLE_CLICK_TIME \in Nat /\ LongAgo = DOUBLE_CLICK_TIME + 1
  BY TimeAssumption DEF LongAgo

LEMMA InitPrompt == Init => PromptInv
<1> SUFFICES ASSUME Init PROVE PromptInv
  OBVIOUS
<1>1. ui_q = << >> /\ main = "ui_run" /\ vga80 = FALSE /\ double_click_left = 0
      /\ release_age = LongAgo /\ release_gap = LongAgo
  BY DEF Init
<1>2. ui_q \in Seq(Events) /\ Len(ui_q) = 0
  BY <1>1
<1>3. ~Waiting("BREAK_KEY_UP") /\ ~BreakWaiting
  BY <1>2 DEF Waiting, BreakWaiting
<1>4. PromptTypeOK
  <2>1. vga80 \in BOOLEAN
    BY <1>1
  <2>2. /\ double_click_left \in 0 .. DOUBLE_CLICK_TIME
        /\ release_age \in 0 .. LongAgo /\ release_gap \in 0 .. LongAgo
    BY <1>1, ClickTimes
  <2>3. QED
    BY <1>2, <2>1, <2>2 DEF PromptTypeOK
<1>5. OneBreak /\ ScreenInv /\ ClickInv
  BY <1>1, <1>2, <1>3 DEF OneBreak, ScreenInv, ClickInv
<1>6. QED
  BY <1>4, <1>5 DEF PromptInv

(* The queue with an event more, or the same if it was full. *)
LEMMA Posted ==
  ASSUME ui_q \in Seq(Events), NEW event \in Events, Post(event)
  PROVE  /\ ui_q' \in Seq(Events)
         /\ BreakWaiting' => BreakWaiting \/ event \in Breaks
         /\ \A e : Waiting(e)' => Waiting(e) \/ e = event
         /\ (\A i, j \in 1 .. Len(ui_q) : ui_q[i] \in Breaks /\ ui_q[j] \in Breaks => i = j)
              /\ ~(BreakWaiting /\ event \in Breaks)
            => \A i, j \in 1 .. Len(ui_q') : ui_q'[i] \in Breaks /\ ui_q'[j] \in Breaks => i = j
<1>1. CASE ui_q' = ui_q
  BY <1>1 DEF BreakWaiting, Waiting
<1>2. CASE ui_q' = Append(ui_q, event)
  <2>1. /\ ui_q' \in Seq(Events) /\ Len(ui_q) \in Nat /\ Len(ui_q') = Len(ui_q) + 1
        /\ \A i \in 1 .. Len(ui_q) : ui_q'[i] = ui_q[i]
        /\ ui_q'[Len(ui_q) + 1] = event
    BY <1>2, AppendProperties, LenProperties
  <2>2. \A i \in 1 .. Len(ui_q') : i \in 1 .. Len(ui_q) \/ i = Len(ui_q) + 1
    BY <2>1
  <2>3. BreakWaiting' => BreakWaiting \/ event \in Breaks
    BY <2>1, <2>2 DEF BreakWaiting
  <2>4. \A e : Waiting(e)' => Waiting(e) \/ e = event
    BY <2>1, <2>2 DEF Waiting
  <2>5. ASSUME \A i, j \in 1 .. Len(ui_q) : ui_q[i] \in Breaks /\ ui_q[j] \in Breaks => i = j,
               ~(BreakWaiting /\ event \in Breaks)
        PROVE  \A i, j \in 1 .. Len(ui_q') : ui_q'[i] \in Breaks /\ ui_q'[j] \in Breaks => i = j
    BY <2>1, <2>2, <2>5 DEF BreakWaiting
  <2>6. QED
    BY <2>1, <2>3, <2>4, <2>5
<1>3. QED
  BY <1>1, <1>2 DEF Post, TryAdd

LEMMA Taken ==
  ASSUME ui_q \in Seq(Events), NEW event, Take(event)
  PROVE  /\ ui_q' \in Seq(Events)
         /\ Waiting(event)
         /\ event \in Breaks => BreakWaiting
         /\ BreakWaiting' => BreakWaiting
         /\ \A e : Waiting(e)' => Waiting(e)
         /\ (\A i, j \in 1 .. Len(ui_q) : ui_q[i] \in Breaks /\ ui_q[j] \in Breaks => i = j)
            => /\ \A i, j \in 1 .. Len(ui_q') : ui_q'[i] \in Breaks /\ ui_q'[j] \in Breaks => i = j
               /\ event \in Breaks => ~BreakWaiting'
<1>1. ui_q # << >> /\ Head(ui_q) = event /\ ui_q' = Tail(ui_q)
  BY DEF Take
<1>2. Len(ui_q) \in Nat /\ Len(ui_q) >= 1
  BY <1>1, EmptySeq, LenProperties
<1>3. /\ ui_q' \in Seq(Events) /\ Len(ui_q') = Len(ui_q) - 1 /\ ui_q[1] = event
      /\ \A i \in 1 .. Len(ui_q') : ui_q'[i] = ui_q[i + 1]
  BY <1>1, <1>2, HeadTailProperties
<1>4. 1 \in 1 .. Len(ui_q) /\ \A i \in 1 .. Len(ui_q') : i + 1 \in 1 .. Len(ui_q) /\ i + 1 # 1
  BY <1>2, <1>3
<1>5. Waiting(event) /\ (event \in Breaks => BreakWaiting)
  BY <1>3, <1>4 DEF Waiting, BreakWaiting
<1>6. (BreakWaiting' => BreakWaiting) /\ \A e : Waiting(e)' => Waiting(e)
  BY <1>3, <1>4 DEF Waiting, BreakWaiting
<1>7. ASSUME \A i, j \in 1 .. Len(ui_q) : ui_q[i] \in Breaks /\ ui_q[j] \in Breaks => i = j
      PROVE  /\ \A i, j \in 1 .. Len(ui_q') : ui_q'[i] \in Breaks /\ ui_q'[j] \in Breaks => i = j
             /\ event \in Breaks => ~BreakWaiting'
  <2>1. ASSUME NEW i \in 1 .. Len(ui_q'), NEW j \in 1 .. Len(ui_q'),
               ui_q'[i] \in Breaks, ui_q'[j] \in Breaks
        PROVE  i = j
    <3>1. i + 1 = j + 1
      BY <1>3, <1>4, <1>7, <2>1
    <3>2. QED
      BY <3>1
  <2>2. ASSUME event \in Breaks, NEW i \in 1 .. Len(ui_q'), ui_q'[i] \in Breaks
        PROVE  FALSE
    BY <1>3, <1>4, <1>7, <2>2
  <2>3. QED
    BY <2>1, <2>2 DEF BreakWaiting
<1>8. QED
  BY <1>3, <1>5, <1>6, <1>7

(* Steps that leave the queue alone. *)
LEMMA QueueKept ==
  ASSUME ui_q' = ui_q
  PROVE  (BreakWaiting' <=> BreakWaiting) /\ \A e : Waiting(e)' <=> Waiting(e)
  BY DEF BreakWaiting, Waiting

LEMMA PromptChange ==
  ASSUME PromptInv, NEW k \in Keys, Change(k)
  PROVE  PromptInv'
<1>1. UNCHANGED <<ui_q, vga80, main, double_click_left, debounce_left, reported,
                  release_age, release_gap>>
  BY DEF Change, mainVars, history
<1>2. QED
  BY <1>1, QueueKept
     DEF PromptInv, PromptTypeOK, OneBreak, ScreenInv, ClickInv, JustReported

LEMMA PromptTick ==
  ASSUME IInv, PromptInv, Tick, MainIsPrompt
  PROVE  PromptInv'
<1>1. /\ ui_q = << >> /\ ui_q' = << >> /\ main' # "opening"
      /\ UNCHANGED <<vga80, main, reported, release_gap>>
  BY DEF Tick, MainIsPrompt
<1>2. ui_q' \in Seq(Events) /\ ~Waiting("BREAK_KEY_UP")' /\ ~BreakWaiting'
  <2>1. Len(ui_q') = 0
    BY <1>1
  <2>2. QED
    BY <1>1, <2>1 DEF Waiting, BreakWaiting
<1>3. /\ double_click_left' = IF double_click_left = 0 THEN 0 ELSE double_click_left - 1
      /\ release_age' = IF release_age = LongAgo THEN LongAgo ELSE release_age + 1
  BY DEF Tick, Less
<1>4. PromptTypeOK'
  BY <1>1, <1>2, <1>3, ClickTimes DEF PromptInv, PromptTypeOK
<1>5. OneBreak'
  <2>1. Len(ui_q') = 0
    BY <1>1
  <2>2. QED
    BY <1>2, <2>1 DEF OneBreak
<1>6. ScreenInv'
  BY <1>1, <1>2 DEF PromptInv, ScreenInv
<1>7. ClickInv'
  BY <1>1, <1>2, <1>3, ClickTimes DEF PromptInv, PromptTypeOK, ClickInv
<1>8. QED
  BY <1>4, <1>5, <1>6, <1>7 DEF PromptInv

LEMMA PromptKeyPress ==
  ASSUME PromptInv, KeyPress
  PROVE  PromptInv'
<1>1. /\ Post("KEY_PRESS") /\ "KEY_PRESS" \in Events /\ "KEY_PRESS" \notin Breaks
      /\ UNCHANGED <<vga80, main, double_click_left, debounce_left, reported,
                     release_age, release_gap>>
  BY DEF KeyPress, mainVars, history, Events, Breaks
<1>2. /\ ui_q' \in Seq(Events)
      /\ BreakWaiting' => BreakWaiting
      /\ Waiting("BREAK_KEY_UP")' => Waiting("BREAK_KEY_UP")
      /\ \A i, j \in 1 .. Len(ui_q') : ui_q'[i] \in Breaks /\ ui_q'[j] \in Breaks => i = j
  BY <1>1, Posted DEF PromptInv, PromptTypeOK, OneBreak
<1>3. QED
  BY <1>1, <1>2
     DEF PromptInv, PromptTypeOK, OneBreak, ScreenInv, ClickInv, JustReported

(* gpio_callback.  BREAK is reported only if its debounce time is over, and
   then no earlier event of it is left. *)
LEMMA PromptReport ==
  ASSUME IInv, PromptInv, NEW k \in Keys, edge[k], Reported(k),
         UNCHANGED mainVars
  PROVE  PromptInv'
<1>1. /\ debounce_left[k] = 0 /\ Report(k) /\ Record(k)
      /\ debounce_left' = [debounce_left EXCEPT ![k] = DEBOUNCE_TIME]
      /\ reported' = [reported EXCEPT ![k] = pin[k]]
      /\ reported[k] = ~pin[k]
      /\ pin[k] \in BOOLEAN /\ k \in Keys
      /\ UNCHANGED <<main, double_click_left>>
  BY ReportIsNew DEF Reported, Record, Pending, IInv, KeyTypeOK, mainVars
<1>2. reported \in [Keys -> BOOLEAN] /\ debounce_left \in [Keys -> 0 .. DEBOUNCE_TIME]
  BY DEF IInv, KeyTypeOK
<1>3. CASE k # PIN_NRST
  <2>1. /\ UNCHANGED <<vga80, release_age, release_gap>>
        /\ debounce_left'[PIN_NRST] = debounce_left[PIN_NRST]
        /\ reported'[PIN_NRST] = reported[PIN_NRST]
    BY <1>1, <1>2, <1>3 DEF Report, ReportCapture, Record, Keys
  <2>2. PICK event \in Events \ Breaks : Post(event)
    BY <1>1, <1>3 DEF Report, ReportCapture, Events, KeyEvents, Breaks
  <2>3. /\ ui_q' \in Seq(Events)
        /\ BreakWaiting' => BreakWaiting
        /\ Waiting("BREAK_KEY_UP")' => Waiting("BREAK_KEY_UP")
        /\ \A i, j \in 1 .. Len(ui_q') : ui_q'[i] \in Breaks /\ ui_q'[j] \in Breaks => i = j
    BY <2>2, Posted DEF PromptInv, PromptTypeOK, OneBreak, Breaks
  <2>4. QED
    BY <1>1, <2>1, <2>3
       DEF PromptInv, PromptTypeOK, OneBreak, ScreenInv, ClickInv, JustReported
<1>4. CASE k = PIN_NRST
  <2>1. /\ ~BreakWaiting /\ ~Waiting("BREAK_KEY_UP") /\ main # "opening"
    <3>1. ~JustReported
      BY <1>1, <1>4, Times DEF JustReported
    <3>2. ~BreakWaiting /\ main # "opening"
      BY <3>1 DEF PromptInv, OneBreak, ScreenInv
    <3>3. QED
      BY <3>2 DEF BreakWaiting, Waiting, Breaks
  <2>2. JustReported' /\ main' # "opening"
    BY <1>1, <1>2, <1>4, <2>1 DEF JustReported
  <2>3. CASE pin[k]
    <3>1. /\ Post("BREAK_KEY_UP") /\ "BREAK_KEY_UP" \in Events /\ vga80' = vga80
          /\ release_gap' = release_age /\ release_age' = 0
      BY <1>1, <1>4, <2>3 DEF Report, ReportBreak, Record, Events, KeyEvents
    <3>2. /\ ui_q' \in Seq(Events)
          /\ \A i, j \in 1 .. Len(ui_q') : ui_q'[i] \in Breaks /\ ui_q'[j] \in Breaks => i = j
      BY <2>1, <3>1, Posted DEF PromptInv, PromptTypeOK, OneBreak
    <3>3. reported'[PIN_NRST] /\ ~vga80'
      <4>1. ~reported[PIN_NRST]
        BY <1>1, <1>4, <2>3
      <4>2. ~vga80
        BY <4>1, Zenon DEF PromptInv, ScreenInv
      <4>3. QED
        BY <1>1, <1>2, <1>4, <2>3, <3>1, <4>2
    <3>4. PromptTypeOK'
      BY <1>1, <3>1, <3>2, ClickTimes DEF PromptInv, PromptTypeOK
    <3>5. OneBreak' /\ ScreenInv'
      BY <2>2, <3>2, <3>3 DEF OneBreak, ScreenInv
    <3>6. ClickInv'
      BY <1>1, <2>2, <3>1, ClickTimes DEF PromptInv, PromptTypeOK, ClickInv
    <3>7. QED
      BY <3>4, <3>5, <3>6 DEF PromptInv
  <2>4. CASE ~pin[k]
    <3>1. /\ Post("BREAK_KEY_DOWN") /\ "BREAK_KEY_DOWN" \in Events /\ vga80' = FALSE
          /\ UNCHANGED <<release_gap, release_age>>
      BY <1>1, <1>4, <2>4 DEF Report, ReportBreak, Record, Events, KeyEvents
    <3>2. /\ ui_q' \in Seq(Events) /\ ~Waiting("BREAK_KEY_UP")'
          /\ \A i, j \in 1 .. Len(ui_q') : ui_q'[i] \in Breaks /\ ui_q'[j] \in Breaks => i = j
      BY <2>1, <3>1, Posted DEF PromptInv, PromptTypeOK, OneBreak
    <3>3. PromptTypeOK'
      BY <1>1, <3>1, <3>2 DEF PromptInv, PromptTypeOK
    <3>4. OneBreak' /\ ScreenInv'
      BY <2>2, <3>1, <3>2 DEF OneBreak, ScreenInv
    <3>5. ClickInv'
      BY <1>1, <2>2, <3>1, <3>2 DEF PromptInv, ClickInv
    <3>6. QED
      BY <3>3, <3>4, <3>5 DEF PromptInv
  <2>5. QED
    BY <2>3, <2>4
<1>5. QED
  BY <1>3, <1>4

LEMMA PromptCallback ==
  ASSUME IInv, PromptInv, NEW k \in Keys, gpio_callback(k)
  PROVE  PromptInv'
<1>1. CASE Reported(k)
  BY <1>1, PromptReport DEF gpio_callback
<1>2. CASE Unchanged(k) \/ Ignored(k)
  <2>1. UNCHANGED <<ui_q, vga80, main, double_click_left, debounce_left, reported,
                    release_age, release_gap>>
    BY <1>2 DEF gpio_callback, Unchanged, Ignored, mainVars, history
  <2>2. QED
    BY <2>1, QueueKept
       DEF PromptInv, PromptTypeOK, OneBreak, ScreenInv, ClickInv, JustReported
<1>3. QED
  BY <1>1, <1>2 DEF gpio_callback

(* ui_run and display_licence. *)
LEMMA PromptMain ==
  ASSUME PromptInv, Main
  PROVE  PromptInv'
<1>1. UNCHANGED <<debounce_left, reported, release_age, release_gap>>
  BY DEF Main, ui_run, FinishCapture, OpenLicence, display_licence, history
<1>2. JustReported' <=> JustReported
  BY <1>1 DEF JustReported
<1>3. ui_q \in Seq(Events)
      /\ \A i, j \in 1 .. Len(ui_q) : ui_q[i] \in Breaks /\ ui_q[j] \in Breaks => i = j
  BY DEF PromptInv, PromptTypeOK, OneBreak
<1>4. ASSUME NEW event, Take(event)
      PROVE  /\ ui_q' \in Seq(Events) /\ Waiting(event)
             /\ BreakWaiting' => BreakWaiting
             /\ Waiting("BREAK_KEY_UP")' => Waiting("BREAK_KEY_UP")
             /\ \A i, j \in 1 .. Len(ui_q') : ui_q'[i] \in Breaks /\ ui_q'[j] \in Breaks => i = j
             /\ event \in Breaks => BreakWaiting /\ ~BreakWaiting'
  BY <1>3, <1>4, Taken
<1>5. "BREAK_KEY_UP" \in Breaks
  BY DEF Breaks
<1>6. ~BreakWaiting' => ~Waiting("BREAK_KEY_UP")'
  BY <1>5 DEF BreakWaiting, Waiting
<1>7. CASE ui_run /\ FirstClick
  <2>1. /\ Take("BREAK_KEY_UP") /\ double_click_left' = DOUBLE_CLICK_TIME
        /\ UNCHANGED <<main, vga80>>
    BY <1>7 DEF ui_run, FirstClick
  <2>2. release_age = 0
    BY <1>4, <2>1 DEF PromptInv, ClickInv
  <2>3. PromptTypeOK'
    BY <1>1, <1>4, <2>1, ClickTimes DEF PromptInv, PromptTypeOK
  <2>4. OneBreak' /\ ScreenInv'
    BY <1>1, <1>2, <1>4, <2>1 DEF PromptInv, OneBreak, ScreenInv
  <2>5. ClickInv'
    BY <1>1, <1>4, <1>5, <1>6, <2>1, <2>2, ClickTimes DEF PromptInv, ClickInv
  <2>6. QED
    BY <2>3, <2>4, <2>5 DEF PromptInv
<1>8. CASE ui_run /\ SecondClick
  <2>1. /\ Take("BREAK_KEY_UP") /\ double_click_left > 0 /\ main' = "opening"
        /\ UNCHANGED <<double_click_left, vga80>>
    BY <1>8 DEF ui_run, SecondClick
  <2>2. /\ Waiting("BREAK_KEY_UP") /\ BreakWaiting /\ ~BreakWaiting'
        /\ ~Waiting("BREAK_KEY_UP")' /\ ui_q' \in Seq(Events)
        /\ \A i, j \in 1 .. Len(ui_q') : ui_q'[i] \in Breaks /\ ui_q'[j] \in Breaks => i = j
    BY <1>4, <1>5, <1>6, <2>1
  <2>3. JustReported /\ reported[PIN_NRST] /\ ~vga80
    BY <2>2, Zenon DEF PromptInv, OneBreak, ScreenInv
  <2>4. release_gap <= DOUBLE_CLICK_TIME
    BY <2>1, <2>2 DEF PromptInv, ClickInv
  <2>5. PromptTypeOK'
    BY <1>1, <2>1, <2>2 DEF PromptInv, PromptTypeOK
  <2>6. OneBreak' /\ ScreenInv'
    BY <1>1, <1>2, <2>1, <2>2, <2>3 DEF OneBreak, ScreenInv
  <2>7. ClickInv'
    BY <1>1, <2>1, <2>2, <2>4 DEF PromptInv, ClickInv
  <2>8. QED
    BY <2>5, <2>6, <2>7 DEF PromptInv
<1>9. CASE ui_run /\ StartCapture
  <2>1. /\ Take("CAPTURE_KEY_DOWN") /\ main = "ui_run" /\ main' = "capture"
        /\ UNCHANGED <<double_click_left, vga80>>
    BY <1>9 DEF ui_run, StartCapture
  <2>2. ~vga80
    BY <2>1, Zenon DEF PromptInv, ScreenInv
  <2>3. PromptTypeOK' /\ OneBreak' /\ ScreenInv'
    BY <1>1, <1>2, <1>4, <2>1, <2>2 DEF PromptInv, PromptTypeOK, OneBreak, ScreenInv
  <2>4. ClickInv'
    BY <1>1, <1>4, <2>1 DEF PromptInv, ClickInv
  <2>5. QED
    BY <2>3, <2>4 DEF PromptInv
<1>10. CASE (ui_run /\ Disregard) \/ (display_licence /\ KeepLicence)
  <2>1. (\E event : Take(event)) /\ UNCHANGED <<main, double_click_left, vga80>>
    BY <1>10 DEF ui_run, Disregard, display_licence, KeepLicence, mainVars
  <2>2. PromptTypeOK' /\ OneBreak' /\ ScreenInv'
    BY <1>1, <1>2, <1>4, <2>1 DEF PromptInv, PromptTypeOK, OneBreak, ScreenInv
  <2>3. ClickInv'
    BY <1>1, <1>4, <2>1 DEF PromptInv, ClickInv
  <2>4. QED
    BY <2>2, <2>3 DEF PromptInv
<1>11. CASE FinishCapture
  <2>1. /\ main = "capture" /\ main' = "ui_run"
        /\ UNCHANGED <<ui_q, double_click_left, vga80>>
    BY <1>11 DEF FinishCapture
  <2>2. ~vga80
    BY <2>1, Zenon DEF PromptInv, ScreenInv
  <2>3. QED
    BY <1>1, <1>2, <2>1, <2>2, QueueKept
       DEF PromptInv, PromptTypeOK, OneBreak, ScreenInv, ClickInv
<1>12. CASE OpenLicence
  <2>1. /\ main = "opening" /\ main' = "display_licence" /\ vga80' = TRUE
        /\ UNCHANGED <<ui_q, double_click_left>>
    BY <1>12 DEF OpenLicence
  <2>2. /\ reported[PIN_NRST] /\ ~BreakWaiting
    BY <2>1 DEF PromptInv, OneBreak, ScreenInv
  <2>3. PromptTypeOK'
    <3>1. vga80' \in BOOLEAN
      BY <2>1
    <3>2. QED
      BY <1>1, <2>1, <3>1 DEF PromptInv, PromptTypeOK
  <2>4. OneBreak'
    BY <1>1, <1>2, <2>1, QueueKept DEF PromptInv, OneBreak
  <2>5. ScreenInv'
    BY <1>1, <1>6, <2>1, <2>2, QueueKept DEF ScreenInv
  <2>6. ClickInv'
    BY <1>1, <2>1, QueueKept DEF PromptInv, ClickInv
  <2>7. QED
    BY <2>3, <2>4, <2>5, <2>6 DEF PromptInv
<1>13. CASE display_licence /\ CloseLicence
  <2>1. /\ Take("BREAK_KEY_UP") /\ main' = "ui_run" /\ double_click_left' = 0
        /\ vga80' = vga80
    BY <1>13 DEF display_licence, CloseLicence, LeaveOn
  <2>2. ~vga80
    BY <1>4, <2>1, Zenon DEF PromptInv, ScreenInv
  <2>3. PromptTypeOK'
    BY <1>1, <1>4, <2>1, ClickTimes DEF PromptInv, PromptTypeOK
  <2>4. OneBreak' /\ ScreenInv'
    BY <1>1, <1>2, <1>4, <2>1, <2>2 DEF PromptInv, OneBreak, ScreenInv
  <2>5. ClickInv'
    BY <1>1, <1>4, <2>1 DEF PromptInv, ClickInv
  <2>6. QED
    BY <2>3, <2>4, <2>5 DEF PromptInv
<1>14. QED
  BY <1>7, <1>8, <1>9, <1>10, <1>11, <1>12, <1>13
     DEF Main, ui_run, display_licence

LEMMA StepPrompt == IInv /\ PromptInv /\ [PromptNext]_vars => PromptInv'
<1> SUFFICES ASSUME IInv, PromptInv, [PromptNext]_vars PROVE PromptInv'
  OBVIOUS
<1>1. CASE PromptNext
  BY <1>1, PromptChange, PromptCallback, PromptKeyPress, PromptTick, PromptMain
     DEF PromptNext, Next
<1>2. CASE UNCHANGED vars
  <2>1. UNCHANGED <<ui_q, vga80, main, double_click_left, debounce_left, reported,
                    release_age, release_gap>>
    BY <1>2 DEF vars, mainVars, history
  <2>2. QED
    BY <2>1, QueueKept
       DEF PromptInv, PromptTypeOK, OneBreak, ScreenInv, ClickInv, JustReported
<1>3. QED
  BY <1>1, <1>2

LEMMA PromptInvariance == PromptSpec => []PromptInv
  BY InitInv, StepInv, InitPrompt, StepPrompt, PTL DEF PromptSpec

(* With a main loop that is not held up, whatever shows the 80 column screen
   takes it away again: ReportBreak resets it before BREAK_KEY_UP can close the
   licence (gpio_callback, display_licence). *)
THEOREM ScreenComesBack == PromptSpec => []NormalScreenRestored
<1>1. PromptInv => NormalScreenRestored
  BY Zenon DEF PromptInv, ScreenInv, NormalScreenRestored
<1>2. QED
  BY PromptInvariance, <1>1, PTL

(* The licence is shown only for two releases of BREAK within the time of a
   double click (ui_run). *)
THEOREM LicenceIsAskedFor == PromptSpec => []DoubleClickIsReal
<1>1. PromptInv => DoubleClickIsReal
  BY DEF PromptInv, ClickInv, DoubleClickIsReal
<1>2. QED
  BY PromptInvariance, <1>1, PTL

-----------------------------------------------------------------------------
(* The message box.  What is defined by recursion over the characters of a
   piece, the pieces of a word or the words of a text is shown to exist, and
   to be what it should be, from the smallest number where it would not. *)

(* A set of numbers has a least one. *)
LEMMA Minimum ==
  ASSUME NEW S \in SUBSET Nat, S # {}
  PROVE  \E m \in S : \A n \in S : m <= n
<1>1. PICK m \in S : \A n \in S : ~ (<<n, m>> \in OpToRel(<, Nat))
  BY NatLessThanWellFounded, WFMin
<1>2. ASSUME NEW n \in S, n < m PROVE FALSE
  <2>1. <<n, m>> \in {ss \in Nat \X Nat : ss[1] < ss[2]}
    BY <1>2
  <2>2. <<n, m>> \in OpToRel(<, Nat)
    BY <2>1 DEF OpToRel
  <2>3. QED
    BY <1>1, <2>2
<1>3. QED
  BY <1>2

(* A function on 1 .. n that is defined by recursion exists. *)
Follows(f, n, base, step) ==
  \A i \in 1 .. n : f[i] = IF i = 1 THEN base ELSE step[i][f[i - 1]]

(* It is built up to n from the first number for which there is none. *)
LEMMA RecursionExists ==
  ASSUME NEW n \in Nat, NEW V, NEW base \in V, NEW step \in [1 .. n -> [V -> V]]
  PROVE  \E f \in [1 .. n -> V] : Follows(f, n, base, step)
<1> DEFINE S == {k \in 0 .. n : ~ \E f \in [1 .. k -> V] : Follows(f, k, base, step)}
<1> SUFFICES ASSUME S # {} PROVE FALSE
  <2>1. n \in 0 .. n
    OBVIOUS
  <2>2. QED
    BY <2>1
<1>1. PICK m \in S : \A k \in S : m <= k
  <2>1. S \in SUBSET Nat
    OBVIOUS
  <2>2. QED
    BY <2>1, Minimum
<1>2. m \in 0 .. n /\ ~ \E f \in [1 .. m -> V] : Follows(f, m, base, step)
  OBVIOUS
<1>3. m # 0
  <2> DEFINE f == [i \in 1 .. 0 |-> base]
  <2>1. f \in [1 .. 0 -> V] /\ Follows(f, 0, base, step)
    BY DEF Follows
  <2>2. QED
    BY <1>2, <2>1
<1>4. PICK f \in [1 .. m - 1 -> V] : Follows(f, m - 1, base, step)
  <2>1. m - 1 \in 0 .. n /\ ~ (m <= m - 1)
    BY <1>2, <1>3
  <2>2. m - 1 \notin S
    BY <1>1, <2>1
  <2>3. QED
    BY <2>1, <2>2
<1> DEFINE last == IF m = 1 THEN base ELSE step[m][f[m - 1]]
           g == [i \in 1 .. m |-> IF i = m THEN last ELSE f[i]]
<1>5. last \in V
  <2>1. m \in 1 .. n /\ (m # 1 => m - 1 \in 1 .. m - 1)
    BY <1>2, <1>3
  <2>2. QED
    BY <1>4, <2>1
<1>6. g \in [1 .. m -> V]
  <2>1. \A i \in 1 .. m : i # m => i \in 1 .. m - 1
    BY <1>2
  <2> HIDE DEF last
  <2>2. QED
    BY <1>4, <1>5, <2>1
<1>7. ASSUME NEW i \in 1 .. m
      PROVE  g[i] = IF i = 1 THEN base ELSE step[i][g[i - 1]]
  <2>1. CASE i = m
    <3>1. g[m] = last
      BY <2>1
    <3>2. m # 1 => m - 1 \in 1 .. m /\ m - 1 # m
      BY <1>2, <1>3
    <3>3. m # 1 => g[m - 1] = f[m - 1]
      BY <3>2
    <3>4. QED
      BY <2>1, <3>1, <3>3
  <2>2. CASE i # m
    <3>1. i \in 1 .. m - 1 /\ g[i] = f[i]
      BY <1>2, <2>2
    <3>2. f[i] = IF i = 1 THEN base ELSE step[i][f[i - 1]]
      BY <1>4, <3>1 DEF Follows
    <3>3. i # 1 => i - 1 \in 1 .. m /\ i - 1 # m
      BY <1>2, <2>2
    <3>4. i # 1 => g[i - 1] = f[i - 1]
      BY <3>3
    <3>5. QED
      BY <3>1, <3>2, <3>4
  <2>3. QED
    BY <2>1, <2>2
<1> HIDE DEF g
<1>8. Follows(g, m, base, step)
  BY <1>7 DEF Follows
<1>9. QED
  BY <1>2, <1>6, <1>8

-----------------------------------------------------------------------------
(* A box that is no larger than the screen is on it. *)
LEMMA BoxIs ==
  ASSUME NEW height \in 1 .. 40, NEW width \in 1 .. 80
  PROVE  LET box == Box(height, width)
         IN  /\ box.left \in Nat /\ box.top \in Nat
             /\ box.right = box.left + width /\ box.right <= 80
             /\ box.bottom = box.top + height
  BY DEF Box, SCREEN_WIDTH, SCREEN_HEIGHT

(* Characters that do not reach the right edge of the screen stay in a row. *)
LEMMA PieceIs ==
  ASSUME NEW row \in Nat, NEW col \in Nat, NEW n \in Nat, col + n <= 80
  PROVE  PrintPiece(Cell(row, col), n) = [k \in 1 .. n |-> Cell(row, col + (k - 1))]
<1> DEFINE first == Cell(row, col)
           P(f) == f = [k \in 1 .. n |-> IF k = 1 THEN first ELSE mc6847_outc(f[k - 1])]
           line == [k \in 1 .. n |-> Cell(row, col + (k - 1))]
<1>1. PrintPiece(first, n) = CHOOSE f : P(f)
  BY DEF PrintPiece
<1>2. ASSUME NEW k \in 1 .. n, k # 1
      PROVE  mc6847_outc(Cell(row, col + ((k - 1) - 1))) = Cell(row, col + (k - 1))
  <2>1. (col + ((k - 1) - 1)) + 1 = col + (k - 1) /\ col + (k - 1) < 80
    BY <1>2
  <2>2. QED
    BY <2>1 DEF mc6847_outc, Cell
<1>3. P(line)
  <2>1. ASSUME NEW k \in 1 .. n
        PROVE  line[k] = IF k = 1 THEN first ELSE mc6847_outc(line[k - 1])
    <3>1. CASE k = 1
      <4>1. col + (1 - 1) = col
        OBVIOUS
      <4>2. QED
        BY <3>1, <4>1
    <3>2. CASE k # 1
      <4>1. k - 1 \in 1 .. n
        BY <3>2
      <4>2. line[k - 1] = Cell(row, col + ((k - 1) - 1))
        BY <4>1
      <4>3. QED
        BY <1>2, <3>2, <4>2
    <3>3. QED
      BY <3>1, <3>2
  <2>2. line = [k \in 1 .. n |-> line[k]]
    OBVIOUS
  <2> HIDE DEF line, first
  <2>3. QED
    BY <2>1, <2>2
<1>4. ASSUME NEW f, P(f) PROVE f = line
  <2> DEFINE S == {k \in 1 .. n : f[k] # Cell(row, col + (k - 1))}
  <2>1. ASSUME S # {} PROVE FALSE
    <3>1. S \in SUBSET Nat
      OBVIOUS
    <3>2. PICK m \in S : \A k \in S : m <= k
      BY <2>1, <3>1, Minimum
    <3>3. m \in 1 .. n /\ f[m] # Cell(row, col + (m - 1))
      OBVIOUS
    <3>4. f[m] = IF m = 1 THEN first ELSE mc6847_outc(f[m - 1])
      BY <1>4, <3>3
    <3>5. m # 1
      <4>1. col + (1 - 1) = col
        OBVIOUS
      <4>2. QED
        BY <3>3, <3>4, <4>1
    <3>6. m - 1 \in 1 .. n /\ ~ (m <= m - 1)
      BY <3>3, <3>5
    <3>7. f[m - 1] = Cell(row, col + ((m - 1) - 1))
      BY <3>2, <3>6
    <3>8. QED
      BY <1>2, <3>3, <3>4, <3>5, <3>7
  <2>2. \A k \in 1 .. n : f[k] = line[k]
    BY <2>1
  <2>3. f = [k \in 1 .. n |-> f[k]]
    BY <1>4
  <2>4. QED
    BY <2>2, <2>3
<1> HIDE DEF P, line
<1>5. (CHOOSE f : P(f)) = line
  BY <1>3, <1>4, Zenon
<1>6. QED
  BY <1>1, <1>5 DEF line

(* strlen, of a word and of one of few pieces. *)
IsLength(f, word) ==
  f = [p \in 1 .. Len(word) |-> IF p = 1 THEN word[1] ELSE f[p - 1] + 1 + word[p]]

(* The recursive function of WordLength exists ... *)
LEMMA LengthExists ==
  ASSUME NEW word \in Seq(Nat), word # << >>
  PROVE  \E f : IsLength(f, word)
<1> DEFINE n == Len(word)
           step == [p \in 1 .. n |-> [v \in Nat |-> v + 1 + word[p]]]
<1>1. n \in Nat /\ 1 \in 1 .. n /\ \A p \in 1 .. n : word[p] \in Nat
  OBVIOUS
<1> HIDE DEF n
<1>2. step \in [1 .. n -> [Nat -> Nat]]
  BY <1>1
<1> HIDE DEF step
<1>3. PICK f \in [1 .. n -> Nat] : Follows(f, n, word[1], step)
  BY <1>1, <1>2, RecursionExists
<1>4. ASSUME NEW p \in 1 .. n
      PROVE  f[p] = IF p = 1 THEN word[1] ELSE f[p - 1] + 1 + word[p]
  <2>1. p # 1 => p - 1 \in 1 .. n
    BY <1>1
  <2>2. f[p] = IF p = 1 THEN word[1] ELSE step[p][f[p - 1]]
    BY <1>3 DEF Follows
  <2>3. \A v \in Nat : step[p][v] = v + 1 + word[p]
    BY DEF step
  <2>4. QED
    BY <1>3, <2>1, <2>2, <2>3
<1>5. f = [p \in 1 .. n |-> f[p]]
  BY <1>3
<1>6. IsLength(f, word)
  BY <1>4, <1>5 DEF IsLength, n
<1>7. QED
  BY <1>6

(* ... and is the length of the pieces and of the newlines between them. *)
LEMMA LengthIs ==
  ASSUME NEW word \in Seq(Nat), word # << >>
  PROVE  /\ WordLength(word) \in Nat
         /\ WordLength(word) >= word[1]
         /\ Len(word) = 1 => WordLength(word) = word[1]
         /\ Len(word) = 2 => WordLength(word) = word[1] + 1 + word[2]
         /\ Len(word) = 3 => WordLength(word) = word[1] + 1 + word[2] + 1 + word[3]
<1> DEFINE P(g) == IsLength(g, word)
           f == CHOOSE g : P(g)
           n == Len(word)
<1>1. P(f)
  <2> HIDE DEF P
  <2>1. \E g : P(g)
    BY LengthExists DEF P
  <2>2. QED
    BY <2>1, Zenon
<1>2. WordLength(word) = f[Len(word)]
  BY Zenon DEF WordLength, IsLength
<1>3. \A p \in 1 .. Len(word) :
        f[p] = IF p = 1 THEN word[1] ELSE f[p - 1] + 1 + word[p]
  <2> HIDE DEF f
  <2>1. QED
    BY <1>1 DEF IsLength
<1> HIDE DEF f, P
<1>4. n \in Nat /\ n >= 1 /\ \A p \in 1 .. n : word[p] \in Nat
  OBVIOUS
<1> DEFINE S == {p \in 1 .. n : ~ (f[p] \in Nat /\ f[p] >= word[1])}
<1>5. \A p \in 1 .. n : f[p] \in Nat /\ f[p] >= word[1]
  <2> SUFFICES ASSUME S # {} PROVE FALSE
    OBVIOUS
  <2>1. S \in SUBSET Nat
    BY <1>4
  <2>2. PICK m \in S : \A k \in S : m <= k
    BY <2>1, Minimum
  <2>3. m \in 1 .. n /\ ~ (f[m] \in Nat /\ f[m] >= word[1])
    OBVIOUS
  <2>4. m # 1
    BY <1>3, <1>4, <2>3
  <2>5. m - 1 \in 1 .. n /\ ~ (m <= m - 1)
    BY <1>4, <2>3, <2>4
  <2>6. f[m - 1] \in Nat /\ f[m - 1] >= word[1]
    BY <2>2, <2>5
  <2>7. f[m] = f[m - 1] + 1 + word[m]
    BY <1>3, <2>3, <2>4
  <2>8. word[m] \in Nat /\ word[1] \in Nat
    BY <1>4, <2>3
  <2>9. QED
    BY <2>3, <2>6, <2>7, <2>8
<1>6. f[n] \in Nat /\ f[n] >= word[1]
  BY <1>4, <1>5
<1>7. f[1] = word[1]
  BY <1>3, <1>4
<1>8. n >= 2 => f[2] = f[1] + 1 + word[2]
  BY <1>3, <1>4
<1>9. n >= 3 => f[3] = f[2] + 1 + word[3]
  BY <1>3, <1>4
<1>10. WordLength(word) \in Nat /\ WordLength(word) >= word[1]
  BY <1>2, <1>6
<1>11. Len(word) = 1 => WordLength(word) = word[1]
  BY <1>2, <1>7
<1>12. Len(word) = 2 => WordLength(word) = word[1] + 1 + word[2]
  BY <1>2, <1>7, <1>8
<1>13. Len(word) = 3 => WordLength(word) = word[1] + 1 + word[2] + 1 + word[3]
  BY <1>2, <1>7, <1>8, <1>9
<1>14. QED
  BY <1>10, <1>11, <1>12, <1>13

Places == [row : Nat, col : Nat]

(* A box on the screen, and words that fit into its lines. *)
IsBox(box, width) ==
  /\ width \in Nat \ {0}
  /\ box.left \in Nat /\ box.top \in Nat
  /\ box.right = box.left + width /\ box.right <= 80

FittingWords(width) == Seq(0 .. width - 1) \ {<< >>}

(* The order in which a text is read. *)
NotAfter(c, d) == c.row < d.row \/ (c.row = d.row /\ c.col <= d.col)

(* A place within the box, and one from which the first piece of a word fits. *)
InBox(box, place) ==
  /\ place \in Places
  /\ place.row >= box.top + 1 /\ place.col >= box.left + 1

StartsWell(box, start, word) ==
  InBox(box, start) /\ start.col + word[1] <= box.right

(* What a word that fits is made of. *)
LEMMA WordIs ==
  ASSUME NEW width, width \in Nat \ {0}, NEW word \in FittingWords(width)
  PROVE  /\ word \in Seq(Nat) /\ word # << >>
         /\ Len(word) \in Nat /\ Len(word) >= 1
         /\ \A p \in 1 .. Len(word) : word[p] \in 0 .. width - 1
  BY DEF FittingWords

(* A cell of the screen is a place. *)
LEMMA PlaceIs ==
  ASSUME NEW row \in Nat, NEW col \in Nat
  PROVE  /\ Cell(row, col) \in Places
         /\ Cell(row, col).row = row /\ Cell(row, col).col = col
  BY DEF Cell, Places

(* Wherever the place before it is, a word starts somewhere ... *)
LEMMA WordStartType ==
  ASSUME NEW width, NEW box, IsBox(box, width), NEW word, NEW place \in Places
  PROVE  WordStart(box, place, word) \in Places
<1>1. /\ place.row \in Nat /\ place.col \in Nat
      /\ place.row + 1 \in Nat /\ box.left + 1 \in Nat
  BY DEF Places, IsBox
<1>2. QED
  BY <1>1, PlaceIs DEF WordStart, mc6847_moveto

(* ... and wherever it starts, it ends somewhere. *)
LEMMA PlaceAfterType ==
  ASSUME NEW width, NEW box, IsBox(box, width),
         NEW word \in FittingWords(width), NEW start \in Places
  PROVE  PlaceAfter(box, start, word) \in Places
<1> DEFINE n == Len(word)
           last == PieceStart(box, start, n)
<1>1. n \in Nat /\ n >= 1 /\ word[n] \in Nat
  <2>1. width \in Nat \ {0}
    BY DEF IsBox
  <2>2. n \in Nat /\ n >= 1 /\ word[n] \in 0 .. width - 1
    BY <2>1, WordIs
  <2>3. QED
    BY <2>1, <2>2
<1> HIDE DEF n
<1>2. /\ start.row + (n - 1) \in Nat /\ box.left + 1 \in Nat
  BY <1>1 DEF Places, IsBox
<1>3. last \in Places
  BY <1>2, PlaceIs DEF PieceStart, mc6847_moveto
<1>4. PlaceAfter(box, start, word) = Cell(last.row, last.col + word[n] + 1)
  BY DEF PlaceAfter, n
<1> HIDE DEF last
<1>5. last.row \in Nat /\ last.col + word[n] + 1 \in Nat
  BY <1>1, <1>3 DEF Places
<1>6. QED
  BY <1>4, <1>5, PlaceIs

(* A word starts at or after the place before it, at most a line below, and its
   first piece fits. *)
LEMMA WordStartIs ==
  ASSUME NEW width, NEW box, IsBox(box, width),
         NEW word \in FittingWords(width),
         NEW place, InBox(box, place)
  PROVE  /\ StartsWell(box, WordStart(box, place, word), word)
         /\ NotAfter(place, WordStart(box, place, word))
         /\ WordStart(box, place, word).row <= place.row + 1
<1>1. /\ word \in Seq(Nat) /\ word # << >> /\ 1 \in 1 .. Len(word)
      /\ word[1] \in 0 .. width - 1
  BY WordIs DEF IsBox
<1>2. WordLength(word) \in Nat /\ WordLength(word) >= word[1]
  BY <1>1, LengthIs
<1>3. /\ box.left \in Nat /\ box.top \in Nat /\ width \in Nat
      /\ box.right = box.left + width
  BY DEF IsBox
<1>4. place.row \in Nat /\ place.col \in Nat
  BY DEF InBox, Places
<1>5. CASE TooLong(box, place.col, word)
  <2>1. WordStart(box, place, word) = Cell(place.row + 1, box.left + 1)
    BY <1>5 DEF WordStart, mc6847_moveto
  <2>2. place.row + 1 \in Nat /\ box.left + 1 \in Nat
    BY <1>3, <1>4
  <2>3. /\ WordStart(box, place, word) \in Places
        /\ WordStart(box, place, word).row = place.row + 1
        /\ WordStart(box, place, word).col = box.left + 1
    BY <2>1, <2>2, PlaceIs
  <2>4. QED
    BY <1>1, <1>3, <1>4, <2>3 DEF StartsWell, InBox, NotAfter
<1>6. CASE ~TooLong(box, place.col, word)
  <2>1. WordStart(box, place, word) = Cell(place.row, place.col)
    BY <1>6 DEF WordStart, mc6847_moveto
  <2>2. /\ WordStart(box, place, word) \in Places
        /\ WordStart(box, place, word).row = place.row
        /\ WordStart(box, place, word).col = place.col
    BY <1>4, <2>1, PlaceIs
  <2>3. place.col + WordLength(word) <= box.right
    BY <1>2, <1>3, <1>4, <1>6 DEF TooLong
  <2>4. place.col + word[1] <= box.right
    BY <1>1, <1>2, <1>3, <1>4, <2>3
  <2>5. QED
    BY <1>3, <1>4, <2>2, <2>4 DEF StartsWell, InBox, NotAfter
<1>7. QED
  BY <1>5, <1>6

(* Pieces start in the box, each in a line of its own, and fit. *)
LEMMA PieceStartIs ==
  ASSUME NEW width, NEW box, IsBox(box, width),
         NEW word \in FittingWords(width),
         NEW start, StartsWell(box, start, word),
         NEW p \in 1 .. Len(word)
  PROVE  LET s == PieceStart(box, start, p)
         IN  /\ s = Cell(s.row, s.col)
             /\ InBox(box, s)
             /\ s.row = start.row + (p - 1)
             /\ p = 1 => s.col = start.col
             /\ s.col + word[p] <= box.right
<1>1. /\ Len(word) \in Nat /\ Len(word) >= 1
      /\ word[p] \in 0 .. width - 1
  BY WordIs DEF IsBox
<1>2. /\ box.left \in Nat /\ box.top \in Nat /\ width \in Nat
      /\ box.right = box.left + width
  BY DEF IsBox
<1>3. /\ start \in Places /\ start.row \in Nat /\ start.col \in Nat
      /\ start.row >= box.top + 1 /\ start.col >= box.left + 1
      /\ start.col + word[1] <= box.right
  BY DEF StartsWell, InBox, Places
<1>4. CASE p = 1
  <2>1. PieceStart(box, start, p) = start
    BY <1>4 DEF PieceStart
  <2>2. start = Cell(start.row, start.col)
    BY <1>3 DEF Cell, Places
  <2>3. start.row = start.row + (p - 1)
    BY <1>3, <1>4
  <2>4. QED
    BY <1>3, <1>4, <2>1, <2>2, <2>3 DEF InBox
<1>5. CASE p # 1
  <2>1. PieceStart(box, start, p) = Cell(start.row + (p - 1), box.left + 1)
    BY <1>5 DEF PieceStart, mc6847_moveto
  <2>2. start.row + (p - 1) \in Nat /\ box.left + 1 \in Nat /\ p - 1 \in Nat
    BY <1>1, <1>2, <1>3
  <2>3. /\ PieceStart(box, start, p) \in Places
        /\ PieceStart(box, start, p).row = start.row + (p - 1)
        /\ PieceStart(box, start, p).col = box.left + 1
    BY <2>1, <2>2, PlaceIs
  <2>4. QED
    BY <1>1, <1>2, <1>3, <1>5, <2>1, <2>2, <2>3 DEF InBox
<1>6. QED
  BY <1>4, <1>5

(* The place after a word is in the line of its last piece, and not before
   the word. *)
LEMMA PlaceAfterIs ==
  ASSUME NEW width, NEW box, IsBox(box, width),
         NEW word \in FittingWords(width),
         NEW start, StartsWell(box, start, word)
  PROVE  LET place == PlaceAfter(box, start, word)
             last  == PieceStart(box, start, Len(word))
         IN  /\ InBox(box, place)
             /\ place.row = start.row + (Len(word) - 1)
             /\ place.col = last.col + word[Len(word)] + 1
             /\ NotAfter(start, place)
<1> DEFINE last == PieceStart(box, start, Len(word))
           place == PlaceAfter(box, start, word)
<1>1. /\ Len(word) \in 1 .. Len(word) /\ Len(word) \in Nat
      /\ word[Len(word)] \in 0 .. width - 1
  BY WordIs DEF IsBox
<1>2. /\ InBox(box, last)
      /\ last.row = start.row + (Len(word) - 1)
      /\ Len(word) = 1 => last.col = start.col
  BY <1>1, PieceStartIs
<1>3. place = Cell(last.row, last.col + word[Len(word)] + 1)
  BY DEF PlaceAfter
<1> HIDE DEF last, place
<1>4. /\ last.row \in Nat /\ last.col \in Nat
      /\ last.row >= box.top + 1 /\ last.col >= box.left + 1
  BY <1>2 DEF InBox, Places
<1>5. last.col + word[Len(word)] + 1 \in Nat
  BY <1>1, <1>4
<1>6. /\ place \in Places /\ place.row = last.row
      /\ place.col = last.col + word[Len(word)] + 1
  BY <1>3, <1>4, <1>5, PlaceIs
<1>7. box.left \in Nat /\ box.top \in Nat /\ width \in Nat
  BY DEF IsBox
<1>8. start.row \in Nat /\ start.col \in Nat
  BY DEF StartsWell, InBox, Places
<1>9. InBox(box, place)
  BY <1>1, <1>4, <1>6, <1>7 DEF InBox
<1>10. NotAfter(start, place)
  <2>1. CASE Len(word) = 1
    <3>1. place.row = start.row /\ place.col = start.col + word[Len(word)] + 1
      BY <1>2, <1>6, <1>8, <2>1
    <3>2. word[Len(word)] \in Nat
      BY <1>1, <1>7
    <3>3. start.col <= place.col
      BY <1>8, <3>1, <3>2
    <3>4. QED
      BY <3>1, <3>3 DEF NotAfter
  <2>2. CASE Len(word) # 1
    <3>1. Len(word) \in Nat /\ Len(word) >= 2
      <4>1. width \in Nat \ {0}
        BY DEF IsBox
      <4>2. Len(word) \in Nat /\ Len(word) >= 1
        BY <4>1, WordIs
      <4>3. \A n \in Nat : n >= 1 /\ n # 1 => n >= 2
        OBVIOUS
      <4>4. QED
        BY <2>2, <4>2, <4>3, Zenon
    <3>2. place.row = start.row + (Len(word) - 1)
      BY <1>2, <1>6
    <3>3. start.row < place.row
      BY <1>8, <3>1, <3>2
    <3>4. QED
      BY <3>3 DEF NotAfter
  <2>3. QED
    BY <2>1, <2>2
<1>11. QED
  BY <1>2, <1>6, <1>9, <1>10 DEF last, place

Texts(width) == Seq(FittingWords(width))

FirstPlace(box) == mc6847_moveto(box.left + 1, box.top + 1)

IsStarts(f, text, box) ==
  f = [i \in 1 .. Len(text) |->
         WordStart(box,
                   IF i = 1 THEN FirstPlace(box)
                   ELSE PlaceAfter(box, f[i - 1], text[i - 1]),
                   text[i])]

(* A text begins in the first line of the box. *)
LEMMA FirstPlaceIs ==
  ASSUME NEW width, NEW box, IsBox(box, width)
  PROVE  InBox(box, FirstPlace(box)) /\ FirstPlace(box).row = box.top + 1
<1>1. box.top + 1 \in Nat /\ box.left + 1 \in Nat
  BY DEF IsBox
<1>2. FirstPlace(box) = Cell(box.top + 1, box.left + 1)
  BY DEF FirstPlace, mc6847_moveto
<1>3. QED
  BY <1>1, <1>2, PlaceIs DEF InBox

(* From any function that fits the recursive definition, by induction. *)
LEMMA StartsWithin ==
  ASSUME NEW width, NEW box, IsBox(box, width),
         NEW text \in Texts(width), NEW f,
         \A i \in 1 .. Len(text) :
           f[i] = WordStart(box,
                            IF i = 1 THEN FirstPlace(box)
                            ELSE PlaceAfter(box, f[i - 1], text[i - 1]),
                            text[i])
  PROVE  \A i \in 1 .. Len(text) : StartsWell(box, f[i], text[i])
<1> DEFINE n == Len(text)
           S == {i \in 1 .. n : ~StartsWell(box, f[i], text[i])}
<1>1. n \in Nat /\ \A i \in 1 .. n : text[i] \in FittingWords(width)
  BY DEF Texts
<1> HIDE DEF n
<1> SUFFICES ASSUME S # {} PROVE FALSE
  BY DEF n
<1>2. PICK m \in S : \A k \in S : m <= k
  <2>1. S \in SUBSET Nat
    BY <1>1
  <2>2. QED
    BY <2>1, Minimum
<1>3. m \in 1 .. n /\ ~StartsWell(box, f[m], text[m])
  OBVIOUS
<1> DEFINE place == IF m = 1 THEN FirstPlace(box)
                    ELSE PlaceAfter(box, f[m - 1], text[m - 1])
<1>4. InBox(box, place)
  <2>1. CASE m = 1
    BY <2>1, FirstPlaceIs
  <2>2. CASE m # 1
    <3>1. m - 1 \in 1 .. n /\ ~ (m <= m - 1)
      BY <1>1, <1>3, <2>2
    <3>2. StartsWell(box, f[m - 1], text[m - 1])
      BY <1>2, <3>1
    <3>3. text[m - 1] \in FittingWords(width)
      BY <1>1, <3>1
    <3>4. InBox(box, PlaceAfter(box, f[m - 1], text[m - 1]))
      BY <3>2, <3>3, PlaceAfterIs
    <3>5. QED
      BY <2>2, <3>4
  <2>3. QED
    BY <2>1, <2>2
<1>5. f[m] = WordStart(box, place, text[m])
  BY <1>3 DEF n
<1> HIDE DEF place
<1>6. QED
  BY <1>1, <1>3, <1>4, <1>5, WordStartIs

(* The recursive function of WordStarts exists. *)
LEMMA StartsExist ==
  ASSUME NEW width, NEW box, IsBox(box, width),
         NEW text \in Texts(width), text # << >>
  PROVE  \E f : IsStarts(f, text, box)
<1> DEFINE n == Len(text)
           base == WordStart(box, FirstPlace(box), text[1])
           next(i, v) == WordStart(box, PlaceAfter(box, v, text[i - 1]), text[i])
           step == [i \in 1 .. n |-> [v \in Places |-> IF i = 1 THEN base ELSE next(i, v)]]
<1>1. n \in Nat /\ 1 \in 1 .. n /\ \A i \in 1 .. n : text[i] \in FittingWords(width)
  BY DEF Texts
<1> HIDE DEF n
<1>2. base \in Places
  <2>1. FirstPlace(box) \in Places
    BY FirstPlaceIs DEF InBox
  <2>2. QED
    BY <2>1, WordStartType
<1>3. ASSUME NEW i \in 1 .. n, NEW v \in Places, i # 1 PROVE next(i, v) \in Places
  <2>1. i - 1 \in 1 .. n
    BY <1>1, <1>3
  <2>2. text[i - 1] \in FittingWords(width)
    BY <1>1, <2>1
  <2>3. PlaceAfter(box, v, text[i - 1]) \in Places
    BY <2>2, PlaceAfterType
  <2>4. QED
    BY <2>3, WordStartType
<1> HIDE DEF base, next
<1>4. step \in [1 .. n -> [Places -> Places]]
  BY <1>2, <1>3
<1>5. \A i \in 1 .. n, v \in Places : i # 1 => step[i][v] = next(i, v)
  OBVIOUS
<1> HIDE DEF step
<1>6. PICK f \in [1 .. n -> Places] : Follows(f, n, base, step)
  BY <1>1, <1>2, <1>4, RecursionExists
<1>7. ASSUME NEW i \in 1 .. n
      PROVE  f[i] = WordStart(box, IF i = 1 THEN FirstPlace(box)
                                   ELSE PlaceAfter(box, f[i - 1], text[i - 1]),
                              text[i])
  <2>1. f[i] = IF i = 1 THEN base ELSE step[i][f[i - 1]]
    BY <1>6 DEF Follows
  <2>2. CASE i = 1
    BY <2>1, <2>2 DEF base
  <2>3. CASE i # 1
    <3>1. i - 1 \in 1 .. n
      BY <1>1, <2>3
    <3>2. f[i - 1] \in Places
      BY <1>6, <3>1
    <3>3. f[i] = next(i, f[i - 1])
      BY <1>5, <2>1, <2>3, <3>2
    <3>4. QED
      BY <2>3, <3>3 DEF next
  <2>4. QED
    BY <2>2, <2>3
<1>8. f = [i \in 1 .. n |-> f[i]]
  BY <1>6
<1>9. IsStarts(f, text, box)
  BY <1>7, <1>8 DEF IsStarts, n
<1>10. QED
  BY <1>9

(* Every word starts in the box, at or after the place after the one before. *)
LEMMA StartsAre ==
  ASSUME NEW width, NEW box, IsBox(box, width), NEW text \in Texts(width)
  PROVE  LET start == WordStarts(text, box)
         IN  \A i \in 1 .. Len(text) :
               /\ start[i] = WordStart(box,
                                       IF i = 1 THEN FirstPlace(box)
                                       ELSE PlaceAfter(box, start[i - 1], text[i - 1]),
                                       text[i])
               /\ StartsWell(box, start[i], text[i])
<1> DEFINE start == WordStarts(text, box)
           P(f) == IsStarts(f, text, box)
<1>1. CASE text = << >>
  <2>1. 1 .. Len(text) = {}
    BY <1>1
  <2>2. QED
    BY <2>1
<1>2. CASE text # << >>
  <2>1. start = CHOOSE f : P(f)
    BY Zenon DEF WordStarts, IsStarts, FirstPlace
  <2>2. P(start)
    <3> HIDE DEF P, start
    <3>1. \E f : P(f)
      BY <1>2, StartsExist DEF P
    <3>2. QED
      BY <2>1, <3>1, Zenon
  <2> HIDE DEF start
  <2>3. \A i \in 1 .. Len(text) :
          start[i] = WordStart(box, IF i = 1 THEN FirstPlace(box)
                                    ELSE PlaceAfter(box, start[i - 1], text[i - 1]),
                               text[i])
    BY <2>2 DEF IsStarts
  <2>4. \A i \in 1 .. Len(text) : StartsWell(box, start[i], text[i])
    BY <2>3, StartsWithin
  <2>5. QED
    BY <2>3, <2>4 DEF start
<1>3. QED
  BY <1>1, <1>2

(* No word starts before the place after an earlier one. *)
LEMMA WordsInOrder ==
  ASSUME NEW width, NEW box, IsBox(box, width), NEW text \in Texts(width),
         NEW j \in 1 .. Len(text), NEW i \in j + 1 .. Len(text)
  PROVE  LET start == WordStarts(text, box)
         IN  NotAfter(PlaceAfter(box, start[j], text[j]), start[i])
<1> DEFINE start == WordStarts(text, box)
           n == Len(text)
           place == PlaceAfter(box, start[j], text[j])
           S == {k \in j + 1 .. n : ~NotAfter(place, start[k])}
<1>1. /\ n \in Nat /\ j \in 1 .. n
      /\ \A k \in 1 .. n : text[k] \in FittingWords(width)
  BY DEF Texts
<1>2. \A k \in 1 .. n :
        /\ start[k] = WordStart(box, IF k = 1 THEN FirstPlace(box)
                                     ELSE PlaceAfter(box, start[k - 1], text[k - 1]),
                                text[k])
        /\ StartsWell(box, start[k], text[k])
  BY StartsAre
<1> HIDE DEF start, n
<1> SUFFICES ASSUME S # {} PROVE FALSE
  BY DEF start, n
<1>3. PICK m \in S : \A k \in S : m <= k
  <2>1. S \in SUBSET Nat
    BY <1>1
  <2>2. QED
    BY <2>1, Minimum
<1>4. m \in j + 1 .. n /\ ~NotAfter(place, start[m])
  OBVIOUS
<1> DEFINE before == PlaceAfter(box, start[m - 1], text[m - 1])
<1>5. m \in 1 .. n /\ m # 1 /\ m - 1 \in 1 .. n /\ ~ (m <= m - 1)
  BY <1>1, <1>4
<1>6. InBox(box, place) /\ place \in Places
  BY <1>1, <1>2, PlaceAfterIs DEF InBox
<1>7. /\ InBox(box, before) /\ before \in Places
      /\ NotAfter(start[m - 1], before)
      /\ start[m - 1] \in Places
  <2>1. StartsWell(box, start[m - 1], text[m - 1]) /\ text[m - 1] \in FittingWords(width)
    BY <1>1, <1>2, <1>5
  <2>2. QED
    BY <2>1, PlaceAfterIs DEF InBox, StartsWell
<1>8. /\ NotAfter(before, start[m])
      /\ start[m] \in Places
  <2>1. start[m] = WordStart(box, before, text[m])
    BY <1>2, <1>5
  <2>2. text[m] \in FittingWords(width)
    BY <1>1, <1>5
  <2> HIDE DEF before
  <2>3. QED
    BY <1>7, <2>1, <2>2, WordStartIs DEF StartsWell, InBox
<1>9. NotAfter(place, before)
  <2>1. CASE m = j + 1
    <3>1. m - 1 = j
      BY <1>1, <2>1
    <3>2. before = place
      BY <3>1
    <3>3. QED
      BY <1>6, <3>2 DEF NotAfter, Places
  <2>2. CASE m # j + 1
    <3>1. m - 1 \in j + 1 .. n
      BY <1>1, <1>4, <2>2
    <3>2. NotAfter(place, start[m - 1])
      BY <1>3, <1>5, <3>1
    <3> HIDE DEF place, before
    <3>3. QED
      BY <1>6, <1>7, <3>2 DEF NotAfter, Places
  <2>3. QED
    BY <2>1, <2>2
<1> HIDE DEF place, before
<1>10. NotAfter(place, start[m])
  BY <1>6, <1>7, <1>8, <1>9 DEF NotAfter, Places
<1>11. QED
  BY <1>4, <1>10

-----------------------------------------------------------------------------
(* What is printed of a word. *)
Printed(box, start, word) ==
  [p \in 1 .. Len(word) |-> PrintPiece(PieceStart(box, start, p), word[p])]

(* A piece is printed in one line, character by character. *)
LEMMA PieceCells ==
  ASSUME NEW width, NEW box, IsBox(box, width),
         NEW word \in FittingWords(width),
         NEW start, StartsWell(box, start, word),
         NEW p \in 1 .. Len(word)
  PROVE  LET s == PieceStart(box, start, p)
             piece == Printed(box, start, word)[p]
         IN  /\ Len(piece) = word[p]
             /\ \A k \in 1 .. word[p] :
                  /\ piece[k] = Cell(s.row, s.col + (k - 1))
                  /\ piece[k].row = s.row
                  /\ piece[k].col = s.col + (k - 1)
<1> DEFINE s == PieceStart(box, start, p)
           piece == Printed(box, start, word)[p]
<1>1. width \in Nat \ {0} /\ box.right <= 80 /\ box.left \in Nat
      /\ box.right = box.left + width
  BY DEF IsBox
<1>2. word[p] \in Nat
  BY <1>1, WordIs
<1>3. s = Cell(s.row, s.col) /\ InBox(box, s) /\ s.col + word[p] <= box.right
  BY PieceStartIs
<1>4. piece = PrintPiece(s, word[p])
  BY DEF Printed
<1> HIDE DEF s, piece
<1>5. s.row \in Nat /\ s.col \in Nat /\ s.col + word[p] <= 80
  BY <1>1, <1>2, <1>3 DEF InBox, Places
<1>6. PrintPiece(Cell(s.row, s.col), word[p]) =
        [k \in 1 .. word[p] |-> Cell(s.row, s.col + (k - 1))]
  BY <1>2, <1>5, PieceIs
<1>7. piece = [k \in 1 .. word[p] |-> Cell(s.row, s.col + (k - 1))]
  BY <1>3, <1>4, <1>6
<1>8. Len(piece) = word[p]
  BY <1>2, <1>7
<1>9. \A k \in 1 .. word[p] :
        /\ piece[k] = Cell(s.row, s.col + (k - 1))
        /\ piece[k].row = s.row
        /\ piece[k].col = s.col + (k - 1)
  BY <1>7 DEF Cell
<1>10. QED
  BY <1>8, <1>9 DEF s, piece

(* Where its characters are. *)
LEMMA CellsAre ==
  ASSUME NEW width, NEW box, IsBox(box, width),
         NEW word \in FittingWords(width),
         NEW start, StartsWell(box, start, word),
         NEW c \in Cells(Printed(box, start, word))
  PROVE  LET place == PlaceAfter(box, start, word)
         IN  /\ c.row \in Nat /\ c.col \in Nat
             /\ box.left < c.col /\ c.col < box.right
             /\ box.top < c.row /\ c.row <= place.row
             /\ NotAfter(start, c)
             /\ c.row < place.row \/ c.col + 2 <= place.col
<1> DEFINE pieces == Printed(box, start, word)
           place == PlaceAfter(box, start, word)
<1>1. /\ width \in Nat \ {0} /\ box.left \in Nat /\ box.top \in Nat
      /\ box.right = box.left + width
  BY DEF IsBox
<1>2. Len(word) \in Nat /\ Len(word) >= 1 /\ Len(pieces) = Len(word)
  BY <1>1, WordIs DEF Printed
<1>3. PICK p \in 1 .. Len(word) : c \in {pieces[p][k] : k \in 1 .. Len(pieces[p])}
  BY <1>2 DEF Cells
<1> DEFINE s == PieceStart(box, start, p)
<1>4. word[p] \in Nat
  BY <1>1, WordIs
<1>5. /\ Len(pieces[p]) = word[p]
      /\ \A k \in 1 .. word[p] :
           pieces[p][k].row = s.row /\ pieces[p][k].col = s.col + (k - 1)
  BY PieceCells
<1>6. /\ InBox(box, s)
      /\ s.row = start.row + (p - 1)
      /\ p = 1 => s.col = start.col
      /\ s.col + word[p] <= box.right
  BY PieceStartIs
<1>7. /\ place.row = start.row + (Len(word) - 1)
      /\ place.col = PieceStart(box, start, Len(word)).col + word[Len(word)] + 1
      /\ InBox(box, place)
  BY PlaceAfterIs
<1>8. start.row \in Nat /\ start.col \in Nat
  BY DEF StartsWell, InBox, Places
<1>9. p = Len(word) => place.col = s.col + word[p] + 1
  BY <1>7
<1> HIDE DEF pieces, place, s
<1>10. PICK k \in 1 .. word[p] : c.row = s.row /\ c.col = s.col + (k - 1)
  BY <1>3, <1>5
<1>11. /\ s.row \in Nat /\ s.col \in Nat
       /\ s.row >= box.top + 1 /\ s.col >= box.left + 1
       /\ place.row \in Nat /\ place.col \in Nat
  BY <1>6, <1>7 DEF InBox, Places
<1>12. /\ c.row \in Nat /\ c.col \in Nat
       /\ box.left < c.col /\ box.top < c.row
  <2>1. k \in Nat /\ k >= 1
    BY <1>4
  <2>2. c.row \in Nat /\ box.top < c.row
    BY <1>1, <1>10, <1>11
  <2>3. c.col \in Nat /\ c.col >= s.col
    BY <1>10, <1>11, <2>1
  <2>4. box.left < c.col
    BY <1>1, <1>11, <2>3
  <2>5. QED
    BY <2>2, <2>3, <2>4
<1>13. c.col < box.right
  BY <1>1, <1>4, <1>6, <1>10, <1>11
<1>14. c.row <= place.row
  BY <1>2, <1>6, <1>7, <1>8, <1>10
<1>15. NotAfter(start, c)
  <2>1. CASE p = 1
    <3>1. c.row = start.row /\ start.col <= c.col
      BY <1>4, <1>6, <1>8, <1>10, <2>1
    <3>2. QED
      BY <3>1 DEF NotAfter
  <2>2. CASE p # 1
    <3>1. start.row < c.row
      BY <1>2, <1>6, <1>8, <1>10, <2>2
    <3>2. QED
      BY <3>1 DEF NotAfter
  <2>3. QED
    BY <2>1, <2>2
<1>16. c.row < place.row \/ c.col + 2 <= place.col
  <2>1. CASE p = Len(word)
    BY <1>4, <1>9, <1>10, <1>11, <2>1
  <2>2. CASE p # Len(word)
    <3>1. p < Len(word)
      BY <1>2, <2>2
    <3>2. QED
      BY <1>2, <1>6, <1>7, <1>8, <1>10, <3>1
  <2>3. QED
    BY <2>1, <2>2
<1>17. QED
  BY <1>12, <1>13, <1>14, <1>15, <1>16 DEF place

(* The row of the last piece of a text. *)
LastRow(text, box) ==
  PlaceAfter(box, WordStarts(text, box)[Len(text)], text[Len(text)]).row

(* No word ends in a line below that of the last one. *)
LEMMA RowsAreOrdered ==
  ASSUME NEW width, NEW box, IsBox(box, width), NEW text \in Texts(width),
         NEW i \in 1 .. Len(text)
  PROVE  /\ PlaceAfter(box, WordStarts(text, box)[i], text[i]).row <= LastRow(text, box)
         /\ LastRow(text, box) \in Nat
<1> DEFINE start == WordStarts(text, box)
           n == Len(text)
<1>1. /\ n \in Nat /\ i \in 1 .. n /\ n \in 1 .. n
      /\ \A k \in 1 .. n : text[k] \in FittingWords(width)
  BY DEF Texts
<1>2. \A k \in 1 .. n : StartsWell(box, start[k], text[k])
  BY StartsAre
<1>3. i # n => NotAfter(PlaceAfter(box, start[i], text[i]), start[n])
  <2> SUFFICES ASSUME i # n
               PROVE  NotAfter(PlaceAfter(box, start[i], text[i]), start[n])
    OBVIOUS
  <2>1. n \in i + 1 .. n
    BY <1>1
  <2>2. QED
    BY <2>1, WordsInOrder
<1> HIDE DEF start, n
<1> DEFINE before == PlaceAfter(box, start[i], text[i])
           last == PlaceAfter(box, start[n], text[n])
<1>4. InBox(box, before)
  BY <1>1, <1>2, PlaceAfterIs
<1>5. /\ InBox(box, last)
      /\ NotAfter(start[n], last) /\ InBox(box, start[n])
  <2>1. text[n] \in FittingWords(width) /\ StartsWell(box, start[n], text[n])
    BY <1>1, <1>2
  <2>2. QED
    BY <2>1, PlaceAfterIs DEF StartsWell
<1>6. CASE i = n
  <2>1. before = last
    BY <1>6
  <2>2. QED
    BY <1>5, <2>1 DEF LastRow, start, n, InBox, Places
<1>7. CASE i # n
  <2> HIDE DEF before, last
  <2>1. before.row <= last.row /\ last.row \in Nat
    BY <1>3, <1>4, <1>5, <1>7 DEF NotAfter, InBox, Places, before
  <2>2. QED
    BY <2>1 DEF LastRow, before, last, start, n
<1>8. QED
  BY <1>6, <1>7

(* A text whose words fit into the lines of a box, and whose lines fit into
   the box, is readable. *)
LEMMA TextIsReadable ==
  ASSUME NEW height \in 1 .. 40, NEW width \in 1 .. 80,
         NEW text \in Texts(width),
         text # << >> => LastRow(text, Box(height, width)) < Box(height, width).bottom
  PROVE  Readable(text, height, width)
<1> DEFINE box == Box(height, width)
           start == WordStarts(text, box)
           words == mui_left_justified_msgbox(text, height, width)
<1>1. IsBox(box, width) /\ box.bottom \in Int
  <2>1. /\ box.left \in Nat /\ box.top \in Nat
        /\ box.right = box.left + width /\ box.right <= 80
        /\ box.bottom = box.top + height
    BY BoxIs
  <2>2. width \in Nat \ {0} /\ height \in Nat
    OBVIOUS
  <2> HIDE DEF box
  <2>3. QED
    BY <2>1, <2>2 DEF IsBox
<1>2. /\ Len(text) \in Nat /\ Len(words) = Len(text)
      /\ \A i \in 1 .. Len(text) : text[i] \in FittingWords(width)
  BY DEF Texts, mui_left_justified_msgbox
<1>3. \A i \in 1 .. Len(text) : words[i] = Printed(box, start[i], text[i])
  BY DEF mui_left_justified_msgbox, Printed
<1>4. \A i \in 1 .. Len(text) : StartsWell(box, start[i], text[i])
  BY <1>1, StartsAre
<1> HIDE DEF words
<1>5. ASSUME NEW i \in 1 .. Len(text), NEW c \in Cells(words[i])
      PROVE  Inside(box, c)
  <2>1. c \in Cells(Printed(box, start[i], text[i]))
    BY <1>3
  <2>2. text # << >>
    BY <1>2
  <2>3. /\ PlaceAfter(box, start[i], text[i]).row <= LastRow(text, box)
        /\ LastRow(text, box) \in Nat /\ LastRow(text, box) < box.bottom
    BY <1>1, <2>2, RowsAreOrdered
  <2> DEFINE place == PlaceAfter(box, start[i], text[i])
  <2>4. /\ InBox(box, place)
        /\ c.row \in Nat /\ c.col \in Nat
        /\ box.left < c.col /\ c.col < box.right
        /\ box.top < c.row /\ c.row <= place.row
    <3> HIDE DEF box, start
    <3>1. QED
      BY <1>1, <1>2, <1>4, <2>1, CellsAre, PlaceAfterIs
  <2>5. place.row \in Nat
    BY <2>4 DEF InBox, Places
  <2>6. box.bottom \in Int
    BY <1>1
  <2> HIDE DEF box, place, start
  <2>7. c.row < box.bottom
    BY <2>3, <2>4, <2>5, <2>6 DEF place
  <2>8. QED
    BY <2>4, <2>7 DEF Inside
<1>6. ASSUME NEW i \in 1 .. Len(text), NEW p \in 1 .. Len(text[i])
      PROVE  /\ \A k \in 2 .. Len(words[i][p]) :
                  NextTo(words[i][p][k - 1], words[i][p][k])
             /\ \A q \in 1 .. p - 1 :
                  \A k \in 1 .. Len(words[i][q]), l \in 1 .. Len(words[i][p]) :
                    Below(words[i][q][k], words[i][p][l])
  <2> DEFINE s(q) == PieceStart(box, start[i], q)
  <2>1. Len(text[i]) \in Nat /\ text[i] \in FittingWords(width)
    BY <1>1, <1>2, WordIs DEF IsBox
  <2>2. ASSUME NEW q \in 1 .. Len(text[i])
        PROVE  /\ Len(words[i][q]) = text[i][q]
               /\ \A k \in 1 .. text[i][q] :
                    /\ words[i][q][k] = Cell(s(q).row, s(q).col + (k - 1))
                    /\ words[i][q][k].row = s(q).row
                    /\ words[i][q][k].col = s(q).col + (k - 1)
               /\ s(q).row = start[i].row + (q - 1)
               /\ s(q).row \in Nat /\ s(q).col \in Nat
               /\ text[i][q] \in Nat
    <3>1. words[i] = Printed(box, start[i], text[i]) /\ StartsWell(box, start[i], text[i])
      BY <1>3, <1>4
    <3> HIDE DEF box, start
    <3>2. /\ InBox(box, s(q))
          /\ s(q).row = start[i].row + (q - 1)
      BY <1>1, <2>1, <3>1, PieceStartIs
    <3>3. width \in Nat \ {0}
      BY <1>1 DEF IsBox
    <3>4. text[i][q] \in Nat
      BY <2>1, <3>3, WordIs
    <3>5. s(q).row \in Nat /\ s(q).col \in Nat
      BY <3>2 DEF InBox, Places
    <3> DEFINE piece == Printed(box, start[i], text[i])[q]
               place == PieceStart(box, start[i], q)
    <3>6. /\ Len(piece) = text[i][q]
          /\ \A k \in 1 .. text[i][q] :
               /\ piece[k] = Cell(place.row, place.col + (k - 1))
               /\ piece[k].row = place.row
               /\ piece[k].col = place.col + (k - 1)
      BY <1>1, <2>1, <3>1, PieceCells
    <3>7. words[i][q] = piece /\ s(q) = place
      BY <3>1
    <3> HIDE DEF piece, place, s
    <3>8. QED
      BY <3>2, <3>4, <3>5, <3>6, <3>7
  <2> HIDE DEF s
  <2>3. ASSUME NEW k \in 2 .. Len(words[i][p])
        PROVE  NextTo(words[i][p][k - 1], words[i][p][k])
    <3>1. k \in 1 .. text[i][p] /\ k - 1 \in 1 .. text[i][p]
      BY <2>2
    <3>2. /\ words[i][p][k] = Cell(s(p).row, s(p).col + (k - 1))
          /\ words[i][p][k - 1].row = s(p).row
          /\ words[i][p][k - 1].col = s(p).col + ((k - 1) - 1)
          /\ s(p).col \in Nat
      BY <2>2, <3>1
    <3>3. s(p).col + (k - 1) = (s(p).col + ((k - 1) - 1)) + 1
      BY <3>1, <3>2
    <3>4. QED
      BY <3>2, <3>3 DEF NextTo
  <2>4. ASSUME NEW q \in 1 .. p - 1,
               NEW k \in 1 .. Len(words[i][q]), NEW l \in 1 .. Len(words[i][p])
        PROVE  Below(words[i][q][k], words[i][p][l])
    <3>1. q \in 1 .. Len(text[i]) /\ q < p
      BY <2>1
    <3>2. /\ words[i][q][k].row = start[i].row + (q - 1)
          /\ words[i][p][l].row = start[i].row + (p - 1)
      BY <2>2, <3>1
    <3>3. start[i].row \in Nat
      BY <1>4 DEF StartsWell, InBox, Places
    <3> HIDE DEF start
    <3>4. QED
      BY <2>1, <3>1, <3>2, <3>3 DEF Below
  <2>5. QED
    BY <2>3, <2>4
<1>7. ASSUME NEW i \in 1 .. Len(text), NEW j \in 1 .. i - 1,
             NEW c \in Cells(words[j]), NEW d \in Cells(words[i])
      PROVE  Apart(c, d)
  <2>1. j \in 1 .. Len(text) /\ i \in j + 1 .. Len(text)
    BY <1>2
  <2>2. /\ c \in Cells(Printed(box, start[j], text[j]))
        /\ d \in Cells(Printed(box, start[i], text[i]))
    BY <1>3, <2>1
  <2>3. NotAfter(PlaceAfter(box, start[j], text[j]), start[i])
    BY <1>1, <2>1, WordsInOrder
  <2> DEFINE place == PlaceAfter(box, start[j], text[j])
  <2>4. /\ c.row \in Nat /\ c.col \in Nat
        /\ c.row <= place.row /\ (c.row < place.row \/ c.col + 2 <= place.col)
        /\ InBox(box, place)
    <3>1. text[j] \in FittingWords(width) /\ StartsWell(box, start[j], text[j])
      BY <1>2, <1>4, <2>1
    <3> HIDE DEF box, start
    <3>2. QED
      BY <1>1, <2>2, <3>1, CellsAre, PlaceAfterIs
  <2>5. /\ d.row \in Nat /\ d.col \in Nat
        /\ NotAfter(start[i], d) /\ start[i] \in Places
    <3>1. text[i] \in FittingWords(width) /\ StartsWell(box, start[i], text[i])
      BY <1>2, <1>4, <2>1
    <3> HIDE DEF box, start
    <3>2. QED
      BY <1>1, <2>2, <3>1, CellsAre DEF StartsWell, InBox
  <2>6. NotAfter(place, start[i])
    BY <2>3
  <2> HIDE DEF box, start, place
  <2>7. QED
    BY <2>4, <2>5, <2>6 DEF NotAfter, InBox, Places, Apart, Below
<1> HIDE DEF start
<1>8. QED
  <2>1. Len(words) = Len(text)
    BY <1>2
  <2>2. ASSUME NEW i \in 1 .. Len(text) PROVE Len(words[i]) = Len(text[i])
    <3>1. width \in Nat \ {0}
      BY <1>1 DEF IsBox
    <3>2. Len(text[i]) \in Nat
      BY <1>2, <3>1, WordIs
    <3>3. words[i] = Printed(box, start[i], text[i])
      BY <1>3
    <3>4. QED
      BY <3>2, <3>3 DEF Printed
  <2>3. QED
    BY <1>5, <1>6, <1>7, <2>1, <2>2 DEF Readable, words

(* Words of at most two pieces move down by two lines at most. *)
LEMMA RowsOfShortWords ==
  ASSUME NEW width, NEW box, IsBox(box, width), NEW text \in Texts(width),
         \A i \in 1 .. Len(text) : Len(text[i]) <= 2
  PROVE  \A i \in 1 .. Len(text) : WordStarts(text, box)[i].row <= box.top + 2 * i
<1> DEFINE start == WordStarts(text, box)
           n == Len(text)
           S == {i \in 1 .. n : ~ (start[i].row <= box.top + 2 * i)}
<1>1. /\ n \in Nat
      /\ \A i \in 1 .. n : text[i] \in FittingWords(width) /\ Len(text[i]) <= 2
  BY DEF Texts
<1>2. \A i \in 1 .. n :
        /\ start[i] = WordStart(box, IF i = 1 THEN FirstPlace(box)
                                     ELSE PlaceAfter(box, start[i - 1], text[i - 1]),
                                text[i])
        /\ StartsWell(box, start[i], text[i])
  BY StartsAre
<1>3. box.top \in Nat /\ width \in Nat \ {0}
  BY DEF IsBox
<1> HIDE DEF start, n
<1> SUFFICES ASSUME S # {} PROVE FALSE
  BY DEF start, n
<1>4. PICK m \in S : \A k \in S : m <= k
  <2>1. S \in SUBSET Nat
    BY <1>1
  <2>2. QED
    BY <2>1, Minimum
<1>5. m \in 1 .. n /\ ~ (start[m].row <= box.top + 2 * m)
  OBVIOUS
<1> DEFINE place == IF m = 1 THEN FirstPlace(box)
                    ELSE PlaceAfter(box, start[m - 1], text[m - 1])
<1>6. InBox(box, place) /\ place.row + 1 <= box.top + 2 * m
  <2>1. CASE m = 1
    <3>1. place = FirstPlace(box)
      BY <2>1
    <3>2. InBox(box, place) /\ place.row = box.top + 1
      BY <3>1, FirstPlaceIs
    <3> HIDE DEF place
    <3>3. QED
      BY <1>3, <2>1, <3>2
  <2>2. CASE m # 1
    <3>1. m - 1 \in 1 .. n /\ ~ (m <= m - 1)
      BY <1>1, <1>5, <2>2
    <3>2. start[m - 1].row <= box.top + 2 * (m - 1)
      BY <1>4, <3>1
    <3>3. /\ StartsWell(box, start[m - 1], text[m - 1])
          /\ text[m - 1] \in FittingWords(width)
          /\ Len(text[m - 1]) <= 2
      BY <1>1, <1>2, <3>1
    <3>4. place = PlaceAfter(box, start[m - 1], text[m - 1])
      BY <2>2
    <3>5. InBox(box, place) /\ place.row = start[m - 1].row + (Len(text[m - 1]) - 1)
      BY <3>3, <3>4, PlaceAfterIs
    <3>6. start[m - 1].row \in Nat /\ Len(text[m - 1]) \in Nat
      BY <1>3, <3>3, WordIs DEF StartsWell, InBox, Places
    <3>7. m \in Nat
      BY <1>1, <1>5
    <3> HIDE DEF place
    <3>8. QED
      BY <1>3, <3>2, <3>3, <3>5, <3>6, <3>7
  <2>3. QED
    BY <2>1, <2>2
<1>7. start[m] = WordStart(box, place, text[m]) /\ text[m] \in FittingWords(width)
  BY <1>1, <1>2, <1>5
<1> HIDE DEF place
<1>8. start[m].row <= place.row + 1
  BY <1>6, <1>7, WordStartIs
<1>9. start[m].row \in Nat /\ place.row \in Nat /\ m \in Nat
  BY <1>1, <1>2, <1>5, <1>6 DEF StartsWell, InBox, Places
<1>10. QED
  BY <1>3, <1>5, <1>6, <1>8, <1>9

(* A word or a text of n elements is a sequence. *)
LEMMA FunctionIsSequence ==
  ASSUME NEW S, NEW n \in Nat, NEW f \in [1 .. n -> S]
  PROVE  f \in Seq(S) /\ Len(f) = n
  OBVIOUS

(* Every text of the small box can be read. *)
LEMMA SmallBoxesReadable ==
  ASSUME NEW text \in [1 .. TextWords -> Words]
  PROVE  Readable(text, TextHeight, TextWidth)
<1> DEFINE box == Box(TextHeight, TextWidth)
<1>1. /\ TextHeight \in 1 .. 40 /\ TextWidth \in 1 .. 80 /\ TextWords \in Nat
      /\ 2 * TextWords + 1 < TextHeight
  BY TextAssumption, BoxAssumption
<1>2. ASSUME NEW word \in Words
      PROVE  word \in FittingWords(TextWidth) /\ Len(word) <= 2
  <2> DEFINE Lengths == 0 .. TextWidth - 1
  <2>1. PICK n \in {1, 2} : word \in [1 .. n -> Lengths]
    BY DEF Words
  <2> HIDE DEF Lengths
  <2>2. n \in Nat /\ n >= 1 /\ n <= 2
    OBVIOUS
  <2>3. word \in Seq(Lengths) /\ Len(word) = n
    BY <2>1, <2>2, FunctionIsSequence
  <2>4. word # << >> /\ Len(word) <= 2
    BY <2>2, <2>3
  <2>5. QED
    BY <2>3, <2>4 DEF FittingWords, Lengths
<1>3. /\ text \in Texts(TextWidth) /\ Len(text) = TextWords
      /\ \A i \in 1 .. Len(text) :
           text[i] \in FittingWords(TextWidth) /\ Len(text[i]) <= 2
  <2>1. text \in [1 .. TextWords -> FittingWords(TextWidth)]
    BY <1>2
  <2>2. text \in Seq(FittingWords(TextWidth)) /\ Len(text) = TextWords
    BY <1>1, <2>1
  <2>3. QED
    BY <1>2, <2>2 DEF Texts
<1>4. /\ box.left \in Nat /\ box.top \in Nat
      /\ box.right = box.left + TextWidth /\ box.right <= 80
      /\ box.bottom = box.top + TextHeight
  BY <1>1, BoxIs
<1> HIDE DEF box
<1>5. IsBox(box, TextWidth)
  BY <1>1, <1>4 DEF IsBox
<1>6. text # << >> => LastRow(text, box) < box.bottom
  <2> SUFFICES ASSUME text # << >> PROVE LastRow(text, box) < box.bottom
    OBVIOUS
  <2> DEFINE start == WordStarts(text, box)
             n == Len(text)
  <2>1. n \in 1 .. n /\ n \in Nat /\ n = TextWords
    BY <1>1, <1>3 DEF Texts
  <2>2. start[n].row <= box.top + 2 * n
    BY <1>3, <1>5, <2>1, RowsOfShortWords
  <2>3. StartsWell(box, start[n], text[n])
    BY <1>3, <1>5, <2>1, StartsAre
  <2>4. text[n] \in FittingWords(TextWidth) /\ Len(text[n]) <= 2
    BY <1>3, <2>1
  <2> HIDE DEF start, n
  <2>5. PlaceAfter(box, start[n], text[n]).row = start[n].row + (Len(text[n]) - 1)
    BY <1>5, <2>3, <2>4, PlaceAfterIs
  <2>6. TextWidth \in Nat \ {0}
    BY <1>1
  <2>7. start[n].row \in Nat /\ Len(text[n]) \in Nat
    BY <2>3, <2>4, <2>6, WordIs DEF StartsWell, InBox, Places
  <2>8. PlaceAfter(box, start[n], text[n]).row <= box.top + 2 * n + 1
    BY <1>4, <2>1, <2>2, <2>4, <2>5, <2>7
  <2>9. box.top + 2 * n + 1 < box.bottom
    BY <1>1, <1>4, <2>1
  <2>10. LastRow(text, box) = start[n].row + (Len(text[n]) - 1)
    BY <2>5 DEF LastRow, start, n
  <2>11. QED
    BY <1>1, <1>4, <2>1, <2>5, <2>7, <2>8, <2>9, <2>10
<1>7. QED
  BY <1>1, <1>3, <1>6, TextIsReadable DEF box

(* The words of gpl3_notice, most of them of one piece. *)
ManyPieces == {2, 42, 79, 98}

(* The notice is a text of 98 words that fit into the lines of its box. *)
LEMMA NoticeWords ==
  /\ gpl3_notice \in Texts(65) /\ Len(gpl3_notice) = 98
  /\ \A i \in (1 .. 98) \ ManyPieces :
       /\ Len(gpl3_notice[i]) = 1
       /\ WordLength(gpl3_notice[i]) = gpl3_notice[i][1]
  /\ WordLength(gpl3_notice[2]) = 12 /\ WordLength(gpl3_notice[42]) = 14
  /\ WordLength(gpl3_notice[79]) = 13 /\ WordLength(gpl3_notice[98]) = 33
<1>1. \A i \in (1 .. 98) \ ManyPieces :
        gpl3_notice[i] = << gpl3_notice[i][1] >>
  BY DEF gpl3_notice, ManyPieces
<1>2. \A i \in 1 .. 98 : gpl3_notice[i][1] \in 0 .. 64
  BY DEF gpl3_notice
<1>3. /\ gpl3_notice[2] = <<6, 0, 4>> /\ gpl3_notice[42] = <<8, 0, 4>>
      /\ gpl3_notice[79] = <<8, 0, 3>> /\ gpl3_notice[98] = <<32, 0>>
  BY DEF gpl3_notice
<1>4. ASSUME NEW a \in 0 .. 64
      PROVE  /\ << a >> \in FittingWords(65) /\ Len(<< a >>) = 1
             /\ WordLength(<< a >>) = a
  <2>1. << a >> \in Seq(0 .. 64) /\ << a >> \in Seq(Nat) /\ << a >> # << >>
        /\ Len(<< a >>) = 1 /\ << a >>[1] = a
    OBVIOUS
  <2>2. 65 - 1 = 64
    OBVIOUS
  <2>3. WordLength(<< a >>) = a
    BY <2>1, LengthIs
  <2>4. QED
    BY <2>1, <2>2, <2>3 DEF FittingWords
<1>5. ASSUME NEW a \in 0 .. 64, NEW b \in 0 .. 64
      PROVE  /\ << a, b >> \in FittingWords(65) /\ WordLength(<< a, b >>) = a + 1 + b
  <2>1. << a, b >> \in Seq(0 .. 64) /\ << a, b >> \in Seq(Nat) /\ << a, b >> # << >>
        /\ Len(<< a, b >>) = 2 /\ << a, b >>[1] = a /\ << a, b >>[2] = b
    OBVIOUS
  <2>2. 65 - 1 = 64
    OBVIOUS
  <2>3. WordLength(<< a, b >>) = a + 1 + b
    BY <2>1, LengthIs
  <2>4. QED
    BY <2>1, <2>2, <2>3 DEF FittingWords
<1>6. ASSUME NEW a \in 0 .. 64, NEW b \in 0 .. 64, NEW c \in 0 .. 64
      PROVE  /\ << a, b, c >> \in FittingWords(65)
             /\ WordLength(<< a, b, c >>) = a + 1 + b + 1 + c
  <2>1. << a, b, c >> \in Seq(0 .. 64) /\ << a, b, c >> \in Seq(Nat)
        /\ << a, b, c >> # << >> /\ Len(<< a, b, c >>) = 3
        /\ << a, b, c >>[1] = a /\ << a, b, c >>[2] = b /\ << a, b, c >>[3] = c
    OBVIOUS
  <2>2. 65 - 1 = 64
    OBVIOUS
  <2>3. WordLength(<< a, b, c >>) = a + 1 + b + 1 + c
    BY <2>1, LengthIs
  <2>4. QED
    BY <2>1, <2>2, <2>3 DEF FittingWords
<1>7. \A i \in (1 .. 98) \ ManyPieces :
        /\ gpl3_notice[i] \in FittingWords(65)
        /\ Len(gpl3_notice[i]) = 1
        /\ WordLength(gpl3_notice[i]) = gpl3_notice[i][1]
  BY <1>1, <1>2, <1>4, Zenon
<1>8. /\ gpl3_notice[2] \in FittingWords(65) /\ WordLength(gpl3_notice[2]) = 12
      /\ gpl3_notice[42] \in FittingWords(65) /\ WordLength(gpl3_notice[42]) = 14
      /\ gpl3_notice[79] \in FittingWords(65) /\ WordLength(gpl3_notice[79]) = 13
      /\ gpl3_notice[98] \in FittingWords(65) /\ WordLength(gpl3_notice[98]) = 33
  <2>1. /\ 0 \in 0 .. 64 /\ 3 \in 0 .. 64 /\ 4 \in 0 .. 64
        /\ 6 \in 0 .. 64 /\ 8 \in 0 .. 64 /\ 32 \in 0 .. 64
    OBVIOUS
  <2>2. /\ << 6, 0, 4 >> \in FittingWords(65)
        /\ WordLength(<< 6, 0, 4 >>) = 6 + 1 + 0 + 1 + 4
    BY <1>6, <2>1, Zenon
  <2>3. /\ << 8, 0, 4 >> \in FittingWords(65)
        /\ WordLength(<< 8, 0, 4 >>) = 8 + 1 + 0 + 1 + 4
    BY <1>6, <2>1, Zenon
  <2>4. /\ << 8, 0, 3 >> \in FittingWords(65)
        /\ WordLength(<< 8, 0, 3 >>) = 8 + 1 + 0 + 1 + 3
    BY <1>6, <2>1, Zenon
  <2>5. /\ << 32, 0 >> \in FittingWords(65)
        /\ WordLength(<< 32, 0 >>) = 32 + 1 + 0
    BY <1>5, <2>1, Zenon
  <2>6. QED
    BY <1>3, <2>2, <2>3, <2>4, <2>5
<1>9. \A i \in 1 .. 98 : gpl3_notice[i] \in FittingWords(65)
  BY <1>7, <1>8 DEF ManyPieces
<1>10. gpl3_notice \in Seq(FittingWords(65)) /\ Len(gpl3_notice) = 98
  BY <1>9 DEF gpl3_notice
<1>11. QED
  BY <1>7, <1>8, <1>10 DEF Texts

(* Where display_licence puts the words of the notice. *)
NoticeBox == Box(21, 65)
NoticeRow(i) == WordStarts(gpl3_notice, NoticeBox)[i].row
NoticeCol(i) == WordStarts(gpl3_notice, NoticeBox)[i].col

(* Its box is on the screen. *)
LEMMA NoticeBoxIs ==
  /\ NoticeBox.left = 7 /\ NoticeBox.right = 72
  /\ NoticeBox.top = 9 /\ NoticeBox.bottom = 30
  /\ IsBox(NoticeBox, 65)
<1>1. /\ NoticeBox.left = 7 /\ NoticeBox.right = 72
      /\ NoticeBox.top = 9 /\ NoticeBox.bottom = 30
  BY DEF NoticeBox, Box, SCREEN_WIDTH, SCREEN_HEIGHT
<1>2. QED
  BY <1>1 DEF IsBox

(* The place of a word, from the one before. *)
LEMMA NoticePlaces ==
  /\ \A i \in 1 .. 98 : NoticeRow(i) \in Nat /\ NoticeCol(i) \in Nat
  /\ NoticeRow(1) = 10 /\ NoticeCol(1) = 8
  /\ \A i \in 1 .. 97 :
       LET word == gpl3_notice[i]
           n    == Len(word)
           row  == NoticeRow(i) + (n - 1)
           col  == (IF n = 1 THEN NoticeCol(i) ELSE 8) + word[n] + 1
       IN  IF col + WordLength(gpl3_notice[i + 1]) > 72
           THEN NoticeRow(i + 1) = row + 1 /\ NoticeCol(i + 1) = 8
           ELSE NoticeRow(i + 1) = row /\ NoticeCol(i + 1) = col
<1> DEFINE text == gpl3_notice
           start == WordStarts(text, NoticeBox)
<1>1. text \in Texts(65) /\ Len(text) = 98
  BY NoticeWords
<1> HIDE DEF text
<1>2. \A i \in 1 .. 98 : text[i] \in FittingWords(65)
  <2>1. \A i \in 1 .. Len(text) : text[i] \in FittingWords(65)
    <3>1. text \in Texts(65)
      BY <1>1
    <3>2. QED
      BY <3>1 DEF Texts
  <2>2. 1 .. 98 = 1 .. Len(text)
    BY <1>1
  <2>3. QED
    BY <2>1, <2>2, Zenon
<1>3. \A i \in 1 .. 98 :
        /\ start[i] = WordStart(NoticeBox,
                                IF i = 1 THEN FirstPlace(NoticeBox)
                                ELSE PlaceAfter(NoticeBox, start[i - 1], text[i - 1]),
                                text[i])
        /\ StartsWell(NoticeBox, start[i], text[i])
  BY <1>1, NoticeBoxIs, StartsAre
<1>4. \A i \in 1 .. 98 : NoticeRow(i) = start[i].row /\ NoticeCol(i) = start[i].col
  BY DEF NoticeRow, NoticeCol, text
<1> HIDE DEF start
<1>5. \A i \in 1 .. 98 : start[i].row \in Nat /\ start[i].col \in Nat
  BY <1>3 DEF StartsWell, InBox, Places
<1>6. start[1].row = 10 /\ start[1].col = 8
  <2>1. FirstPlace(NoticeBox) = Cell(10, 8)
    BY NoticeBoxIs DEF FirstPlace, mc6847_moveto
  <2>2. WordLength(text[1]) = 8
    <3>1. 1 \in (1 .. 98) \ ManyPieces
      BY DEF ManyPieces
    <3>2. gpl3_notice[1][1] = 8
      BY DEF gpl3_notice
    <3>3. QED
      BY <3>1, <3>2, NoticeWords DEF text
  <2>3. start[1] = WordStart(NoticeBox, Cell(10, 8), text[1])
    BY <1>3, <2>1
  <2>4. Cell(10, 8).row = 10 /\ Cell(10, 8).col = 8
    BY PlaceIs
  <2>5. ~TooLong(NoticeBox, Cell(10, 8).col, text[1])
    BY <2>2, <2>4, NoticeBoxIs DEF TooLong
  <2>6. QED
    BY <2>3, <2>4, <2>5 DEF WordStart, mc6847_moveto
<1>7. ASSUME NEW i \in 1 .. 97
      PROVE  LET word == text[i]
                 n    == Len(word)
                 row  == start[i].row + (n - 1)
                 col  == (IF n = 1 THEN start[i].col ELSE 8) + word[n] + 1
             IN  IF col + WordLength(text[i + 1]) > 72
                 THEN start[i + 1].row = row + 1 /\ start[i + 1].col = 8
                 ELSE start[i + 1].row = row /\ start[i + 1].col = col
  <2> DEFINE word == text[i]
             n    == Len(word)
             row  == start[i].row + (n - 1)
             col  == (IF n = 1 THEN start[i].col ELSE 8) + word[n] + 1
             place == PlaceAfter(NoticeBox, start[i], word)
  <2>1. i \in 1 .. 98 /\ i + 1 \in 1 .. 98 /\ i + 1 # 1 /\ (i + 1) - 1 = i
    OBVIOUS
  <2>2. word \in FittingWords(65) /\ StartsWell(NoticeBox, start[i], word)
    BY <1>2, <1>3, <2>1
  <2>3. /\ place.row = row /\ place \in Places
        /\ place.col = PieceStart(NoticeBox, start[i], n).col + word[n] + 1
    BY <2>2, NoticeBoxIs, PlaceAfterIs DEF InBox
  <2>4. PieceStart(NoticeBox, start[i], n).col = IF n = 1 THEN start[i].col ELSE 8
    <3>1. CASE n = 1
      BY <3>1 DEF PieceStart
    <3>2. CASE n # 1
      BY <3>2, NoticeBoxIs DEF PieceStart, mc6847_moveto, Cell
    <3>3. QED
      BY <3>1, <3>2
  <2>5. place.row = row /\ place.col = col /\ place.row \in Nat /\ place.col \in Nat
    BY <2>3, <2>4 DEF Places
  <2>6. start[i + 1] = WordStart(NoticeBox, place, text[i + 1])
    BY <1>3, <2>1
  <2> HIDE DEF place, row, col, n, word
  <2>7. start[i + 1] = IF col + WordLength(text[i + 1]) > 72 THEN Cell(row + 1, 8)
                       ELSE Cell(row, col)
    BY <2>5, <2>6, NoticeBoxIs DEF WordStart, TooLong, mc6847_moveto
  <2>8. IF col + WordLength(text[i + 1]) > 72
        THEN start[i + 1].row = row + 1 /\ start[i + 1].col = 8
        ELSE start[i + 1].row = row /\ start[i + 1].col = col
    BY <2>7 DEF Cell
  <2>9. QED
    BY <2>8 DEF row, col, n, word
<1>8. /\ \A i \in 1 .. 98 : NoticeRow(i) \in Nat /\ NoticeCol(i) \in Nat
      /\ NoticeRow(1) = 10 /\ NoticeCol(1) = 8
  <2>1. 1 \in 1 .. 98
    OBVIOUS
  <2>2. QED
    BY <1>4, <1>5, <1>6, <2>1
<1>9. QED
  BY <1>7, <1>8 DEF text, start, NoticeRow, NoticeCol

(* The place of the next word, after word i of one piece of n characters. *)
Onwards(i, n, length) ==
  IF NoticeCol(i) + n + 1 + length > 72
  THEN NoticeRow(i + 1) = NoticeRow(i) + 1 /\ NoticeCol(i + 1) = 8
  ELSE /\ NoticeRow(i + 1) = NoticeRow(i)
       /\ NoticeCol(i + 1) = NoticeCol(i) + n + 1

(* The same after a word of more pieces, the last of them of n characters. *)
NextLine(i, pieces, n, length) ==
  IF 8 + n + 1 + length > 72
  THEN NoticeRow(i + 1) = NoticeRow(i) + (pieces - 1) + 1 /\ NoticeCol(i + 1) = 8
  ELSE /\ NoticeRow(i + 1) = NoticeRow(i) + (pieces - 1)
       /\ NoticeCol(i + 1) = 8 + n + 1

Pieces(i) == Len(gpl3_notice[i])

(* Where a word starts depends on the number of pieces of the one before. *)
LEMMA NoticeSteps ==
  ASSUME NEW i \in 1 .. 97
  PROVE  LET word == gpl3_notice[i]
             length == WordLength(gpl3_notice[i + 1])
         IN  /\ Len(word) = 1 => Onwards(i, word[1], length)
             /\ Len(word) # 1 => NextLine(i, Len(word), word[Len(word)], length)
<1> DEFINE word == gpl3_notice[i]
           n == Len(word)
           length == WordLength(gpl3_notice[i + 1])
           row  == NoticeRow(i) + (n - 1)
           col  == (IF n = 1 THEN NoticeCol(i) ELSE 8) + word[n] + 1
<1>1. IF col + length > 72
      THEN NoticeRow(i + 1) = row + 1 /\ NoticeCol(i + 1) = 8
      ELSE NoticeRow(i + 1) = row /\ NoticeCol(i + 1) = col
  BY NoticePlaces
<1>2. NoticeRow(i) \in Nat
  <2>1. i \in 1 .. 98
    OBVIOUS
  <2>2. QED
    BY <2>1, NoticePlaces
<1> HIDE DEF word, length
<1>3. CASE n = 1
  <2>1. row = NoticeRow(i) /\ col = NoticeCol(i) + word[1] + 1
    BY <1>2, <1>3
  <2> HIDE DEF row, col
  <2>2. Onwards(i, word[1], length)
    BY <1>1, <2>1 DEF Onwards
  <2>3. QED
    BY <1>3, <2>2 DEF word, length
<1>4. CASE n # 1
  <2>1. row = NoticeRow(i) + (n - 1) /\ col = 8 + word[n] + 1
    BY <1>4
  <2> HIDE DEF row, col
  <2>2. NextLine(i, n, word[n], length)
    BY <1>1, <2>1 DEF NextLine
  <2>3. QED
    BY <1>4, <2>2 DEF word, length
<1>5. QED
  BY <1>3, <1>4

(* The second case, for given numbers. *)
LEMMA NoticeNextLine ==
  ASSUME NEW i \in 1 .. 97, NEW j \in 1 .. 98, j = i + 1,
         NEW n, NEW p, NEW length,
         Pieces(i) = n, n # 1, gpl3_notice[i][n] = p,
         WordLength(gpl3_notice[j]) = length
  PROVE  NextLine(i, n, p, length)
  BY NoticeSteps DEF Pieces

At(i, row, col) == NoticeRow(i) = row /\ NoticeCol(i) = col

(* The lines of the notice, by the places of their first words. *)
LEMMA NoticeLines == NoticeRow(98) = 24
<1> DEFINE Single == (1 .. 97) \ {1, 2, 41, 42, 78, 79, 97}
<1>1. ASSUME NEW i \in (1 .. 97) \ ManyPieces
      PROVE  Onwards(i, gpl3_notice[i][1], WordLength(gpl3_notice[i + 1]))
  <2>1. i \in 1 .. 97 /\ i \in (1 .. 98) \ ManyPieces
    OBVIOUS
  <2>2. Len(gpl3_notice[i]) = 1
    BY <2>1, NoticeWords
  <2>3. QED
    BY <2>1, <2>2, NoticeSteps, Zenon
<1>2. ASSUME NEW i \in Single
      PROVE  Onwards(i, gpl3_notice[i][1], gpl3_notice[i + 1][1])
  <2>1. i \in (1 .. 97) \ ManyPieces /\ i + 1 \in (1 .. 98) \ ManyPieces
    BY DEF ManyPieces
  <2>2. WordLength(gpl3_notice[i + 1]) = gpl3_notice[i + 1][1]
    BY <2>1, NoticeWords
  <2>3. QED
    BY <1>1, <2>1, <2>2
<1>3. At(2, 10, 17)
  <2>1. Onwards(1, 8, 12)
    <3>1. 1 \in (1 .. 97) \ ManyPieces /\ 1 + 1 = 2
      BY DEF ManyPieces
    <3>2. gpl3_notice[1][1] = 8
      BY DEF gpl3_notice
    <3>3. QED
      BY <1>1, <3>1, <3>2, NoticeWords
  <2>2. At(1, 10, 8)
    BY NoticePlaces DEF At
  <2>3. QED
    BY <2>1, <2>2 DEF Onwards, At
<1>4. At(3, 12, 13)
  <2>1. NextLine(2, 3, 4, 3)
    <3>1. 3 \in (1 .. 98) \ ManyPieces /\ 2 \in 1 .. 97 /\ 2 + 1 = 3
      BY DEF ManyPieces
    <3>2. /\ Pieces(2) = 3 /\ gpl3_notice[2][3] = 4
          /\ gpl3_notice[3][1] = 3
      BY DEF gpl3_notice, Pieces
    <3>3. WordLength(gpl3_notice[3]) = 3
      BY <3>1, <3>2, NoticeWords
    <3>4. QED
      BY NoticeNextLine, <3>1, <3>2, <3>3
  <2>2. QED
    BY <1>3, <2>1 DEF NextLine, At
<1>5. At(13, 13, 8)
  BY <1>2, <1>4 DEF gpl3_notice, At, Onwards
<1>6. At(24, 14, 8)
  BY <1>2, <1>5 DEF gpl3_notice, At, Onwards
<1>7. At(34, 15, 8)
  BY <1>2, <1>6 DEF gpl3_notice, At, Onwards
<1>8. At(41, 15, 45)
  BY <1>2, <1>7 DEF gpl3_notice, At, Onwards
<1>9. At(42, 15, 51)
  <2>1. Onwards(41, 5, 14)
    <3>1. 41 \in (1 .. 97) \ ManyPieces /\ 41 + 1 = 42
      BY DEF ManyPieces
    <3>2. gpl3_notice[41][1] = 5
      BY DEF gpl3_notice
    <3>3. QED
      BY <1>1, <3>1, <3>2, NoticeWords
  <2>2. QED
    BY <1>8, <2>1 DEF Onwards, At
<1>10. At(43, 17, 13)
  <2>1. NextLine(42, 3, 4, 7)
    <3>1. 43 \in (1 .. 98) \ ManyPieces /\ 42 \in 1 .. 97 /\ 42 + 1 = 43
      BY DEF ManyPieces
    <3>2. /\ Pieces(42) = 3 /\ gpl3_notice[42][3] = 4
          /\ gpl3_notice[43][1] = 7
      BY DEF gpl3_notice, Pieces
    <3>3. WordLength(gpl3_notice[43]) = 7
      BY <3>1, <3>2, NoticeWords
    <3>4. QED
      BY NoticeNextLine, <3>1, <3>2, <3>3
  <2>2. QED
    BY <1>9, <2>1 DEF NextLine, At
<1>11. At(54, 18, 8)
  BY <1>2, <1>10 DEF gpl3_notice, At, Onwards
<1>12. At(64, 19, 8)
  BY <1>2, <1>11 DEF gpl3_notice, At, Onwards
<1>13. At(74, 20, 8)
  BY <1>2, <1>12 DEF gpl3_notice, At, Onwards
<1>14. At(78, 20, 35)
  BY <1>2, <1>13 DEF gpl3_notice, At, Onwards
<1>15. At(79, 20, 40)
  <2>1. Onwards(78, 4, 13)
    <3>1. 78 \in (1 .. 97) \ ManyPieces /\ 78 + 1 = 79
      BY DEF ManyPieces
    <3>2. gpl3_notice[78][1] = 4
      BY DEF gpl3_notice
    <3>3. QED
      BY <1>1, <3>1, <3>2, NoticeWords
  <2>2. QED
    BY <1>14, <2>1 DEF Onwards, At
<1>16. At(80, 22, 12)
  <2>1. NextLine(79, 3, 3, 6)
    <3>1. 80 \in (1 .. 98) \ ManyPieces /\ 79 \in 1 .. 97 /\ 79 + 1 = 80
      BY DEF ManyPieces
    <3>2. /\ Pieces(79) = 3 /\ gpl3_notice[79][3] = 3
          /\ gpl3_notice[80][1] = 6
      BY DEF gpl3_notice, Pieces
    <3>3. WordLength(gpl3_notice[80]) = 6
      BY <3>1, <3>2, NoticeWords
    <3>4. QED
      BY NoticeNextLine, <3>1, <3>2, <3>3
  <2>2. QED
    BY <1>15, <2>1 DEF NextLine, At
<1>17. At(90, 23, 8)
  BY <1>2, <1>16 DEF gpl3_notice, At, Onwards
<1>18. At(97, 23, 49)
  BY <1>2, <1>17 DEF gpl3_notice, At, Onwards
<1>19. NoticeRow(98) = 24
  <2>1. Onwards(97, 3, 33)
    <3>1. 97 \in (1 .. 97) \ ManyPieces /\ 97 + 1 = 98
      BY DEF ManyPieces
    <3>2. gpl3_notice[97][1] = 3
      BY DEF gpl3_notice
    <3>3. QED
      BY <1>1, <3>1, <3>2, NoticeWords
  <2>2. QED
    BY <1>18, <2>1 DEF Onwards, At
<1>20. QED
  BY <1>19

(* The last word of the notice ends in the line below that of its start, and
   that is above the lower frame of the box. *)
LEMMA NoticeReadable == Readable(gpl3_notice, 21, 65)
<1> DEFINE text == gpl3_notice
           start == WordStarts(text, NoticeBox)
<1>1. text \in Texts(65)
  BY NoticeWords
<1>2. Len(text) = 98
  BY NoticeWords
<1>3. start[98].row = 24
  BY NoticeLines DEF NoticeRow
<1>4. text[98] \in FittingWords(65) /\ StartsWell(NoticeBox, start[98], text[98])
  <2>1. \A i \in 1 .. Len(text) :
          text[i] \in FittingWords(65) /\ StartsWell(NoticeBox, start[i], text[i])
    BY <1>1, NoticeBoxIs, StartsAre DEF Texts
  <2>2. 98 \in 1 .. Len(text)
    BY <1>2
  <2>3. QED
    BY <2>1, <2>2, Zenon
<1>5. Pieces(98) = 2
  BY DEF Pieces, gpl3_notice
<1>6. PlaceAfter(NoticeBox, start[98], text[98]).row = 24 + (Pieces(98) - 1)
  BY <1>3, <1>4, NoticeBoxIs, PlaceAfterIs DEF Pieces
<1>7. LastRow(text, NoticeBox) = PlaceAfter(NoticeBox, start[98], text[98]).row
  BY <1>2 DEF LastRow
<1> HIDE DEF text, start
<1>8. LastRow(text, NoticeBox) < NoticeBox.bottom
  BY <1>5, <1>6, <1>7, NoticeBoxIs
<1>9. 21 \in 1 .. 40 /\ 65 \in 1 .. 80
  OBVIOUS
<1>10. LastRow(text, Box(21, 65)) < Box(21, 65).bottom
  BY <1>8 DEF NoticeBox
<1>11. QED
  BY <1>1, <1>9, <1>10, TextIsReadable DEF text

(* Both together. *)
LEMMA AllBoxesReadable == BoxesReadable
  BY NoticeReadable, SmallBoxesReadable DEF BoxesReadable

(* While the licence is shown its words are within the frame of the box, in
   one piece and apart, line by line with every word that display_licence
   prints (mui_left_justified_msgbox, gpl3_notice); and so are those of every
   text of words that fit into the lines of a small box that is high enough. *)
THEOREM LicenceCanBeRead == PromptSpec => []LicenceReadable
<1>1. LicenceReadable
  BY AllBoxesReadable DEF LicenceReadable
<1>2. QED
  BY <1>1, PTL
=============================================================================
