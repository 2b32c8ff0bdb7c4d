# Atom-DVI: specifications, model checking and proofs

Atom-DVI is firmware for an RP2350 on the bus of an Acorn Atom.  It snoops the
6502's writes into a shadow memory, shows the Atom's screen on a DVI monitor,
plays a SID chip, and shows a licence page and takes screen captures on demand.
This directory holds a TLA+ model of its control, the TLC configurations that
check it, and proofs.

## The system

Core 0 runs `hstx_main` (starts the video output), the interrupt handler of the
video DMA, and the drawing loop `mc6847_run`.  Core 1 runs the initialisations,
the interrupt handler for bus events, the GPIO interrupt handler for the two
keys, and the main loop `as_run`.  The PIO and nine DMA channels work next to
both.

| component | state | operations | meets others through |
|---|---|---|---|
| Scan-out (`dvi_out_hstx_encoder_mod.c`, `mc6847_get_line_buffer`, `mc6847_run`) | two chained DMA channels, `dma_pong`, `v_scanline`, `vactive_cmdlist_posted`, `line_request_queue`, `line_buffer_pool`, PIN_VSYNC | transfer done, `dma_irq_handler`, take a request, draw a line, drive frame sync | line buffers read by DMA; frame sync pin read by handler and 6502 |
| Bus events (`atom_if.c`, `sid_event_handler`, `as_*`) | shadow memory, event ring, `out_ptr`, latched interrupt, `as_q`, SID and CRTC registers | 6502 write, event stored, handler installed, `eb_get_event`, dispatch, `as_reset`, `as_timer_callback` | shadow memory read by the drawing loop; `ui_q` |
| Keys and user interface (`handle_key`, `gpio_callback`, `ui.c`) | debounce timeouts, previous levels, `ui_q`, double click timeout, 80 column mode | edge, report, `ui_run`, `display_licence`, `capture` | `as_reset`, `mc6847_reset`; blocks the main loop of core 1 |
| 6847 generator (`draw_line`, `do_text`, `do_graphics`) | `mem_reg`, `counter`, `prev_mode`, border colour | draw one line | shadow memory |
| 80 column mode and console (`do_text_vga80`, `mc6847_outc`, message box) | cursor, 80 column registers | print, move, reset | shadow memory; shown by `display_licence` |
| Teletext (`teletext.c`) | CRTC registers, hold and double-height state | register write, draw one line | registers written on core 1, read on core 0 |
| Capture and USB storage (`capture.c`, `msc_app.c`) | files on the drive, `_disk_busy`, mounted volume | capture, mount, unmount, disk read and write | `tuh_task` from the main loop and from inside disk I/O |
| 6502 bus cycle (`sm.pio`, `eb_setup_dma`) | two state machines, five chained DMA channels, permission bits | one bus cycle | shadow memory, event ring |
| Start-up (`main`, `core1_func`) | what has been initialised, `core1_initted` | initialisations on both cores | everything |

What is hard here is order and time: interrupts that preempt the code that
shares their state, DMA that nobody waits for, queues whose overflow nobody
notices, a main loop that is held up for seconds, keys that bounce.
`PROJECT.json` lists each hazard at its line with the properties that watch it.

## Modules

`PicoQueue` is the SDK's queue as the firmware uses it: `TryAdd` drops.  (It
also stands for the FIFOs of the PIO, which drop in the same way.)

Each module has a type invariant.  It is checked, or proved, where another
argument rests on it; those of `Ui`, `Capture` and `Teletext` say what the
variables hold, and hold on the instances below as well.

### Scan-out: VideoMode, Raster, Scanout, ScanoutProofs, ScanoutTimelyProofs

`VideoMode` holds the vertical timing of a mode and the kinds of *segment* that
one DMA transfer sends: a blanking line, the commands that open a picture line,
or its pixels.  `Raster` is the abstract specification: the monitor receives
the segments of one frame, over and over, in their order; it knows no channels,
interrupts or drawing.  `Scanout` is the program.  `TransferDone` is the
hardware (finish, raise the interrupt, chain to the other channel);
`dma_irq_handler` is the whole handler, with one disjunct per branch;
`TakeRequest`, `FinishDrawing` and `DriveVsync` are the parts of one turn of
`mc6847_run` between which it may be preempted.  A line buffer is represented
by the number of the line it holds; one being overwritten is `Torn`.

The refinement mapping is `beam <- chan[running]`: what the monitor receives is
what the running channel was last given.

Timing assumptions, each in a formula of its own:
`HandlerMeetsDeadline`: the handler has reloaded a channel before the other one
ends (the command lists are padded for this).  It is part of every
specification.  `DrawingMeetsDeadline`: a line is drawn in less than a line
period.  Only `TimelySpec` and `FairTimelySpec` have it; `Spec` lets drawing be
arbitrarily slow.

| run | question | bounds |
|---|---|---|
| `scanout_any_speed` | With drawing at any speed, is the signal well formed (`ImplementsRaster`), does the handler keep in step with the channels (`ChannelsInStep`), and does a complete line stay complete while it is sent (`CompleteLineStable`)? | A frame of 4 blanking and 6 picture lines.  It has every kind of line, and lines before, at and after the one that drives frame sync. |
| `scanout_on_time` | With drawing on time: is each line sent the right one (a dropped request would leave an older one in its buffer), does PIN_VSYNC follow the beam, is the measured frame sync line one of two, do picture and frame sync go on for ever? | None: the timing is that of the mode the firmware is built for (10/2/33/480). |

Observations: the first picture line of the first frame is sent from a blank
buffer, since a line is only drawn on the request of the one before it.
`FS_SETPOINT` is 476, but the measured line is 478 or 479; the correction that
would use the difference is commented out.  The mode 800x600 has a front porch
of one line and does not satisfy `ModeAssumption`: both channels are cued with a
vsync_off line, so its first frame begins with one blanking line too many.

### Bus events: EventQueue, BusEvents, BusHistory, BusEventsProofs

`EventQueue` is the abstract specification: a FIFO queue of the addresses the
6502 has written to, from which `eb_get_event` takes the oldest.  `BusEvents`
is the program.  `BusWrite` and `StoreEvent` are the last two transfers of the
DMA chain; `EnableInterrupt` and `AcknowledgePending` are the two halves of
`eb_set_exclusive_handler`; the handler is split where another event may come
in (`EnterHandler`, `GetEvent`, `Dispatch`, `FindEmpty`); `as_reset`,
`as_timer_callback` and `TakeUiEvent` are the code it preempts.  The refinement
mapping takes the slots from `out_ptr` to `in_ptr` as the queue.

`BusHistory` adds history variables: the events that are really unread, what
the 6502 has programmed, whether anything was lost or read late.

`HandlerKeepsUp` is the timing assumption that the ring is never lapped.
`Spec` and `HSpec` do not have it: nothing drains the ring between `eb_init`
and `as_run`.  Fairness: a stored byte is followed by its event, and an enabled
interrupt is taken.  The 6502 need not write.

| run | question | bounds |
|---|---|---|
| `bus_timely` | Without laps, is the ring a FIFO queue, is every event fetched (`OldestEventFetched`), and does an interrupt ever get lost (`NoLostWakeup`)? | 4 slots, a key cell, one other cell and both CRTC ports, no SID registers |
| `bus_any_speed` | With laps and drops: do SID and CRTC settle on what was written (`SidSettles`, `CrtcAgrees`)? | 2 slots, at most `MaxUnread` = 3 unread events (one more than a lap), two values |
| `bus_reset` | Does `as_reset` stop the noise, as `atom_sid.h` says? Not when `as_q` is full. | as above |

The exception in `NoLostWakeup` is real: `eb_set_exclusive_handler`
acknowledges after it has enabled the interrupt, and an event stored in between
waits in the ring for the next write.

Observations: -1 from `eb_get_event` means "the queue is empty" (`atom_if.h`),
but a ring with exactly `EB_EVENT_QUEUE_LEN` unread events gives -1 as well, and
one with more looks as if it had a few: that is why `ImplementsEventQueue` is
checked, and proved, under `HandlerKeepsUp`.  The handler has some 32 cycles of
the 6502 for that, at 3 cycles or more a write; but from `eb_init` to `as_run`
there is no handler, and a 6502 that writes then laps the ring.  Those events
are lost, and the SID catches up with the next write of each register.

### 6502 bus cycle: BusCycle, BusCycleProofs

`BusCycle` is what happens below `BusEvents`, where no processor takes part.
Each cycle of the 6502, a PIO program samples the address from eight pins, in
two halves that a multiplexer connects in turn; two DMA channels use it to fetch
the cell's byte and permissions; `eb2_access` then answers a read, leaves the
cell to others on the bus, or waits for the end of the cycle to take the byte of
a write; and two more channels store byte and event while the next cycle is
under way.

The actions follow the hardware's units.  `ArmAddress`, `SampleAddress` and the
edge (`AddressEdge` in `Fall`) are the address program; `r65c02mode` selects
between its two variants, which differ in when they sample.  `PullWord`,
`ArmAccess` and `AccessEdge` are `eb2_access`, with `AcceptWrite`, `AnswerRead`
and `LeaveToOthers` as its branches.  `MoveAddress`, `ReadData`, `MoveAddress2`,
`WriteData` and `StoreEvent` are the five channels: a channel in `busy` has its
one transfer still to do.  `eb_set_perm_byte` and `eb_set` are core 1, at any
time, in the middle of a cycle too.  Instructions of a program between which
nothing that it shares is touched are one step.  Both programs see the falling
edge in the same step, since both wait for the same pin in step with the same
clock (`pio_enable_sm_mask_in_sync`), and the byte is sampled while the outputs
change: `TakeByte` reads the pins as they were.

The pins are inputs until the first read is answered, and then outputs for
ever: `set pindirs, 0` is to release them at the end of a cycle, but
`sm_config_set_set_pins` is called for 8 pins and puts that count into a field
of three bits; the carry goes to the field above it, which `sm_config_set_sideset`
overwrites (`SET_COUNT`, `ReleasePins`).  From then on the firmware drives the
pins while the multiplexer drives them with an address or a byte, and what the
programs sense may be anything.  `bus` is the cycle as they sense it: what the
6502 does as long as the pins are inputs, and any address and byte later on; the
direction has a pin of its own.  `driven` is history: the pins were outputs when
the cycle began.  What is read while the multiplexer is switched off is any value
too.  `ram`, `seen_perm` and `seen_data` are history: what the cell written may hold,
and what the cell addressed may have answered, with both outcomes allowed where
core 1 interferes with the very cell.

Two timing assumptions, each a formula of its own, take the place of the clock
cycles: `Settled`, that programs and channels have nothing left to do when the
6502's clock changes (they need a few dozen cycles of a clock of 240 MHz, and
half a cycle of the 6502 is 120), and `StoreIsDone`, that byte and event of the
last cycle are stored before the next address is sampled (`ADDR_DELAY`, or half
a cycle).  Without the second the next address reaches `write_data_chan` before
the byte does, and the byte is stored in the wrong cell.

The refinement mapping of `ImplementsBus` takes `write_addr`, while the event
channel has it to store, as the event in flight, and leaves the handlers of
`BusEvents` at rest: `WriteData` is `BusWrite`, `StoreEvent` is `StoreEvent`,
the other steps are stutters.  What `BusEvents` assumes of the bus, an event
after each byte and none for cells that the 6502 may not write to, is then what
the PIO and DMA programs do.

| run | question | bounds |
|---|---|---|
| `bus_cycle` | Up to the first answer, are the pins driven for that answer only, and is the data bus ever connected against the permissions of the cell sensed (`NoContention`)? Is every cycle dealt with before it ends, a read answered with what the cell sensed has held (`ReadsAnswered`), a byte taken stored in the cell sensed and nothing anywhere else (`WritesStored`), whatever cycles came before? Is this the bus of `BusEvents` (`ImplementsBus`)? | One cell of each kind: writable and readable, write-only, read-only, foreign. Two values. Both address programs, any sequence of cycles, a ring of two events. |

What this does not say: that after the first answer the address sensed is the
6502's.  It is not, as far as the configuration of the pins goes (above); the
comments of `sm.pio` (line 42, "calculates a pico address from the 6502's
address", and line 96, "gets data from 6502 bus") are true of the model up to
that answer, and of any build that does release the pins.  For the rest the
properties hold of the address and the byte that are sensed.

Observations: No cell has
`EB_PERM_READ_SNOOP`, so the snoop branch of `eb2_access` is not modelled.
At start-up `mc6847_init` starts the bus before `as_init` grants the permissions
of the SID: `Init` has the early permissions, and the late ones arrive in any
order while the 6502 runs.

### Keys and user interface, 80 column console: Ui, Console, UiProofs

Time is a number of ticks, and a timeout is the time that is left until it.
`Change` is the contact of a key, `gpio_callback` the interrupt with the whole
of `handle_key`, `ui_run` and `display_licence` one turn of their loops,
`FinishCapture` the end of a capture.  `Spec` lets keys change at any time and
holds the main loop up at will.  `PromptSpec` assumes that a key bounces
for at most `BounceTime` and is then held (`KeysBehave`), that the main loop
handles events within a tick (`MainIsPrompt`), and that the 6502 does not flood
the queue (`QueueHasRoom`); `FairPromptSpec` adds that the main loop runs.
`BounceAssumption` says that keys bounce for no longer than the debounce time,
and are held until it is over, however late in the bounce it began.

`Console` is the text of the licence page, a pure algorithm that `Ui` extends.
`mui_left_justified_msgbox` breaks a text into lines with a position of its own
and moves the cursor of `mc6847_outc` to each word; a word with newlines in it
(`strtok_r` splits at blanks only) counts with all its pieces when the code asks
whether it fits.  A text is a sequence of words, a word the lengths of its
pieces; `gpl3_notice` is the one of `licence.h`.  `LicenceReadable` says that
while the licence is shown, every word is within the frame, in one piece but for
its newlines, and apart from every word before.  `BoxAssumption` makes the small
boxes high enough for their texts, as nothing in the code does.  The cursor of
`mc6847_outc` wraps at row 25 though the screen has 40; rows of the page go on
to 29.  It does no harm, since the box moves the cursor for every word and no
line reaches column 79, where the wrap is.  The newline of `mc6847_outc` is not
modelled: nothing prints one.

| run | question | bounds |
|---|---|---|
| `ui_prompt` | Is each press and release reported once? Does the licence need a real double click, end, and leave the normal screen? Can it be read (`LicenceReadable`)? | debounce 2 ticks, double click 8 (longer than the fastest double click, 6), 4 queue entries. Texts: the licence in its box of 65 by 21, and every text of three words of one or two pieces in a box of 5 by 10: words that fit, that just fit, that go to the next line, and newlines at either end of a word. |
| `ui_noise` | Is noise ignored, as `main.c` says? No: a spike counts as a press whose release never comes. | as above |

Without `MainIsPrompt` two of the properties fail, and no run shows these
hazards: the double click is timed
when the events are handled, so that a capture turns two slow clicks into one;
and a BREAK while the main loop is on its way to the licence page resets the
screen before the page sets the 80 column mode, which then stays.

### 6847 generator: DrawLine, DrawLineProofs

`draw_line` finds the bytes of a line from static variables that it advances
from line to line, so a line depends on every line drawn before it.  `Advance`
is the end of `draw_line`, `RowStart` its beginning, `do_text_vga80` the line of
the 80 column screen that is drawn instead.  The 6502 (`ChangeScreen`) and a
dropped request (`Skip`) disturb this between any two lines, as often as they
like.  Three variables are history: `steady`, draw_line has drawn every line since
the one above the picture, in one mode; `first_drawn`, it has drawn the first line
of the picture; and `cuts`, how many lines it has drawn since in another mode
than the line before.  Fairness: the beam goes on.

| run | question | bounds |
|---|---|---|
| `draw_line_frames` | Is every row of an undisturbed frame made of the bytes after those of the row above (`RowsInOrder`), and do the two ways in which text finds its character agree (`CharactersWhole`)? Are the bytes of a line within the video memory, as long as it has room for the rows cut short in this frame (`InVideoMemory`)? Is a line of pixels as long as its buffer (`LineFilled`)? Does a disturbed picture recover (`GlitchesEnd`)? | 56 lines, 48 of them in the picture: two rows of text, 8 to 24 rows of graphics. One mode of text and two of graphics, with different lines per row. Any number of disturbances in a frame, one or more per line; 832 bytes of video memory, room for three rows cut short, which are counted up to four (`MaxCuts`). In a frame whose first line was not drawn `mem_reg` runs on, from frame to frame; the screen is left alone once it is beyond `MaxStale`. |

Observations: `prev_mode` is compared after the line has been drawn, so a mode
that changes between the line above the picture and its first line leaves the
picture one row off for the whole frame.  If the first line belongs to the
80 column screen, `mem_reg` is not reset and goes on from where it was; lines
drawn later in that frame come from beyond the video memory.  The same happens
slowly with each change of mode within a frame: the real memory has room for 127
of them, and a picture has 384 lines.  (It is the wrong picture and no worse:
`eb_get` takes 16 bits of address, and the shadow memory has as many cells.)
`LineFilled` includes the 80 column screen, whose two loops
write 640 pixels: a build with another width (the teletext build has 720 by 576)
would keep 80 pixels of older lines beside it, and the lines below row 40.

### Teletext: TeletextRow, Teletext, TeletextProofs

`TeletextRow` is a pure algorithm: `DrawRow` follows the loop over the columns,
an attribute record at a time; `Reference` says for each column which codes
before it count.  `Teletext` is the frame around it: what `do_teletext` knows of
other rows is `next_double`, the row that is the lower half of a double row,
set while a row is drawn and kept from line to line, while the 6502 writes to
the page (`WriteRow`) and lines are skipped.  Fairness: the beam goes on.

| run | question | bounds |
|---|---|---|
| `teletext_frames` | Are rows drawn as their codes say (`RowsAgree`)? Do upper and lower halves match in an undisturbed frame (`HalvesMatch`), and again after a disturbance (`GlitchesEnd`)? Do flashing text and the cursor keep flashing (`FlashesForever`)? | Every row of 4 characters over 17 codes and characters, as an upper and as a lower half: hold needs three (graphics, mosaic, hold) and the fourth disturbs it. 14 lines, 5 rows of 2 lines, every set of rows with double height, two disturbances in a frame. |

Observations: `teletext_line_no` has a formula for modes with fewer lines than
the page, which has its fraction the wrong way round; the teletext build has
576 lines and does not use it.  The start address and the cursor are register
pairs, and a line may be drawn from a torn one.

### Capture and USB storage: Storage, Capture, CaptureProofs

A disk call of FatFs waits for its transfer by calling `tuh_task`, whose
callbacks mount and unmount drives, and mounting makes disk calls of its own.
`Storage` models this as a stack of FatFs calls in progress (`calls`) over one
shared `_disk_busy`; a transfer knows the depth of the call it is for, and a
disk call the drive that answered it, if any.  `Plug`, `Unplug` and
`CompleteTransfer` are the user and the drive.  `Capture` puts the sequence of
`capture` on top: `EndMkdir` ... `EndList` are what the program does when one
call of FatFs has returned.  Three variables are history: `disturbed`, the drive
was unplugged since the outermost call began; `made`, this capture has written a
whole image; and `stale`.

`stale` says that FatFs may trust sectors that are not the drive's: a drive has
been unplugged in the middle of a call, or has refused a transfer, which
`disk_io_complete` does not look at.  Nothing in the code notices.  The call goes
on, and so do those after it, until a drive is mounted from the main loop.  They
may return anything (`Results`, `Recognised`) and write directory sectors of one
drive to another: every transfer of theirs may leave any directory on the drive
that is plugged in (`Damaged`).  A call whose own transfer was lost or refused may
have done its work or not (`Begun`).  Of all this the code promises nothing:
`NothingOverwritten` and `CaptureLeavesImage` are about steps at which the
sectors are the drive's, the first also about the step that makes them stale.
What has been there before them is not excluded.

Without `stale`, FatFs does what it should, which need not be success.  A drive
may be full (`room`): `f_mkdir` may fail, and then `last_file_number` cannot open
the directory and `capture` returns; `f_open` may fail; and `f_write` writes
nothing, without an error.  libpng may give up for want of memory (`gave_up`).  A
volume that could not be read when it was mounted is mounted again by each call
that takes a path (`Remounts`).

Assumed of TinyUSB: it reports events in order, and never reports the transfer
of a drive that has been unplugged.  Assumed of FatFs: a call looks at the mounted
volume when it begins, and then makes some disk calls.  Fairness: the main loop
runs and a drive answers a transfer, if only to refuse it.  Nobody need press a
key or plug anything in, so the system may stop, and deadlock is not checked.

| run | question | bounds |
|---|---|---|
| `capture_swaps` | Does no transfer outlive the call whose buffer it uses (`TransferIsAwaited`)? Is I/O blocking as long as the drive stays (`UndisturbedIsBlocking`)? As long as FatFs works on the drive's sectors, is no image overwritten (`NothingOverwritten`), and does a capture to a drive with room leave a new image (`CaptureLeavesImage`)? Does the main loop return (`MainLoopReturns`)? | A drive that works and one that fails its inquiry, plugged in three times: before, during and after the nested mount. Two disk calls within a call of FatFs, two chunks of an image, three file numbers; one name taken at first, or after damage (`MaxTaken`), so that captures of a session fill the others. 3.1 million states. |
| `capture_blocking` | Is disk I/O blocking whatever happens, as `disk_ioctl` assumes? No: see below. | one drive, plugged in twice |

`_disk_busy` belongs to a drive number and not to a call.  When the drive is
unplugged during `disk_write`, nobody clears the flag, and core 1 waits in
`wait_for_disk_io` (that is why `MainLoopReturns` asks for a drive to be plugged
in at last).  Plugging it in again mounts it from inside the wait; the read of
`f_mount` sets and clears the flag, and the outer `disk_write` returns `RES_OK`
for a transfer that was lost.

Other observations: a full drive makes `f_write` write nothing without an error,
and `user_write_data` calls it for ever (`MainLoopReturns` asks for room).  A swap
in the middle of a capture can damage the directory of the drive plugged in last,
and so can a refused transfer: `disk_read` and `disk_write` never return an
error.  A directory, or a file with another case, that has the name of the next
image makes this and all later captures fail.

## Proofs

`ScanoutProofs` proves, for every mode that satisfies `ModeAssumption`,
`PoolAssumption` and `SyncAssumption` and without any assumption on drawing:

- `TypeCorrect`: `Spec => []TypeOK`.  `TypeOK` is inductive.
- `InStep`: `Spec => []ChannelsInStep`.  `ChannelsInStep` is the inductive
  invariant of the handler: while no reload is due, the idle channel holds the
  successor of the segment being sent and the handler will post the successor
  of that; while one is due, the handler will post the successor of the segment
  being sent to the idle channel.  It needs the first conjunct, that the
  command list flag is only set in the picture, and `TypeOK`.
- `RasterImplemented`: `Spec => ImplementsRaster`.  A finished transfer is a
  step of `Raster` by `ChannelsInStep`, every other step is a stutter.
- `CompleteLinesStay`: `Spec => CompleteLineStable`.  Two lemmas carry it:
  `NoRequestWhileStreaming`, since by `ChannelsInStep` the handler posts the
  opening of the next line while pixels are sent, and `OtherBuffer`: a line and
  the one drawn for it have different buffers, across the end of the frame too,
  because the pool divides the picture.

`ScanoutTimelyProofs` proves, for every mode and every size of the pool, what
holds under `TimelySpec`, that is, with every line drawn within a line period:

- `LinesAreTheirOwn`, `SyncTracksBeam`, `MeasurementBounded`:
  `TimelySpec => []LineIsItsOwn`, `[]VsyncTracksBeam`, `[]FsMeasurementBounded`.
  `DrawingMeetsDeadline` speaks of the moment at which pixels start; what makes
  the three hold is how far behind the drawing may be at any other.  `TimelyInv`
  says it: the loop has drawn what was requested (`UpToDate`), or is one line
  behind, or two, and two only while the pixels of the second are posted but not
  yet sent (`NoneLeft` is the step that forbids more).  `Ready(a)` says what the
  loop has done when line `a` is the next it must draw: that line and those
  after it, a pool less one in all, are in their buffers (`Ahead`), and frame
  sync has the level of the line before (`PinAt`).  `DrawAdvances` takes `Ahead`
  one line further; `DistinctBuffers` is why a line being drawn harms none of
  them.  `StreamedLine` and `BlankedLine` relate the beam to the next request.

`BusEventsProofs` proves, for every length of the ring and of the queues, and
for every set of addresses and values that satisfies `SizeAssumption` and
`AddressAssumption`:

- `TypeCorrect`: `Spec => []TypeOK`, laps included.  `TypeOK` says that the
  handler dispatches on addresses only, but the ring holds zeroes until the DMA
  has been round once, so `TypeOK` alone is not inductive.  `WrittenSlots`
  makes it so: the slots below `in_ptr` hold addresses, and if `out_ptr` is
  above `in_ptr`, which takes a writer in its second round, all slots do.
- `WakeupNeverLost`: `Spec => NoLostWakeup`, laps included.  It needs no
  invariant: the handler acknowledges before its first look at the ring, and
  finds the ring empty in the step in which it returns.
- `RingIsAQueue`: `TimelySpec => ImplementsEventQueue`.  `StoreIsPut` shows
  that an event stored under `HandlerKeepsUp` is appended to the queue the
  pointers delimit, `GetIsGet` that `eb_get_event` takes its head; every other
  step leaves ring and pointers alone.  Of the invariant it needs the types.
- `SidIsRight`, `CrtcIsRight`: `HSpec => []SidSettles` and `HSpec => []CrtcAgrees`,
  without `HandlerKeepsUp`.  As long as nothing is lost, `unread` counts the ring
  (`HInv`), so that `StoreIsPut` and `GetIsGet` hold here too, and a write to an
  address has a place until it is dispatched (`At`): in the handler, in the ring
  or still with the DMA.  The lemmas `...Moves` say how each step moves the
  places.  `SidInv`: a register written since the last reset has a place, or the
  last element of `as_q` that affects it, a reset being one, holds its byte.
  `CrtcInv`: if no byte was late, each port has one place at most; a port without
  one is settled, and what the data port will be written to is the register that
  the index port holds or, if that port is ahead of it, is going to hold.

`DrawLineProofs` proves, for every size of the picture, every set of modes and
any number of disturbances:

- `TypeCorrect`: `Spec => []TypeOK`.
- `RowsCorrect`: `Spec => []RowsInOrder`.  That the address fits the line is not
  inductive, since it says nothing of `counter`.  `RowInv` does: in a steady
  frame there is a row such that `mem_reg` is the bytes of a row times it, and
  `counter` the number of its lines that are left.  `FirstLine` establishes it
  at the top of the picture, where the line above has made `prev_mode` the mode;
  `LaterLine` keeps it, with one case for the last line of a row.
- `CharactersCorrect`: `Spec => []CharactersWhole`, from `RowsCorrect` and the
  arithmetic of 24 lines in a row of text.
- `BytesAreInMemory`: `Spec => []InVideoMemory`.  `MemInv` is a bound on `mem_reg`
  that counts: each line of the picture so far moves it by 16 bytes at most,
  since a row of 32 has two lines or more, and a row that is cut short by another
  16.  The property has the number of such rows in it, and says nothing of a frame
  with more of them than the memory has room for.
- `LinesAreFilled`: `Spec => []LineFilled` for lines of 640 pixels, the width that
  `do_text_vga80` assumes, and for any number of lines.

`BusCycleProofs` proves, for any cells, bytes, length of the ring and sequence of
cycles (`CellAssumption`, `ValueAssumption`), and with core 1 writing at any time:

- `TypeCorrect`: `Spec => []TypeOK`; no FIFO ever holds a second entry.
- `PinsAreSafe`, `ReadsAreAnswered`, `WritesAreStored`: `NoContention`,
  `ReadsAnswered` and `WritesStored` always hold.  None is inductive: what an
  edge may find depends on how far both programs and all five channels have
  come.  They are about the address and the byte sensed (`bus`), and so hold with
  pins that stay outputs: `PinsKept` says that they are what they were when the
  cycle began (`EdgeKeepsPins`).  `Stage` says that it is one of six stages
  (`Starting`, before the first whole cycle; `Sampling` the address, while the
  last cycle's byte and event are stored; `Sampled`, `Fetching`, `Fetched`, and
  `Armed` for the write), and `Access` what `eb2_access` has done by then.
  `Seen` relates a cycle's permissions and bytes to what the cell has now,
  `Memory` the cells to what was written, but for the byte on its way.  There is
  one lemma per action: each takes one stage to the next.  The edge itself is
  `FallStep`: `Settled` leaves `Starting` and `Armed` only.
- `BusImplemented`: `Spec => ImplementsBus`.  `BusView` is what `BusEvents` sees;
  a stored byte is its `BusWrite`, a stored event its `StoreEvent`, and all other
  steps leave the view alone.  The theorems about `BusEvents` so rest on a bus
  that has been proved to be one.

`UiProofs` proves, for every debounce time and `PromptSpec`:

- `PressesReported`: `PromptSpec => []RestingKeyReported`.
- `ReportsAreNew`: `PromptSpec => ReportsAlternate`.

  Both use `KeysBehave` only, and so hold whatever the main loop does.  They
  follow from `KeyInv`: either the movement of a key has not been reported and
  its last debounce time is over (`Pending`), or it has been (`Done`), and the
  debounce time that then began outlasts the bouncing, but not the key's rest.
- `ScreenComesBack`: `PromptSpec => []NormalScreenRestored`.  An event of BREAK is
  handled in the tick it is posted in (`MainIsPrompt`), and debouncing lets no
  second one come by then (`OneBreak`), so that none overtakes another.
  `ScreenInv`: 80 columns are shown only while the licence is, with BREAK up and
  its release handled.
- `LicenceIsAskedFor`: `PromptSpec => []DoubleClickIsReal`.  `ClickInv`: the time left
  for a double click and the age of the last release are at most
  `DOUBLE_CLICK_TIME` together.
- `LicenceCanBeRead`: `PromptSpec => []LicenceReadable`.  It is about the message
  box and not about the state.  `TextIsReadable` is the general result: a text
  whose pieces fit into the lines of a box on the screen, and whose last line is
  above the lower frame, is readable, however many words it has and wherever its
  lines break.  It rests on `CellsAre` (the characters of a word are in the box,
  not before its start, and a blank before the place after it) and `WordsInOrder`
  (no word starts before the place after an earlier one).  How many lines a text
  takes is left to show.  A word of two pieces takes two at most
  (`RowsOfShortWords`), so that `BoxAssumption` gives the small boxes; the notice
  is followed line by line (`NoticeLines`) and ends in row 25 of a box whose
  frame is in row 30.

`CaptureProofs` proves, for any drives, any number of plugs and unplugs, and any
length of FatFs calls and images:

- `BufferIsInUse`: `Spec => []TransferIsAwaited`.  It needs `NestedMounts`: a
  call of FatFs below the top of the stack waits for the drive, and what is on
  top of it is the `f_mount` of a callback, so that a call that returns takes no
  transfer with it.
- `BlockingWhileUndisturbed`: `Spec => UndisturbedIsBlocking`.  All depends on
  which drive an event still to be handled is about.  `EventOrder` says it
  without naming drives: of two that are mounted, about to be, or yet to come,
  the first has its "detach" between them, so that a drive is mounted only when
  none is (`MountsOnce`).  `Reported`, `UnderWay` and `Known` tie the transfer to
  a drive that is mounted and still there, and make the inquiry come before the
  volume.  Then, as long as nothing is unplugged, one call runs alone, and has
  either its transfer or its answer (`Settled`).
- `ImagesAreKept`: `Spec => NothingOverwritten`.  What a capture has come to in
  each of its calls of FatFs (`Reached`) holds as long as nothing is stale: when
  it looks for a number one is left; when it opens a file the number is above
  all that count; and the file it writes is the one that it has created, on the
  volume that is mounted.  That callbacks undo none of it (`Reaching`) needs the
  invariant above: as a disturbance leaves stale sectors (`Trusting`), no volume
  comes or goes otherwise; and a volume is left unread by stale sectors only
  (`Rested`).  Each of the two invariants is needed to keep the other
  (`StrongInvariance`).
- `ImageIsLeft`: `Spec => CaptureLeavesImage`, from the same invariant: a capture
  that ends with its list, as it must if there is room, has come to `Reached("ls")`.

`TeletextProofs` proves, for any number of rows and of lines per row:

- `HalvesAreRight`: `Spec => []HalvesMatch`.  Whether a row is a lower half
  depends on the run of double rows above it, of any length; the invariant
  `Drawn` says of each line what it leaves in `next_double`: the row itself if
  it is a lower half, the row below if that is one, and else an older row.
- `RowsAreRight`: `Spec => []RowsAgree`, for rows of any length.  `AttributesRight`
  says which attributes the loop has after any number of columns, in terms of the
  codes before it that count (`LastOf`); `PreStep` and `PostStep` are its two
  halves, and `CellIs` what is drawn between them.

The loops over the columns of a row and over the words of a text are recursive
functions.  The induction theorems of the library take an operator, which the
provers cannot instantiate; but that `<` is well-founded on the naturals gives
every set of numbers a least element (`Minimum`), so that what holds of all
columns or words is shown of the first one where it would not hold.  That the
recursive functions exist is shown in the same way (`AttributesExist`,
`RecursionExists`).

Only model-checked: the liveness properties (`FrameSyncForever`,
`ImplementsLiveRaster`, `OldestEventFetched`, `LicenceEnds`, both `GlitchesEnd`,
`MainLoopReturns`, `FlashesForever`), since the provers have neither fairness nor
ENABLED.  All safety properties of the passing runs are proved.

## Not modelled

Pixels, palettes, fonts, the translation of characters, clocks and pin set-up,
the debug display and the scrolled page of teletext, the contents of an image,
drives on a hub, the snoop branch of `eb2_access`, `eb_pause`, `eb_resume` and
`as_run_async` (never called), `bench.c` and `asm.c` (not part of the running
firmware).  The pace of `as_run`, which misses samples while an interrupt runs,
is a matter of microseconds that the models do not have.

Start-up is modelled where something else already runs meanwhile (the bus,
the display); the rest is a sequence without branches.  `teletext_init` is
called twice, by `mc6847_init` and by `core1_func`, to the same effect.

The largest part of the repository is third-party code: libpng and zlib, which
`capture` uses to write an image, and reSID, which turns registers into samples.
They are taken as given (`Results` in `Capture`, the register array in
`BusEvents`).

## Plan

Done: scan-out, bus events, bus cycle, keys, console, address generator,
storage and capture, teletext; every safety property of the passing runs is
proved.  What is left is under "Only model-checked" and "Not modelled".
