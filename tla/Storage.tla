------------------------------ MODULE Storage ------------------------------
(***************************************************************************)
(* The USB drive as the main loop sees it (msc_app.c): TinyUSB reports     *)
(* events from tuh_task, FatFs does disk I/O, and a disk call waits for    *)
(* its transfer by calling tuh_task.  So the callbacks of a drive that is  *)
(* plugged in can run in the middle of a disk call, and start disk calls   *)
(* of their own on top of it; all of them share one flag, _disk_busy.      *)
(*                                                                         *)
(* One drive is plugged in at a time, always at the same address.  TinyUSB *)
(* and FatFs are external.  Of TinyUSB: events are handled in order, and   *)
(* the transfer of a drive that is unplugged is never reported.  Of FatFs: *)
(* a function does a number of disk calls, and trusts that the sectors it  *)
(* has read, and keeps, are those of the drive.                            *)
(***************************************************************************)
EXTENDS Naturals, SequencesExt

CONSTANTS
  Drives,
  Silent,       \* those among them that fail the inquiry
  NoDrive,
  Unread,       \* a volume is registered, but not (or not yet) readable
  MaxPlugs,     \* bound: how often a drive is plugged in
  MaxIO         \* bound: disk calls within one call of FatFs

ASSUME StorageAssumption ==
  /\ Silent \subseteq Drives
  /\ NoDrive \notin Drives /\ Unread \notin Drives \cup {NoDrive}
  /\ MaxPlugs \in Nat /\ MaxIO \in Nat \ {0}

VARIABLES
  drive,        \* the drive that is plugged in, or NoDrive
  plugs,        \* how often one has been
  usb,          \* events that tuh_task has not handled yet
  mounted,      \* tuh_msc_mounted
  xfer,         \* TinyUSB's transfer, and the disk call (depth) it is for
  _disk_busy,
  volume,       \* the drive whose file system FatFs has mounted
  handle_ok,    \* the file or directory that is open belongs to it
  calls,        \* calls of FatFs in progress, the innermost last
  disturbed,    \* history: the drive was gone since the outermost began
  stale         \* history: FatFs may trust sectors that are not the drive's

usbVars     == <<drive, plugs, usb, mounted, xfer>>
storageVars == <<usbVars, _disk_busy, volume, handle_ok, calls, disturbed,
                 stale>>

NoTransfer == [kind |-> "none", state |-> "over", from |-> NoDrive, for |-> 0]

(* A call of FatFs: the number of its disk calls, whether it waits in one,
   and the drive that has answered that one. *)
Begin(op) == [op |-> op, ios |-> 0, waiting |-> FALSE, answer |-> NoDrive]

Top         == calls[Len(calls)]
SetTop(c)   == [calls EXCEPT ![Len(calls)] = c]
Running(op) == calls # <<>> /\ Top.op = op /\ ~Top.waiting

(* The drive that the firmware means is not there any more. *)
Gone == drive = NoDrive \/ Contains(usb, "detach")

StorageTypeOK(ops) ==
  /\ drive \in Drives \cup {NoDrive} /\ plugs \in 0 .. MaxPlugs
  /\ usb \in Seq({"attach", "detach", "complete", "failed"})
  /\ mounted \in BOOLEAN
  /\ xfer.kind \in {"none", "inquiry", "io"}
  /\ xfer.state \in {"over", "under way", "reported", "lost"}
  /\ xfer.from \in Drives \cup {NoDrive}
  /\ xfer.for \in 0 .. Len(calls)
  /\ _disk_busy \in BOOLEAN
  /\ volume \in Drives \cup {NoDrive, Unread} /\ handle_ok \in BOOLEAN
  /\ calls \in Seq([op : ops \cup {"mount"}, ios : 0 .. MaxIO,
                    waiting : BOOLEAN, answer : Drives \cup {NoDrive}])
  /\ disturbed \in BOOLEAN /\ stale \in BOOLEAN

StorageInit ==
  /\ drive = NoDrive /\ plugs = 0
  /\ usb = <<>>
  /\ mounted = FALSE
  /\ xfer = NoTransfer
  /\ _disk_busy = FALSE
  /\ volume = NoDrive /\ handle_ok = FALSE
  /\ calls = <<>>
  /\ disturbed = FALSE /\ stale = FALSE

-----------------------------------------------------------------------------
(* The user and the drive. *)
Plug ==
  /\ drive = NoDrive /\ plugs < MaxPlugs
  /\ drive' \in Drives
  /\ plugs' = plugs + 1
  /\ usb' = Append(usb, "attach")
  /\ UNCHANGED <<mounted, xfer, _disk_busy, volume, handle_ok, calls, disturbed,
                 stale>>

Unplug ==
  /\ drive # NoDrive
  /\ drive' = NoDrive
  /\ usb' = Append(usb, "detach")
  /\ xfer' = IF xfer.state = "under way" THEN [xfer EXCEPT !.state = "lost"] ELSE xfer
  /\ disturbed' = (calls # <<>>)
  /\ stale' = (stale \/ calls # <<>>)
  /\ UNCHANGED <<plugs, mounted, _disk_busy, volume, handle_ok, calls>>

(* The drive carries out a transfer or refuses it.  A refused inquiry fails; a
   refused read or write is complete, too, as nobody looks at its status: what
   is in the buffer then is not on the drive. *)
CompleteTransfer ==
  /\ xfer.state = "under way"
  /\ xfer' = [xfer EXCEPT !.state = "reported"]
  /\ usb' = Append(usb, IF xfer.kind = "inquiry" /\ drive \in Silent
                        THEN "failed" ELSE "complete")
  /\ stale' \in {stale, stale \/ xfer.kind = "io"}
  /\ UNCHANGED <<drive, plugs, mounted, _disk_busy, volume, handle_ok, calls,
                 disturbed>>

-----------------------------------------------------------------------------
(* disk_read and disk_write.  TinyUSB refuses the transfer if the drive is not
   mounted or another transfer is under way, but its answer is ignored.  (In
   the faulty variant the flag is not set.) *)
Submit ==
  xfer' = IF mounted /\ xfer = NoTransfer
          THEN [kind |-> "io", state |-> IF Gone THEN "lost" ELSE "under way",
                from |-> drive, for |-> Len(calls)]
          ELSE xfer

CallDisk ==
  /\ calls # <<>> /\ ~Top.waiting /\ Top.ios < MaxIO
  /\ calls' = SetTop([Top EXCEPT !.ios = @ + 1, !.waiting = TRUE, !.answer = NoDrive])
  /\ Submit
  /\ UNCHANGED <<drive, plugs, usb, mounted, volume, handle_ok, disturbed, stale>>

DiskIOUnmarked == CallDisk /\ UNCHANGED _disk_busy

DiskIO == CallDisk /\ _disk_busy' = TRUE

(* wait_for_disk_io returns, and the disk call with RES_OK.  (In the faulty
   variant it looks at events once, whatever they are.) *)
ReturnAnyway ==
  /\ calls # <<>> /\ Top.waiting
  /\ calls' = SetTop([Top EXCEPT !.waiting = FALSE])
  /\ UNCHANGED <<usbVars, _disk_busy, volume, handle_ok, disturbed, stale>>

Return ==
  /\ ~_disk_busy
  /\ calls # <<>> /\ Top.waiting
  /\ calls' = SetTop([Top EXCEPT !.waiting = FALSE])
  /\ UNCHANGED <<usbVars, _disk_busy, volume, handle_ok, disturbed, stale>>

-----------------------------------------------------------------------------
(* tuh_task handles the oldest event; it is called by the main loop and by
   wait_for_disk_io. *)
InTask(event) ==
  /\ calls # <<>> => Top.waiting
  /\ usb # <<>> /\ Head(usb) = event
  /\ usb' = Tail(usb)

(* A drive that is gone again is not enumerated. *)
NotEnumerated ==
  /\ InTask("attach") /\ Contains(usb, "detach")
  /\ UNCHANGED <<drive, plugs, mounted, xfer, _disk_busy, volume, handle_ok,
                 calls, disturbed, stale>>

tuh_msc_mount_cb ==
  /\ InTask("attach") /\ ~Contains(usb, "detach")
  /\ mounted' = TRUE
  /\ xfer' = IF xfer = NoTransfer
             THEN [kind |-> "inquiry", state |-> "under way", from |-> drive, for |-> 0]
             ELSE xfer
  /\ UNCHANGED <<drive, plugs, _disk_busy, volume, handle_ok, calls, disturbed,
                 stale>>

(* TinyUSB forgets the transfer, and the callback unmounts the volume. *)
tuh_msc_umount_cb ==
  /\ InTask("detach")
  /\ mounted' = FALSE
  /\ xfer' = NoTransfer
  /\ volume' = NoDrive /\ handle_ok' = FALSE
  /\ UNCHANGED <<drive, plugs, _disk_busy, calls, disturbed, stale>>

disk_io_complete ==
  /\ xfer.kind = "io"
  /\ InTask("complete")
  /\ xfer' = NoTransfer
  /\ _disk_busy' = FALSE
  /\ calls' = [calls EXCEPT ![xfer.for].answer = xfer.from]
  /\ UNCHANGED <<drive, plugs, mounted, volume, handle_ok, disturbed, stale>>

InquiryFailed ==
  /\ InTask("failed")
  /\ xfer' = NoTransfer
  /\ UNCHANGED <<drive, plugs, mounted, _disk_busy, volume, handle_ok, calls,
                 disturbed, stale>>

(* f_mount registers the volume, drops what FatFs kept of the one before, and
   reads it at once.  (In the faulty variant it leaves that to the first
   access.)  In the middle of another call it does not help: that one goes on
   with what it has read before. *)
MountLater ==
  /\ xfer.kind = "inquiry"
  /\ InTask("complete")
  /\ xfer' = NoTransfer
  /\ volume' = xfer.from /\ handle_ok' = FALSE
  /\ UNCHANGED <<drive, plugs, mounted, _disk_busy, calls, disturbed, stale>>

inquiry_complete_cb ==
  /\ xfer.kind = "inquiry"
  /\ InTask("complete")
  /\ xfer' = NoTransfer
  /\ volume' = Unread /\ handle_ok' = FALSE
  /\ calls' = Append(calls, Begin("mount"))
  /\ disturbed' = (IF calls = <<>> THEN Gone ELSE disturbed)
  /\ stale' = (IF calls = <<>> THEN Gone ELSE stale)
  /\ UNCHANGED <<drive, plugs, mounted, _disk_busy>>

tuh_task ==
  \/ NotEnumerated
  \/ tuh_msc_mount_cb
  \/ tuh_msc_umount_cb
  \/ disk_io_complete
  \/ InquiryFailed
  \/ inquiry_complete_cb

(* What FatFs finds on a volume that it reads: the drive that has answered
   (drives hold a file system); or, in sectors that are not the drive's, that
   of one or the other, or nothing it can use. *)
Recognised ==
  IF stale THEN {Unread, drive, Top.answer} \ {NoDrive} ELSE {Top.answer}

(* The end of f_mount. *)
EndMount ==
  /\ Running("mount") /\ Top.ios > 0
  /\ volume' \in IF volume = NoDrive THEN {NoDrive} ELSE Recognised
  /\ handle_ok' = FALSE
  /\ calls' = Front(calls)
  /\ disturbed' = (disturbed /\ Len(calls) > 1)
  /\ UNCHANGED <<usbVars, _disk_busy, stale>>

StorageStep == DiskIO \/ Return \/ tuh_task \/ EndMount

-----------------------------------------------------------------------------
(* A transfer is made for the innermost disk call, which waits for it: its
   buffer is never that of a call that has returned. *)
TransferIsAwaited ==
  xfer.kind = "io" =>
    /\ xfer.for = Len(calls) /\ calls # <<>> /\ Top.waiting
    /\ _disk_busy
    /\ Top.answer = NoDrive
=============================================================================
