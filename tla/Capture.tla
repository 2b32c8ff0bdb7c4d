------------------------------ MODULE Capture ------------------------------
(***************************************************************************)
(* A screen capture (capture.c) to a drive that may be unplugged, swapped  *)
(* or plugged in again at any time: the directory is made, its highest     *)
(* file number looked up, a new file opened, written in chunks (as libpng  *)
(* hands them to user_write_data) and closed, and the directory listed.    *)
(* capture runs from the main loop, so that nothing else of the firmware's *)
(* core 1 goes on meanwhile but callbacks from wait_for_disk_io.           *)
(*                                                                         *)
(* FatFs writes directory sectors as it has read them.  If they are those  *)
(* of another drive, or have not been read at all, anything may become of  *)
(* the drive they are written to.  The contents of an image are left out.  *)
(***************************************************************************)
EXTENDS Storage, FiniteSetsExt

CONSTANTS
  MaxFile,      \* bound: file numbers
  MaxTaken,     \* bound: names taken, at first and after such a write
  Chunks        \* chunks of an image

ASSUME CaptureAssumption ==
  MaxFile \in Nat \ {0} /\ MaxTaken \in Nat /\ Chunks \in Nat \ {0}

Numbers == 1 .. MaxFile

VARIABLES
  fnum,         \* the number of the file to be written
  todo,         \* chunks of it that have not been written
  entries,      \* what the drives hold under the name with a number
  room,         \* the drives are not full
  gave_up,      \* libpng has run out of memory
  made          \* history: the capture has left a whole image

locals      == <<fnum, todo, gave_up, made>>
captureVars == <<locals, entries>>
vars        == <<storageVars, captureVars, room>>

Ops == {"mkdir", "number", "open", "write", "close", "ls"}

(* A file that is cut short and a whole one; "other" is a directory, or a file
   whose name differs in case. *)
Entries == {"none", "cut", "whole", "other"}

Directories ==
  {e \in [Numbers -> Entries] :
     Cardinality({n \in Numbers : e[n] # "none"}) <= MaxTaken}

Counted(d) == {n \in Numbers : entries[d][n] \in {"cut", "whole"}}

TypeOK ==
  /\ StorageTypeOK(Ops)
  /\ fnum \in 0 .. MaxFile
  /\ todo \in 0 .. Chunks
  /\ entries \in [Drives -> [Numbers -> Entries]]
  /\ room \in BOOLEAN
  /\ gave_up \in BOOLEAN /\ made \in BOOLEAN

Init ==
  /\ StorageInit
  /\ fnum = 0 /\ todo = 0
  /\ \E d \in Drives \ Silent, e \in {e \in Directories : "cut" \notin Range(e)} :
       entries = [c \in Drives |-> IF c = d THEN e ELSE [n \in Numbers |-> "none"]]
  /\ gave_up = FALSE /\ made = FALSE
  /\ room \in BOOLEAN

-----------------------------------------------------------------------------
(* The results of a function of FatFs: those it should have, but for sectors
   that are not the drive's. *)
Results(should) == IF stale THEN BOOLEAN ELSE should

(* On a full drive there may be no cluster for what is created. *)
Creating == IF room THEN {TRUE} ELSE BOOLEAN

(* The functions that take a path need a volume.  If it could not be read when
   it was mounted, they try again. *)
Registered == volume # NoDrive

Remounts == volume' \in IF volume = Unread THEN Recognised ELSE {volume}

Readable == volume \in Drives

(* The next call of FatFs, or the end of capture. *)
Go(op) == calls' = <<Begin(op)>> /\ UNCHANGED <<disturbed, stale>>

Finish ==
  /\ calls' = <<>>
  /\ disturbed' = FALSE /\ UNCHANGED stale
  /\ fnum' = 0 /\ todo' = 0 /\ gave_up' = FALSE /\ made' = FALSE

GoList == IF Registered THEN Go("ls") /\ UNCHANGED locals ELSE Finish

(* (In the faulty variant the last number seen is taken for the highest.) *)
LastSeen(d) == IF Counted(d) = {} THEN 0 ELSE Min(Counted(d))

last_file_number(d) == IF Counted(d) = {} THEN 0 ELSE Max(Counted(d))

capture ==
  /\ calls = <<>>
  /\ Registered
  /\ \A d \in Drives : MaxFile \notin Counted(d)
  /\ calls' = <<Begin("mkdir")>>
  /\ disturbed' = Gone
  /\ stale' = (stale \/ Gone)
  /\ UNCHANGED <<usbVars, _disk_busy, volume, handle_ok, captureVars>>

(* The result of f_mkdir is ignored.  f_opendir, which last_file_number begins
   with, fails if there is no directory. *)
HasDirectory == Readable /\ \E n \in Numbers : entries[volume][n] # "none"

EndMkdir ==
  /\ Running("mkdir")
  /\ Remounts
  /\ \E opened \in Results(IF HasDirectory THEN {TRUE} ELSE Creating) :
       IF opened /\ Registered
       THEN Go("number") /\ handle_ok' = (volume' \in Drives) /\ UNCHANGED locals
       ELSE Finish /\ UNCHANGED handle_ok
  /\ UNCHANGED <<usbVars, _disk_busy, entries>>

(* f_readdir ends the search if it fails. *)
EndNumber ==
  /\ Running("number")
  /\ IF Registered
     THEN /\ fnum' \in IF stale THEN Numbers ELSE {last_file_number(volume) + 1}
          /\ Go("open") /\ UNCHANGED <<todo, gave_up, made>>
     ELSE Finish
  /\ handle_ok' = FALSE
  /\ UNCHANGED <<usbVars, _disk_busy, volume, entries>>

(* FA_CREATE_NEW.  (In the faulty variant FA_CREATE_ALWAYS, which replaces a
   file of the name.) *)
Put(entry) == [entries EXCEPT ![volume][fnum] = entry]

CreateAlways == Readable

CreateNew == Readable /\ entries[volume][fnum] = "none"

(* libpng has written its chunks, or gives up (by a longjmp) for want of
   memory: the file is closed in any case. *)
GoOn(left) ==
  \/ Go(IF left > 0 THEN "write" ELSE "close") /\ UNCHANGED gave_up
  \/ left > 0 /\ Go("close") /\ gave_up' = TRUE

EndOpen ==
  /\ Running("open")
  /\ Remounts
  /\ \E opened \in Results(IF CreateNew THEN Creating ELSE {FALSE}) :
       IF opened /\ Registered
       THEN /\ entries' = IF stale THEN entries ELSE Put("cut")
            /\ handle_ok' = (volume' \in Drives)
            /\ todo' = Chunks
            /\ GoOn(Chunks)
            /\ UNCHANGED <<fnum, made>>
       ELSE GoList /\ UNCHANGED <<entries, handle_ok>>
  /\ UNCHANGED <<usbVars, _disk_busy>>

(* f_write is called again until the chunk is written, also if it writes
   nothing.  If it fails, so do the calls for the chunks that follow. *)
user_write_data ==
  /\ Running("write")
  /\ \E written \in Results({TRUE}) :
       IF ~(written /\ handle_ok) THEN Go("close") /\ UNCHANGED <<todo, gave_up>>
       ELSE IF ~room THEN Go("write") /\ UNCHANGED <<todo, gave_up>>
       ELSE todo' = todo - 1 /\ GoOn(todo - 1)
  /\ UNCHANGED <<usbVars, _disk_busy, volume, handle_ok, entries, fnum, made>>

WholeWritten == handle_ok /\ todo = 0

EndClose ==
  /\ Running("close")
  /\ IF WholeWritten /\ ~stale
     THEN /\ entries' = Put("whole")
          /\ made' = TRUE
          /\ Go("ls") /\ UNCHANGED <<fnum, todo, gave_up>>
     ELSE GoList /\ UNCHANGED entries
  /\ handle_ok' = FALSE
  /\ UNCHANGED <<usbVars, _disk_busy, volume>>

EndList ==
  /\ Running("ls")
  /\ Remounts
  /\ Finish
  /\ UNCHANGED <<usbVars, _disk_busy, handle_ok, entries>>

CaptureStep ==
  EndMkdir \/ EndNumber \/ EndOpen \/ user_write_data \/ EndClose \/ EndList

Core1 == CaptureStep \/ (StorageStep /\ UNCHANGED captureVars)

-----------------------------------------------------------------------------
Innermost(op) == calls # <<>> /\ Top.op = op

(* What is on the drives when the drive is unplugged in the middle of a call,
   or refuses one of its transfers: the call may have done its work, or not. *)
Begun ==
  {entries}
    \cup (IF Innermost("open") /\ CreateNew THEN {Put("cut")} ELSE {})
    \cup (IF Innermost("close") /\ WholeWritten THEN {Put("whole")} ELSE {})

(* What may be there after a transfer for a call of capture that goes on with
   sectors which are not the drive's.  (The directory of a drive that fails the
   inquiry is never looked at, and is left as it is.) *)
Damaged ==
  IF xfer.kind = "io" /\ Top.op # "mount" /\ drive \notin Silent
  THEN {[entries EXCEPT ![drive] = e] : e \in {entries[drive]} \cup Directories}
  ELSE {entries}

Disturbance ==
  /\ Unplug
  /\ entries' \in IF stale' /\ ~stale THEN Begun ELSE {entries}

Transfer ==
  /\ CompleteTransfer
  /\ entries' \in IF stale THEN Damaged ELSE IF stale' THEN Begun ELSE {entries}

Environment ==
  (Plug /\ UNCHANGED entries) \/ Disturbance \/ Transfer

Next ==
  /\ capture \/ Core1 \/ (Environment /\ UNCHANGED locals)
  /\ UNCHANGED room

(* Fairness: the main loop runs on, and a drive answers.  Nobody need press
   the key or plug anything in. *)
Spec ==
  /\ Init /\ [][Next]_vars
  /\ WF_vars(Core1 /\ UNCHANGED room)
  /\ WF_vars(Transfer /\ UNCHANGED <<locals, room>>)

-----------------------------------------------------------------------------
(* When f_close synchronises, its disk calls have returned, and so their
   transfers are done: disk_ioctl has nothing to do for CTRL_SYNC "since we do
   blocking" (msc_app.c). *)
Returning ==
  /\ calls # <<>> /\ Top.waiting
  /\ Len(calls') = Len(calls) /\ ~calls'[Len(calls)].waiting

BlockingIO ==
  [][Returning /\ Top.op = "close" => Top.answer # NoDrive]_vars

(* Every disk call does so as long as the drive is not unplugged. *)
UndisturbedIsBlocking ==
  [][Returning /\ ~disturbed => Top.answer # NoDrive]_vars

(* As long as FatFs works on the sectors of the drive, no file is replaced,
   nor one whose name differs in case only: whatever has become of the drives
   before, and whatever becomes of a call of which a transfer is refused or
   lost.  Of the calls that go on after that the code promises nothing, until
   a drive is mounted again. *)
NothingOverwritten ==
  [][~stale => \A d \in Drives : \A n \in Numbers :
       entries[d][n] \in {"whole", "other"} => entries'[d][n] = entries[d][n]]_vars

(* A capture to a drive that stays where it is, carries out every transfer and
   is not full leaves a whole image there, and under the highest number; unless
   libpng gives up, or something that last_file_number does not count has its name, and
   then every later capture fails, too. *)
CaptureLeavesImage ==
  [][Len(calls) = 1 /\ Top.op # "mount" /\ calls' = <<>> /\ ~stale /\ room /\ ~gave_up =>
       /\ made \/ entries[volume][fnum] = "other"
       /\ \A n \in Counted(volume) : n <= fnum]_vars

(* If the drives are not full, and one that answers is plugged in at last, the
   main loop is not held up for ever: not even by a disk call whose transfer
   was lost when a drive was unplugged. *)
MainLoopReturns ==
  room /\ <>[](drive \in Drives \ Silent) => (calls # <<>> ~> calls = <<>>)
=============================================================================
