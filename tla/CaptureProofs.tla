--------------------------- MODULE CaptureProofs ---------------------------
(***************************************************************************)
(* Proofs about Capture, for any number of drives, however often they are  *)
(* plugged in: transfers belong to the call that waits for them; a drive   *)
(* that stays where it is answers every disk call; and as long as FatFs    *)
(* works on its sectors, no file is overwritten, and a capture leaves its  *)
(* image on it.                                                            *)
(***************************************************************************)
EXTENDS Capture, SequenceTheorems, WellFoundedInduction, TLAPS

Calls == [op : Ops \cup {"mount"}, ios : 0 .. MaxIO, waiting : BOOLEAN,
          answer : Drives \cup {NoDrive}]

Transfers == [kind : {"none", "inquiry", "io"},
              state : {"over", "under way", "reported", "lost"},
              from : Drives \cup {NoDrive}, for : Nat]

(* What the proofs need of the types. *)
Types ==
  /\ drive \in Drives \cup {NoDrive}
  /\ xfer \in Transfers
  /\ _disk_busy \in BOOLEAN
  /\ volume \in Drives \cup {NoDrive, Unread}
  /\ handle_ok \in BOOLEAN
  /\ calls \in Seq(Calls)
  /\ fnum \in Nat
  /\ entries \in [Drives -> [Numbers -> Entries]]

(* Calls of capture are never nested: what runs in the middle of a disk call
   is f_mount. *)
NestedMounts == \A i \in 2 .. Len(calls) : calls[i].op = "mount"

In(ops) == calls # <<>> /\ calls[1].op \in ops

IInv == Types /\ TransferIsAwaited /\ NestedMounts

LEMMA InitInv == Init => IInv
<1> SUFFICES ASSUME Init PROVE IInv
  OBVIOUS
<1>1. entries \in [Drives -> [Numbers -> Entries]]
  BY DEF Init, Entries, Directories
<1>2. xfer \in Transfers /\ xfer.kind # "io"
  BY DEF Init, StorageInit, NoTransfer, Transfers
<1>3. calls = <<>> /\ calls \in Seq(Calls) /\ Len(calls) = 0
  BY DEF Init, StorageInit
<1>4. Types
  BY <1>1, <1>2, <1>3 DEF Init, StorageInit, Types
<1>5. QED
  BY <1>2, <1>3, <1>4 DEF IInv, TransferIsAwaited, NestedMounts

-----------------------------------------------------------------------------
(* The stack of calls. *)
LEMMA StackTop ==
  ASSUME calls \in Seq(Calls), calls # <<>>
  PROVE  Len(calls) \in Nat /\ Len(calls) >= 1 /\ Top \in Calls
<1>1. Len(calls) \in Nat /\ Len(calls) >= 1
  BY EmptySeq, LenProperties
<1>2. QED
  BY <1>1, ElementOfSeq DEF Top

LEMMA TopReplaced ==
  ASSUME calls \in Seq(Calls), calls # <<>>, NEW c \in Calls, c.op = Top.op
  PROVE  /\ SetTop(c) \in Seq(Calls) /\ SetTop(c) # <<>>
         /\ Len(SetTop(c)) = Len(calls)
         /\ SetTop(c)[Len(calls)] = c
         /\ \A i \in 1 .. Len(calls) : SetTop(c)[i].op = calls[i].op
<1>1. Len(calls) \in 1 .. Len(calls)
  BY StackTop
<1>2. /\ SetTop(c) \in Seq(Calls)
      /\ Len(SetTop(c)) = Len(calls)
      /\ \A j \in 1 .. Len(calls) :
           SetTop(c)[j] = IF j = Len(calls) THEN c ELSE calls[j]
  BY <1>1, ExceptSeq DEF SetTop
<1>3. SetTop(c) # <<>>
  BY <1>1, <1>2, EmptySeq
<1>4. QED
  BY <1>1, <1>2, <1>3 DEF Top

LEMMA TopRemoved ==
  ASSUME calls \in Seq(Calls), calls # <<>>
  PROVE  /\ Front(calls) \in Seq(Calls)
         /\ Len(Front(calls)) = Len(calls) - 1
         /\ \A i \in 1 .. Len(calls) - 1 : Front(calls)[i] = calls[i]
<1>1. Len(calls) \in Nat /\ Len(calls) >= 1
  BY StackTop
<1>2. \A i \in 1 .. Len(calls) - 1 : calls[i] \in Calls
  BY <1>1, ElementOfSeq
<1> DEFINE n == Len(calls) - 1
<1>3. /\ SubSeq(calls, 1, n) \in Seq(Calls)
      /\ Len(SubSeq(calls, 1, n)) = IF 1 <= n THEN n - 1 + 1 ELSE 0
      /\ \A i \in 1 .. n - 1 + 1 : SubSeq(calls, 1, n)[i] = calls[1 + i - 1]
  <2>1. n \in Int /\ 1 \in Int /\ \A i \in 1 .. n : calls[i] \in Calls
    BY <1>1, <1>2
  <2> HIDE DEF n
  <2>2. QED
    BY <2>1, SubSeqProperties
<1>4. Front(calls) = SubSeq(calls, 1, n)
  BY DEF Front
<1>5. n \in Nat
  BY <1>1
<1> HIDE DEF n
<1>6. /\ Front(calls) \in Seq(Calls) /\ Len(Front(calls)) = n
      /\ \A i \in 1 .. n : Front(calls)[i] = calls[i]
  <2> DEFINE f == Front(calls)
  <2>1. /\ f \in Seq(Calls) /\ Len(f) = IF 1 <= n THEN n - 1 + 1 ELSE 0
        /\ \A i \in 1 .. n - 1 + 1 : f[i] = calls[1 + i - 1]
    BY <1>3, <1>4
  <2> HIDE DEF f
  <2>2. f \in Seq(Calls) /\ Len(f) = n /\ \A i \in 1 .. n : f[i] = calls[i]
    BY <1>5, <2>1
  <2>3. QED
    BY <2>2 DEF f
<1>7. QED
  BY <1>6 DEF n

(* A call of capture runs on its own. *)
LEMMA RunningAlone ==
  ASSUME IInv, NEW op, op # "mount", Running(op)
  PROVE  /\ Len(calls) = 1 /\ In({op}) /\ ~Top.waiting
         /\ xfer.kind # "io"
<1>1. Len(calls) \in Nat /\ Len(calls) >= 1
  BY StackTop DEF IInv, Types, Running
<1>2. Len(calls) = 1
  <2>1. Top.op # "mount"
    BY DEF Running
  <2>2. Len(calls) >= 2 => Top.op = "mount"
    BY <1>1 DEF IInv, NestedMounts, Top
  <2>3. QED
    BY <1>1, <2>1, <2>2
<1>3. QED
  BY <1>2 DEF IInv, TransferIsAwaited, Running, In, Top

(* Then the next one takes its place. *)
LEMMA NextCall ==
  ASSUME IInv, NEW op \in Ops, calls' = <<Begin(op)>>, UNCHANGED xfer,
         xfer.kind # "io"
  PROVE  /\ calls' \in Seq(Calls) /\ TransferIsAwaited' /\ NestedMounts'
         /\ \A ops : In(ops)' <=> op \in ops
<1>1. Begin(op) \in Calls
  BY StorageAssumption DEF Begin, Calls
<1>2. calls' \in Seq(Calls) /\ Len(calls') = 1 /\ calls'[1] = Begin(op)
  BY <1>1
<1>3. calls' # <<>>
  BY <1>2, EmptySeq
<1>4. \A ops : In(ops)' <=> op \in ops
  BY <1>2, <1>3 DEF In, Begin
<1>5. QED
  BY <1>2, <1>4 DEF TransferIsAwaited, NestedMounts

LEMMA LastCall ==
  ASSUME IInv, Finish, UNCHANGED xfer, xfer.kind # "io"
  PROVE  /\ calls' \in Seq(Calls) /\ TransferIsAwaited' /\ NestedMounts'
         /\ fnum' \in Nat /\ \A ops : ~In(ops)'
  BY DEF Finish, TransferIsAwaited, NestedMounts, In

-----------------------------------------------------------------------------
(* Steps of the drive and of FatFs. *)
LEMMA PutType ==
  ASSUME Types, NEW e \in Entries
  PROVE  Put(e) \in [Drives -> [Numbers -> Entries]]
<1>1. entries \in [Drives -> [Numbers -> Entries]]
  BY DEF Types
<1>2. CASE volume \in Drives
  <2>1. [entries[volume] EXCEPT ![fnum] = e] \in [Numbers -> Entries]
    BY <1>1, <1>2
  <2>2. QED
    BY <1>1, <2>1 DEF Put
<1>3. CASE volume \notin Drives
  BY <1>1, <1>3 DEF Put
<1>4. QED
  BY <1>2, <1>3

LEMMA EnvironmentStep ==
  ASSUME IInv, Environment, UNCHANGED locals
  PROVE  IInv'
<1>1. /\ UNCHANGED <<calls, volume, handle_ok, _disk_busy>>
      /\ drive' \in Drives \cup {NoDrive}
  BY DEF IInv, Types, Environment, Disturbance, Transfer, Plug, Unplug,
         CompleteTransfer
<1>2. /\ xfer' \in Transfers
      /\ xfer'.kind = xfer.kind /\ xfer'.for = xfer.for
  BY DEF IInv, Types, Transfers, Environment, Disturbance, Transfer, Plug, Unplug,
         CompleteTransfer
<1>3. entries' \in [Drives -> [Numbers -> Entries]]
  <2>1. entries \in [Drives -> [Numbers -> Entries]]
    BY DEF IInv, Types
  <2>2. ASSUME entries' \in Begun
        PROVE  entries' \in [Drives -> [Numbers -> Entries]]
    <3>1. entries' \in {entries, Put("cut"), Put("whole")}
      BY <2>2 DEF Begun
    <3>2. QED
      BY <2>1, <3>1, PutType DEF IInv, Entries
  <2>3. ASSUME entries' \in Damaged
        PROVE  entries' \in [Drives -> [Numbers -> Entries]]
    <3>1. CASE entries' = entries
      BY <2>1, <3>1
    <3>2. CASE entries' # entries
      <4>1. PICK e \in {entries[drive]} \cup Directories :
              entries' = [entries EXCEPT ![drive] = e]
        BY <2>3, <3>2 DEF Damaged
      <4>2. drive \in Drives => e \in [Numbers -> Entries]
        BY <2>1, <4>1 DEF Directories
      <4>3. QED
        BY <2>1, <4>1, <4>2
    <3>3. QED
      BY <3>1, <3>2
  <2>4. entries' = entries \/ entries' \in Begun \/ entries' \in Damaged
    BY DEF Environment, Disturbance, Transfer
  <2>5. QED
    BY <2>1, <2>2, <2>3, <2>4
<1>4. Types'
  BY <1>1, <1>2, <1>3 DEF IInv, Types, locals
<1>5. TransferIsAwaited' /\ NestedMounts'
  BY <1>1, <1>2 DEF IInv, TransferIsAwaited, NestedMounts, Top
<1>6. QED
  BY <1>4, <1>5 DEF IInv

LEMMA DiskIOStep ==
  ASSUME IInv, DiskIO, UNCHANGED captureVars
  PROVE  IInv'
<1> DEFINE c == [Top EXCEPT !.ios = @ + 1, !.waiting = TRUE, !.answer = NoDrive]
<1>1. calls \in Seq(Calls) /\ calls # <<>> /\ Top \in Calls /\ ~Top.waiting
  BY StackTop DEF IInv, Types, DiskIO, CallDisk
<1>2. c \in Calls /\ c.op = Top.op /\ c.waiting /\ c.answer = NoDrive
  <2>1. Top.ios + 1 \in 0 .. MaxIO
    BY <1>1, StorageAssumption DEF Calls, DiskIO, CallDisk
  <2>2. QED
    BY <1>1, <2>1 DEF Calls
<1>3. calls' = SetTop(c)
  BY DEF DiskIO, CallDisk
<1> HIDE DEF c
<1>4. /\ calls' \in Seq(Calls) /\ calls' # <<>> /\ Len(calls') = Len(calls)
      /\ Top' = c
      /\ \A i \in 1 .. Len(calls) : calls'[i].op = calls[i].op
  BY <1>1, <1>2, <1>3, TopReplaced DEF Top
<1>5. Len(calls) \in Nat /\ Len(calls) >= 1
  BY <1>1, StackTop
<1>6. xfer.kind # "io"
  BY <1>1 DEF IInv, TransferIsAwaited
<1>7. /\ xfer' \in Transfers
      /\ xfer'.kind = "io" => xfer'.for = Len(calls)
  BY <1>5, <1>6
     DEF IInv, Types, DiskIO, CallDisk, Submit, Transfers, NoTransfer
<1>8. Types'
  BY <1>4, <1>7 DEF IInv, Types, DiskIO, CallDisk, captureVars, locals
<1>9. TransferIsAwaited'
  BY <1>2, <1>4, <1>7 DEF TransferIsAwaited, DiskIO
<1>10. NestedMounts'
  BY <1>4, <1>5 DEF IInv, NestedMounts
<1>11. QED
  BY <1>8, <1>9, <1>10 DEF IInv

LEMMA ReturnStep ==
  ASSUME IInv, Return, UNCHANGED captureVars
  PROVE  IInv'
<1> DEFINE c == [Top EXCEPT !.waiting = FALSE]
<1>1. calls \in Seq(Calls) /\ calls # <<>> /\ Top \in Calls
  BY StackTop DEF IInv, Types, Return
<1>2. c \in Calls /\ c.op = Top.op
  BY <1>1 DEF Calls
<1>3. calls' = SetTop(c)
  BY DEF Return
<1> HIDE DEF c
<1>4. /\ calls' \in Seq(Calls) /\ Len(calls') = Len(calls)
      /\ \A i \in 1 .. Len(calls) : calls'[i].op = calls[i].op
  BY <1>1, <1>2, <1>3, TopReplaced
<1>5. Len(calls) \in Nat /\ Len(calls) >= 1
  BY <1>1, StackTop
<1>6. xfer' = xfer /\ xfer.kind # "io"
  BY DEF IInv, TransferIsAwaited, Return, usbVars
<1>7. Types'
  BY <1>4 DEF IInv, Types, Return, usbVars, captureVars, locals
<1>8. TransferIsAwaited' /\ NestedMounts'
  BY <1>4, <1>5, <1>6 DEF IInv, TransferIsAwaited, NestedMounts
<1>9. QED
  BY <1>7, <1>8 DEF IInv

(* Most callbacks leave the calls in progress alone. *)
LEMMA CallbackStep ==
  ASSUME IInv, UNCHANGED captureVars,
         NotEnumerated \/ tuh_msc_mount_cb \/ tuh_msc_umount_cb \/ InquiryFailed
  PROVE  IInv'
<1>1. /\ UNCHANGED <<calls, drive, _disk_busy>>
      /\ handle_ok' \in BOOLEAN /\ volume' \in Drives \cup {NoDrive, Unread}
  <2>1. CASE tuh_msc_umount_cb
    BY <2>1 DEF tuh_msc_umount_cb
  <2>2. CASE ~tuh_msc_umount_cb
    <3>1. UNCHANGED <<calls, drive, _disk_busy, volume, handle_ok>>
      BY <2>2 DEF NotEnumerated, tuh_msc_mount_cb, InquiryFailed
    <3>2. QED
      BY <3>1 DEF IInv, Types
  <2>3. QED
    BY <2>1, <2>2
<1>2. xfer' = xfer \/ (xfer' \in Transfers /\ xfer'.kind # "io")
  <2>1. NoTransfer \in Transfers /\ NoTransfer.kind # "io"
    BY DEF NoTransfer, Transfers
  <2>2. CASE tuh_msc_mount_cb
    BY <2>2 DEF IInv, Types, Transfers, tuh_msc_mount_cb
  <2>3. CASE ~tuh_msc_mount_cb
    BY <2>1, <2>3 DEF NotEnumerated, tuh_msc_umount_cb, InquiryFailed
  <2>4. QED
    BY <2>2, <2>3
<1>3. Types'
  BY <1>1, <1>2 DEF IInv, Types, captureVars, locals
<1>4. TransferIsAwaited' /\ NestedMounts'
  BY <1>1, <1>2 DEF IInv, TransferIsAwaited, NestedMounts, Top
<1>5. QED
  BY <1>3, <1>4 DEF IInv

LEMMA CompleteStep ==
  ASSUME IInv, disk_io_complete, UNCHANGED captureVars
  PROVE  IInv'
<1> DEFINE c == [Top EXCEPT !.answer = xfer.from]
<1>1. xfer.kind = "io" /\ xfer.for = Len(calls) /\ calls # <<>> /\ xfer \in Transfers
  BY DEF IInv, Types, TransferIsAwaited, disk_io_complete
<1>2. calls \in Seq(Calls) /\ Top \in Calls
  BY <1>1, StackTop DEF IInv, Types
<1>3. c \in Calls /\ c.op = Top.op
  BY <1>1, <1>2 DEF Calls, Transfers
<1>4. calls' = SetTop(c)
  BY <1>1 DEF disk_io_complete, SetTop, Top
<1> HIDE DEF c
<1>5. /\ calls' \in Seq(Calls) /\ Len(calls') = Len(calls)
      /\ \A i \in 1 .. Len(calls) : calls'[i].op = calls[i].op
  BY <1>1, <1>2, <1>3, <1>4, TopReplaced
<1>6. Len(calls) \in Nat /\ Len(calls) >= 1
  BY <1>1, <1>2, StackTop
<1>7. xfer' \in Transfers /\ xfer'.kind # "io"
  BY DEF disk_io_complete, NoTransfer, Transfers
<1>8. Types'
  BY <1>5, <1>7 DEF IInv, Types, disk_io_complete, captureVars, locals
<1>9. TransferIsAwaited' /\ NestedMounts'
  BY <1>5, <1>6, <1>7 DEF IInv, TransferIsAwaited, NestedMounts
<1>10. QED
  BY <1>8, <1>9 DEF IInv

LEMMA InquiryStep ==
  ASSUME IInv, inquiry_complete_cb, UNCHANGED captureVars
  PROVE  IInv'
<1>1. calls \in Seq(Calls) /\ Len(calls) \in Nat
  BY LenProperties DEF IInv, Types
<1>2. Begin("mount") \in Calls
  BY StorageAssumption DEF Begin, Calls
<1>3. calls' = Append(calls, Begin("mount"))
  BY DEF inquiry_complete_cb
<1>4. /\ calls' \in Seq(Calls) /\ Len(calls') = Len(calls) + 1
      /\ \A i \in 1 .. Len(calls) : calls'[i] = calls[i]
      /\ calls'[Len(calls) + 1] = Begin("mount")
  BY <1>1, <1>2, <1>3, AppendProperties
<1>5. xfer' \in Transfers /\ xfer'.kind # "io"
  BY DEF inquiry_complete_cb, NoTransfer, Transfers
<1>6. /\ UNCHANGED <<drive, _disk_busy>>
      /\ handle_ok' = FALSE /\ volume' = Unread
  BY DEF inquiry_complete_cb
<1>7. Types'
  BY <1>4, <1>5, <1>6 DEF IInv, Types, captureVars, locals
<1>8. TransferIsAwaited' /\ NestedMounts'
  BY <1>1, <1>4, <1>5
     DEF IInv, TransferIsAwaited, NestedMounts, Begin
<1>9. QED
  BY <1>7, <1>8 DEF IInv

LEMMA EndMountStep ==
  ASSUME IInv, EndMount, UNCHANGED captureVars
  PROVE  IInv'
<1>1. /\ calls \in Seq(Calls) /\ calls # <<>> /\ ~Top.waiting
      /\ Len(calls) \in Nat /\ Len(calls) >= 1 /\ Top \in Calls
  BY StackTop DEF IInv, Types, EndMount, Running
<1>2. calls' = Front(calls)
  BY DEF EndMount
<1>3. /\ calls' \in Seq(Calls) /\ Len(calls') = Len(calls) - 1
      /\ \A i \in 1 .. Len(calls) - 1 : calls'[i] = calls[i]
  BY <1>1, <1>2, TopRemoved
<1>4. xfer' = xfer /\ xfer.kind # "io"
  BY <1>1 DEF IInv, TransferIsAwaited, EndMount, usbVars
<1>5. volume' \in Drives \cup {NoDrive, Unread}
  BY <1>1 DEF IInv, Types, EndMount, Recognised, Calls
<1>6. UNCHANGED <<drive, _disk_busy>> /\ handle_ok' = FALSE
  BY DEF EndMount, usbVars
<1>7. Types'
  BY <1>3, <1>4, <1>5, <1>6 DEF IInv, Types, captureVars, locals
<1>8. TransferIsAwaited' /\ NestedMounts'
  BY <1>1, <1>3, <1>4 DEF IInv, TransferIsAwaited, NestedMounts
<1>9. QED
  BY <1>7, <1>8 DEF IInv

-----------------------------------------------------------------------------
(* Steps of capture. *)
LEMMA HighestNumber ==
  ASSUME NEW d
  PROVE  /\ last_file_number(d) \in Nat
         /\ last_file_number(d) = 0 \/ last_file_number(d) \in Counted(d)
         /\ \A n \in Counted(d) : n \in Numbers /\ n <= last_file_number(d)
<1>1. Counted(d) \subseteq 1 .. MaxFile
  BY DEF Counted, Numbers
<1>2. CASE Counted(d) = {}
  BY <1>2 DEF last_file_number
<1>3. CASE Counted(d) # {}
  <2> DEFINE below == {MaxFile - n : n \in Counted(d)}
  <2>1. below \subseteq Nat /\ below # {}
    BY <1>1, <1>3, CaptureAssumption
  <2> HIDE DEF below
  <2>2. PICK x \in below : \A y \in below : ~ (<<y, x>> \in OpToRel(<, Nat))
    BY <2>1, NatLessThanWellFounded, WFMin
  <2>3. \A y \in below : x <= y
    <3> SUFFICES ASSUME NEW y \in below, y < x
                 PROVE  FALSE
      BY <2>1
    <3>1. <<y, x>> \in {ss \in Nat \X Nat : ss[1] < ss[2]}
      BY <2>1
    <3>2. <<y, x>> \in OpToRel(<, Nat)
      BY <3>1 DEF OpToRel
    <3>3. QED
      BY <2>2, <3>2
  <2>4. \E m \in Counted(d) : \A n \in Counted(d) : m >= n
    <3>1. PICK m \in Counted(d) : x = MaxFile - m
      BY DEF below
    <3>2. ASSUME NEW n \in Counted(d) PROVE m >= n
      <4>1. MaxFile - n \in below
        BY DEF below
      <4>2. QED
        BY <1>1, <2>3, <3>1, <4>1, CaptureAssumption
    <3>3. QED
      BY <3>2
  <2>5. /\ Max(Counted(d)) \in Counted(d)
        /\ \A n \in Counted(d) : Max(Counted(d)) >= n
    BY <2>4 DEF Max
  <2>6. last_file_number(d) = Max(Counted(d))
    BY <1>3 DEF last_file_number
  <2>7. QED
    BY <1>1, <2>5, <2>6 DEF Numbers
<1>4. QED
  BY <1>2, <1>3

LEMMA LastFileNumber ==
  ASSUME NEW d, MaxFile \notin Counted(d)
  PROVE  last_file_number(d) + 1 \in Numbers
  BY HighestNumber, CaptureAssumption DEF Numbers

(* What a function that takes a path makes of the volume. *)
LEMMA VolumeRead ==
  ASSUME IInv, NEW op, Running(op), Remounts
  PROVE  /\ volume' \in Drives \cup {NoDrive, Unread}
         /\ volume = NoDrive => volume' = NoDrive
         /\ volume # NoDrive /\ stale => volume' # NoDrive
         /\ volume \in Drives => volume' = volume
<1>1. Top \in Calls
  BY StackTop DEF IInv, Types, Running
<1>2. Recognised \subseteq Drives \cup {NoDrive, Unread}
  BY <1>1 DEF IInv, Types, Recognised, Calls
<1>3. stale => NoDrive \notin Recognised
  BY DEF Recognised
<1>4. QED
  BY <1>2, <1>3, StorageAssumption DEF IInv, Types, Remounts

LEMMA CaptureBegins ==
  ASSUME IInv, capture
  PROVE  IInv'
<1>1. /\ calls' = <<Begin("mkdir")>> /\ xfer.kind # "io"
      /\ UNCHANGED <<drive, xfer, _disk_busy, volume, handle_ok, fnum, entries>>
  BY DEF IInv, TransferIsAwaited, capture, usbVars, captureVars, locals
<1>2. calls' \in Seq(Calls) /\ TransferIsAwaited' /\ NestedMounts'
  BY <1>1, NextCall DEF Ops
<1>3. Types'
  BY <1>1, <1>2 DEF IInv, Types
<1>4. QED
  BY <1>2, <1>3 DEF IInv

(* One call of capture follows another, or the last one has returned. *)
NextOrEnd == (\E op \in Ops : Go(op)) \/ Finish

LEMMA Goes ==
  ASSUME IInv, NEW op \in Ops, Running(op), NextOrEnd,
         UNCHANGED <<drive, xfer, _disk_busy>>,
         volume' \in Drives \cup {NoDrive, Unread},
         handle_ok' \in BOOLEAN, fnum' \in Nat,
         entries' \in [Drives -> [Numbers -> Entries]]
  PROVE  IInv'
<1>1. op # "mount"
  BY DEF Ops
<1>2. xfer.kind # "io"
  BY <1>1, RunningAlone
<1>3. calls' \in Seq(Calls) /\ TransferIsAwaited' /\ NestedMounts'
  <2>1. CASE Finish
    BY <1>2, <2>1, LastCall
  <2>2. CASE \E next \in Ops : Go(next)
    BY <1>2, <2>2, NextCall DEF Go
  <2>3. QED
    BY <2>1, <2>2 DEF NextOrEnd
<1>4. Types'
  BY <1>3 DEF IInv, Types
<1>5. QED
  BY <1>3, <1>4 DEF IInv

LEMMA CaptureStepGoes ==
  ASSUME CaptureStep
  PROVE  /\ \E op \in Ops : Running(op)
         /\ NextOrEnd
         /\ UNCHANGED <<drive, usb, mounted, xfer, _disk_busy>>
         /\ volume' = volume \/ Remounts
<1>1. CASE EndMkdir
  BY <1>1 DEF EndMkdir, NextOrEnd, usbVars, Ops
<1>2. CASE EndNumber
  BY <1>2 DEF EndNumber, NextOrEnd, usbVars, Ops
<1>3. CASE EndOpen
  BY <1>3 DEF EndOpen, NextOrEnd, GoList, GoOn, usbVars, Ops
<1>4. CASE user_write_data
  BY <1>4 DEF user_write_data, NextOrEnd, GoOn, usbVars, Ops
<1>5. CASE EndClose
  BY <1>5 DEF EndClose, NextOrEnd, GoList, usbVars, Ops
<1>6. CASE EndList
  BY <1>6 DEF EndList, NextOrEnd, usbVars, Ops
<1>7. QED
  BY <1>1, <1>2, <1>3, <1>4, <1>5, <1>6 DEF CaptureStep

LEMMA CaptureStepTypes ==
  ASSUME IInv, CaptureStep
  PROVE  /\ handle_ok' \in BOOLEAN /\ fnum' \in Nat
         /\ entries' \in [Drives -> [Numbers -> Entries]]
<1>1. /\ handle_ok \in BOOLEAN /\ fnum \in Nat
      /\ entries \in [Drives -> [Numbers -> Entries]]
  BY DEF IInv, Types
<1>2. Put("cut") \in [Drives -> [Numbers -> Entries]]
      /\ Put("whole") \in [Drives -> [Numbers -> Entries]]
  BY PutType DEF IInv, Entries
<1>3. Finish => fnum' \in Nat
  BY DEF Finish
<1>4. UNCHANGED locals => fnum' \in Nat
  BY <1>1 DEF locals
<1>5. GoList => fnum' \in Nat
  BY <1>3, <1>4 DEF GoList
<1>6. CASE EndMkdir
  <2>1. handle_ok' \in BOOLEAN
    <3>1. handle_ok' = handle_ok \/ handle_ok' = (volume' \in Drives)
      BY <1>6, Zenon DEF EndMkdir
    <3>2. (volume' \in Drives) \in BOOLEAN
      OBVIOUS
    <3>3. QED
      BY <1>1, <3>1, <3>2, Zenon
  <2>2. fnum' \in Nat
    BY <1>3, <1>4, <1>6, Zenon DEF EndMkdir
  <2>3. entries' = entries
    BY <1>6 DEF EndMkdir
  <2>4. QED
    BY <1>1, <2>1, <2>2, <2>3
<1>7. CASE EndNumber
  <2>1. last_file_number(volume) + 1 \in Nat /\ Numbers \subseteq Nat
    BY HighestNumber DEF Numbers
  <2>2. QED
    BY <1>1, <1>3, <1>7, <2>1 DEF EndNumber
<1>8. CASE EndOpen
  <2>1. handle_ok' \in BOOLEAN
    <3>1. handle_ok' = handle_ok \/ handle_ok' = (volume' \in Drives)
      BY <1>8, Zenon DEF EndOpen
    <3>2. (volume' \in Drives) \in BOOLEAN
      OBVIOUS
    <3>3. QED
      BY <1>1, <3>1, <3>2, Zenon
  <2>2. fnum' \in Nat
    BY <1>1, <1>5, <1>8, Zenon DEF EndOpen
  <2>3. entries' = entries \/ entries' = Put("cut")
    BY <1>8, Zenon DEF EndOpen
  <2>4. QED
    BY <1>1, <1>2, <2>1, <2>2, <2>3
<1>9. CASE user_write_data
  BY <1>1, <1>9 DEF user_write_data
<1>10. CASE EndClose
  BY <1>1, <1>2, <1>5, <1>10 DEF EndClose
<1>11. CASE EndList
  BY <1>1, <1>3, <1>11 DEF EndList
<1>12. QED
  BY <1>6, <1>7, <1>8, <1>9, <1>10, <1>11 DEF CaptureStep

LEMMA CaptureStepInv ==
  ASSUME IInv, CaptureStep
  PROVE  IInv'
<1>1. PICK op \in Ops : Running(op)
  BY CaptureStepGoes
<1>2. volume' \in Drives \cup {NoDrive, Unread}
  BY <1>1, CaptureStepGoes, VolumeRead DEF IInv, Types
<1>3. QED
  BY <1>1, <1>2, CaptureStepGoes, CaptureStepTypes, Goes

LEMMA IdleStep == IInv /\ UNCHANGED vars => IInv'
<1> SUFFICES ASSUME IInv, UNCHANGED vars PROVE IInv'
  OBVIOUS
<1>1. UNCHANGED <<drive, xfer, _disk_busy, volume, handle_ok, calls, fnum, entries>>
  BY DEF vars, storageVars, usbVars, captureVars, locals
<1>2. Types' /\ TransferIsAwaited' /\ NestedMounts'
  BY <1>1 DEF IInv, Types, TransferIsAwaited, NestedMounts, Top
<1>3. QED
  BY <1>2 DEF IInv

LEMMA StepInv == IInv /\ [Next]_vars => IInv'
<1> SUFFICES ASSUME IInv, Next PROVE IInv'
  BY IdleStep
<1>1. CASE capture
  BY <1>1, CaptureBegins
<1>2. CASE CaptureStep
  BY <1>2, CaptureStepInv
<1>3. CASE StorageStep /\ UNCHANGED captureVars
  BY <1>3, DiskIOStep, ReturnStep, CallbackStep, CompleteStep, InquiryStep,
     EndMountStep DEF StorageStep, tuh_task
<1>4. CASE Environment /\ UNCHANGED locals
  BY <1>4, EnvironmentStep
<1>5. QED
  BY <1>1, <1>2, <1>3, <1>4 DEF Next, Core1

LEMMA Invariance == Spec => []IInv
  BY InitInv, StepInv, PTL DEF Spec

-----------------------------------------------------------------------------
(* A transfer is made for the innermost disk call, which waits for it (the
   callbacks of msc_app.c). *)
THEOREM BufferIsInUse == Spec => []TransferIsAwaited
<1>1. IInv => TransferIsAwaited
  BY DEF IInv
<1>2. QED
  BY Invariance, <1>1, PTL

-----------------------------------------------------------------------------
(* The order of events.  A drive that is mounted, or will be, and one that is
   plugged in after it, have a "detach" between them: position 0 stands for the
   drive that is mounted, the one after the last for that which may come. *)
Events == {"attach", "detach", "complete", "failed"}

At(i) ==
  \/ i = 0 /\ mounted
  \/ i \in 1 .. Len(usb) /\ usb[i] = "attach"
  \/ i = Len(usb) + 1 /\ drive = NoDrive

EventOrder ==
  \A i, j \in 0 .. Len(usb) + 1 :
    At(i) /\ At(j) /\ i < j =>
      \E k \in 1 .. Len(usb) : i < k /\ k < j /\ usb[k] = "detach"

(* At most one end of a transfer is reported, that of the transfer TinyUSB
   knows, and before its drive is gone. *)
Ends(i) == usb[i] \in {"complete", "failed"}

Reported ==
  \A i \in 1 .. Len(usb) :
    Ends(i) =>
      /\ xfer.state = "reported"
      /\ usb[i] = "failed" => xfer.kind = "inquiry"
      /\ \A j \in 1 .. Len(usb) : Ends(j) => j = i
      /\ \A j \in 1 .. i - 1 : usb[j] # "detach"

UnderWay == xfer.state = "under way" => ~Gone

(* A transfer or a volume belongs to a drive that is mounted, and the volume is
   not there while the drive is still asked what it is. *)
Known ==
  /\ xfer.kind = "none" => xfer = NoTransfer
  /\ xfer.kind # "none" \/ volume # NoDrive => mounted
  /\ xfer.kind = "inquiry" => volume = NoDrive

EventInv == usb \in Seq(Events) /\ EventOrder /\ Reported /\ UnderWay /\ Known

(* While the drive stays where it is, one call runs, and its transfer is under
   way as long as it waits. *)
Settled ==
  calls # <<>> /\ ~disturbed =>
    /\ ~Gone /\ volume # NoDrive /\ Len(calls) = 1
    /\ Top.waiting /\ Top.answer = NoDrive =>
         xfer.kind = "io" /\ xfer.from # NoDrive
    /\ ~(Top.waiting /\ Top.answer = NoDrive) => xfer = NoTransfer

LEMMA EventAppended ==
  ASSUME usb \in Seq(Events), NEW e \in Events, usb' = Append(usb, e)
  PROVE  /\ usb' \in Seq(Events) /\ Len(usb) \in Nat /\ Len(usb') = Len(usb) + 1
         /\ \A i \in 1 .. Len(usb) : usb'[i] = usb[i]
         /\ usb'[Len(usb) + 1] = e
  BY AppendProperties, LenProperties

LEMMA EventHandled ==
  ASSUME usb \in Seq(Events), NEW e, InTask(e)
  PROVE  /\ usb' \in Seq(Events) /\ Len(usb) \in Nat /\ Len(usb) >= 1
         /\ Len(usb') = Len(usb) - 1 /\ usb[1] = e
         /\ \A i \in 1 .. Len(usb') : usb'[i] = usb[i + 1]
<1>1. usb # <<>> /\ Head(usb) = e /\ usb' = Tail(usb)
  BY DEF InTask
<1>2. Len(usb) \in Nat /\ Len(usb) >= 1
  BY <1>1, EmptySeq, LenProperties
<1>3. usb[1] = e
  BY <1>1
<1>4. QED
  BY <1>1, <1>2, <1>3, HeadTailProperties

(* A drive is mounted when none is. *)
LEMMA MountsOnce ==
  ASSUME Types, EventInv, tuh_msc_mount_cb
  PROVE  ~mounted /\ ~Gone /\ xfer = NoTransfer /\ volume = NoDrive
<1>1. /\ InTask("attach") /\ Len(usb) \in Nat /\ Len(usb) >= 1
      /\ usb[1] = "attach"
  BY EventHandled DEF EventInv, tuh_msc_mount_cb
<1>2. \A k \in 1 .. Len(usb) : usb[k] # "detach"
  BY DEF tuh_msc_mount_cb, Contains
<1>3. At(1)
  BY <1>1 DEF At
<1>4. ASSUME mounted PROVE FALSE
  <2>1. At(0)
    BY <1>4 DEF At
  <2>2. 0 \in 0 .. Len(usb) + 1 /\ 1 \in 0 .. Len(usb) + 1 /\ 0 < 1
    BY <1>1
  <2>3. QED
    BY <1>2, <1>3, <2>1, <2>2 DEF EventInv, EventOrder
<1>5. ASSUME drive = NoDrive PROVE FALSE
  <2>1. At(Len(usb) + 1)
    BY <1>5 DEF At
  <2>2. /\ 1 \in 0 .. Len(usb) + 1 /\ Len(usb) + 1 \in 0 .. Len(usb) + 1
        /\ 1 < Len(usb) + 1
    BY <1>1
  <2>3. QED
    BY <1>2, <1>3, <2>1, <2>2 DEF EventInv, EventOrder
<1>6. xfer = NoTransfer /\ volume = NoDrive
  BY <1>4 DEF EventInv, Known
<1>7. QED
  BY <1>2, <1>4, <1>5, <1>6 DEF Gone, Contains

LEMMA TaskOrder ==
  ASSUME EventInv, NEW e, InTask(e), drive' = drive,
         mounted' => (mounted /\ e # "detach") \/ e = "attach"
  PROVE  EventOrder'
<1>1. /\ Len(usb) \in Nat /\ Len(usb) >= 1
      /\ Len(usb') = Len(usb) - 1 /\ usb[1] = e
      /\ \A i \in 1 .. Len(usb') : usb'[i] = usb[i + 1]
  BY EventHandled DEF EventInv
<1> SUFFICES ASSUME NEW i \in 0 .. Len(usb') + 1, NEW j \in 0 .. Len(usb') + 1,
                    At(i)', At(j)', i < j
             PROVE  \E k \in 1 .. Len(usb') : i < k /\ k < j /\ usb'[k] = "detach"
  BY DEF EventOrder
<1>2. i \in Nat /\ j \in Nat /\ j >= 1 /\ j + 1 \in 0 .. Len(usb) + 1
      /\ i + 1 \in 0 .. Len(usb) + 1
  BY <1>1
<1>3. \A n \in 1 .. Len(usb') + 1 : At(n)' => At(n + 1)
  <2> SUFFICES ASSUME NEW n \in 1 .. Len(usb') + 1, At(n)' PROVE At(n + 1)
    OBVIOUS
  <2>1. CASE n \in 1 .. Len(usb') /\ usb'[n] = "attach"
    BY <1>1, <2>1 DEF At
  <2>2. CASE n = Len(usb') + 1 /\ drive' = NoDrive
    BY <1>1, <2>2 DEF At
  <2>3. QED
    BY <1>1, <2>1, <2>2 DEF At
<1>4. \A k \in 1 .. Len(usb) :
        usb[k] = "detach" /\ k # 1 => k - 1 \in 1 .. Len(usb') /\ usb'[k - 1] = "detach"
  BY <1>1
<1>5. At(j + 1)
  BY <1>1, <1>2, <1>3
<1>6. CASE i # 0
  <2>1. At(i + 1)
    BY <1>1, <1>2, <1>3, <1>6
  <2>2. PICK k \in 1 .. Len(usb) : i + 1 < k /\ k < j + 1 /\ usb[k] = "detach"
    BY <1>2, <1>5, <2>1 DEF EventInv, EventOrder
  <2>3. k - 1 \in 1 .. Len(usb') /\ usb'[k - 1] = "detach" /\ i < k - 1 /\ k - 1 < j
    BY <1>1, <1>2, <1>4, <2>2
  <2>4. QED
    BY <2>3
<1>7. CASE i = 0
  <2>1. mounted'
    BY <1>1, <1>7 DEF At
  <2>2. \E n \in {0, 1} : At(n) /\ (n = 0 => e # "detach")
    <3>1. CASE mounted /\ e # "detach"
      BY <3>1 DEF At
    <3>2. CASE e = "attach"
      BY <1>1, <3>2 DEF At
    <3>3. QED
      BY <2>1, <3>1, <3>2
  <2>3. PICK n \in {0, 1} : At(n) /\ (n = 0 => e # "detach")
    BY <2>2
  <2>4. n \in 0 .. Len(usb) + 1 /\ n < j + 1
    BY <1>1, <1>2
  <2>5. PICK k \in 1 .. Len(usb) : n < k /\ k < j + 1 /\ usb[k] = "detach"
    BY <1>2, <1>5, <2>3, <2>4 DEF EventInv, EventOrder
  <2>6. k # 1
    BY <1>1, <2>3, <2>5
  <2>7. k - 1 \in 1 .. Len(usb') /\ usb'[k - 1] = "detach" /\ 0 < k - 1 /\ k - 1 < j
    BY <1>1, <1>2, <1>4, <2>5, <2>6
  <2>8. QED
    BY <1>7, <2>7
<1>8. QED
  BY <1>6, <1>7

(* The callbacks keep the order of the events that are left. *)
LEMMA TaskEvents ==
  ASSUME Types, EventInv, tuh_task
  PROVE  EventInv'
<1>1. PICK e \in Events : InTask(e)
  BY DEF tuh_task, NotEnumerated, tuh_msc_mount_cb, tuh_msc_umount_cb,
         disk_io_complete, InquiryFailed, inquiry_complete_cb, Events
<1>2. /\ usb' \in Seq(Events) /\ Len(usb) \in Nat /\ Len(usb) >= 1
      /\ Len(usb') = Len(usb) - 1 /\ usb[1] = e
      /\ \A i \in 1 .. Len(usb') : usb'[i] = usb[i + 1]
  BY <1>1, EventHandled DEF EventInv
<1>3. drive' = drive
  BY DEF tuh_task, NotEnumerated, tuh_msc_mount_cb, tuh_msc_umount_cb,
         disk_io_complete, InquiryFailed, inquiry_complete_cb
<1>4. Gone' => Gone
  BY <1>2, <1>3 DEF Gone, Contains
<1>5. NoTransfer.state = "over" /\ NoTransfer.kind = "none"
  BY DEF NoTransfer
<1>6. CASE NotEnumerated
  <2>1. UNCHANGED <<mounted, xfer, volume>> /\ e = "attach"
    BY <1>1, <1>6 DEF NotEnumerated, InTask
  <2>2. EventOrder'
    BY <1>1, <1>3, <2>1, TaskOrder
  <2>3. Reported'
    BY <1>2, <2>1 DEF EventInv, Reported, Ends
  <2>4. UnderWay' /\ Known'
    BY <1>4, <2>1 DEF EventInv, UnderWay, Known
  <2>5. QED
    BY <1>2, <2>2, <2>3, <2>4 DEF EventInv
<1>7. CASE tuh_msc_mount_cb
  <2>1. ~mounted /\ ~Gone /\ xfer = NoTransfer /\ volume = NoDrive
    BY <1>7, MountsOnce
  <2>2. /\ e = "attach" /\ mounted' = TRUE /\ volume' = NoDrive
        /\ xfer'.kind = "inquiry" /\ xfer'.state = "under way"
    BY <1>1, <1>7, <2>1 DEF tuh_msc_mount_cb, InTask
  <2>3. EventOrder'
    BY <1>1, <1>3, <2>2, TaskOrder
  <2>4. \A i \in 1 .. Len(usb) : ~Ends(i)
    BY <1>5, <2>1 DEF EventInv, Reported
  <2>5. Reported'
    BY <1>2, <2>4 DEF Reported, Ends
  <2>6. UnderWay' /\ Known'
    BY <1>4, <2>1, <2>2 DEF UnderWay, Known
  <2>7. QED
    BY <1>2, <2>3, <2>5, <2>6 DEF EventInv
<1>8. CASE tuh_msc_umount_cb \/ disk_io_complete \/ InquiryFailed
           \/ inquiry_complete_cb
  <2>1. xfer' = NoTransfer
    BY <1>8 DEF tuh_msc_umount_cb, disk_io_complete, InquiryFailed, inquiry_complete_cb
  <2>2. EventOrder'
    <3>1. CASE tuh_msc_umount_cb
      BY <1>1, <1>3, <3>1, TaskOrder DEF tuh_msc_umount_cb
    <3>2. CASE ~tuh_msc_umount_cb
      <4>1. mounted' = mounted /\ e # "detach"
        BY <1>1, <1>8, <3>2 DEF disk_io_complete, InquiryFailed,
                                inquiry_complete_cb, InTask
      <4>2. QED
        BY <1>1, <1>3, <4>1, TaskOrder
    <3>3. QED
      BY <3>1, <3>2
  <2>3. Reported'
    <3>1. e \in {"detach", "complete", "failed"}
      BY <1>1, <1>8 DEF tuh_msc_umount_cb, disk_io_complete, InquiryFailed,
                        inquiry_complete_cb, InTask
    <3>2. ASSUME NEW i \in 2 .. Len(usb), Ends(i) PROVE FALSE
      <4>1. i \in 1 .. Len(usb) /\ 1 \in 1 .. Len(usb) /\ 1 \in 1 .. i - 1 /\ i # 1
        BY <1>2
      <4>2. usb[1] # "detach" /\ (Ends(1) => 1 = i)
        BY <3>2, <4>1 DEF EventInv, Reported
      <4>3. QED
        BY <1>2, <3>1, <4>1, <4>2 DEF Ends
    <3>3. \A i \in 1 .. Len(usb') : ~Ends(i)'
      BY <1>2, <3>2 DEF Ends
    <3>4. QED
      BY <3>3 DEF Reported
  <2>4. UnderWay'
    BY <1>5, <2>1 DEF UnderWay
  <2>5. Known'
    <3>1. CASE tuh_msc_umount_cb
      BY <1>5, <2>1, <3>1 DEF Known, tuh_msc_umount_cb, NoTransfer
    <3>2. CASE disk_io_complete \/ InquiryFailed
      <4>1. mounted' = mounted /\ volume' = volume
        BY <3>2 DEF disk_io_complete, InquiryFailed
      <4>2. QED
        BY <1>5, <2>1, <4>1 DEF EventInv, Known, NoTransfer
    <3>3. CASE inquiry_complete_cb
      <4>1. mounted' = mounted /\ xfer.kind = "inquiry"
        BY <3>3 DEF inquiry_complete_cb
      <4>2. QED
        BY <1>5, <2>1, <4>1 DEF EventInv, Known, NoTransfer
    <3>4. QED
      BY <1>8, <3>1, <3>2, <3>3
  <2>6. QED
    BY <1>2, <2>2, <2>3, <2>4, <2>5 DEF EventInv
<1>9. QED
  BY <1>6, <1>7, <1>8 DEF tuh_task

(* What the user and the drive add to them. *)
LEMMA EnvironmentEvents ==
  ASSUME Types, EventInv, Environment
  PROVE  EventInv'
<1>1. PICK e \in Events : usb' = Append(usb, e)
  BY DEF Environment, Disturbance, Transfer, Plug, Unplug, CompleteTransfer, Events
<1>0. PICK n \in Nat : n = Len(usb)
  BY LenProperties DEF EventInv
<1>2. /\ usb' \in Seq(Events) /\ Len(usb') = n + 1
      /\ \A i \in 1 .. n : usb'[i] = usb[i]
      /\ usb'[n + 1] = e
  BY <1>0, <1>1, EventAppended DEF EventInv
<1>3. UNCHANGED <<mounted, volume>>
  BY DEF Environment, Disturbance, Transfer, Plug, Unplug, CompleteTransfer
<1>4. \A i \in 0 .. n : At(i)' => At(i)
  <2> SUFFICES ASSUME NEW i \in 0 .. n, At(i)' PROVE At(i)
    OBVIOUS
  <2>1. i # Len(usb') + 1 /\ (i \in 1 .. Len(usb') => i \in 1 .. n)
    BY <1>2
  <2>2. QED
    BY <1>0, <1>2, <1>3, <2>1, Zenon DEF At
<1>5. /\ At(n + 1)' => e = "attach"
      /\ At(n + 2)' => drive' = NoDrive
  BY <1>2 DEF At
<1>6. ASSUME \A i \in 0 .. n + 1 : At(i)' => At(i), drive' # NoDrive
      PROVE  EventOrder'
  <2> SUFFICES ASSUME NEW i \in 0 .. Len(usb') + 1, NEW j \in 0 .. Len(usb') + 1,
                      At(i)', At(j)', i < j
               PROVE  \E k \in 1 .. Len(usb') : i < k /\ k < j /\ usb'[k] = "detach"
    BY DEF EventOrder
  <2>1. i \in 0 .. n + 1 /\ j \in 0 .. n + 1
    BY <1>2, <1>5, <1>6
  <2>2. PICK k \in 1 .. n : i < k /\ k < j /\ usb[k] = "detach"
    BY <1>0, <1>6, <2>1 DEF EventInv, EventOrder
  <2>3. QED
    BY <1>2, <2>2
<1>7. xfer.state = "under way" => xfer.kind # "none"
  <2>1. xfer.kind = "none" => xfer = NoTransfer
    BY Zenon DEF EventInv, Known
  <2>2. NoTransfer.state = "over"
    BY DEF NoTransfer
  <2>3. QED
    BY <2>1, <2>2
<1>8. CASE Plug
  <2>1. /\ drive = NoDrive /\ drive' # NoDrive /\ e = "attach"
        /\ xfer' = xfer
    <3>1. drive' # NoDrive
      BY <1>8, StorageAssumption DEF Plug
    <3>2. usb' = Append(usb, "attach")
      BY <1>8 DEF Plug
    <3>3. usb'[n + 1] = "attach"
      BY <1>0, <3>2, EventAppended DEF EventInv, Events
    <3>4. QED
      BY <1>2, <1>8, <3>1, <3>3 DEF Plug
  <2>2. At(n + 1)
    BY <1>0, <2>1 DEF At
  <2>3. \A i \in 0 .. n + 1 : At(i)' => At(i)
    BY <1>2, <1>4, <2>2
  <2>4. Reported'
    BY <1>0, <1>2, <2>1 DEF EventInv, Reported, Ends
  <2>5. UnderWay' /\ Known'
    BY <1>3, <2>1 DEF EventInv, UnderWay, Known, Gone
  <2>6. QED
    BY <1>2, <1>6, <2>1, <2>3, <2>4, <2>5 DEF EventInv
<1>9. CASE Unplug
  <2>1. e = "detach" /\ drive # NoDrive
    <3>1. usb' = Append(usb, "detach")
      BY <1>9 DEF Unplug
    <3>2. usb'[n + 1] = "detach"
      BY <1>0, <3>1, EventAppended DEF EventInv, Events
    <3>3. QED
      BY <1>2, <1>9, <3>2 DEF Unplug
  <2>2. EventOrder'
    <3> SUFFICES ASSUME NEW i \in 0 .. Len(usb') + 1, NEW j \in 0 .. Len(usb') + 1,
                        At(i)', At(j)', i < j
                 PROVE  \E k \in 1 .. Len(usb') : i < k /\ k < j /\ usb'[k] = "detach"
      BY DEF EventOrder
    <3>1. i # n + 1 /\ j # n + 1 /\ i \in 0 .. n
      <4>1. ~At(n + 1)'
        BY <1>5, <2>1
      <4>2. i # n + 1 /\ j # n + 1
        BY <4>1, Zenon
      <4>3. QED
        BY <1>2, <4>2
    <3>2. CASE j = n + 2
      BY <1>2, <2>1, <3>1, <3>2
    <3>3. CASE j # n + 2
      <4>1. i \in 0 .. n /\ j \in 0 .. n
        BY <1>2, <3>1, <3>3
      <4>2. At(i) /\ At(j)
        BY <1>4, <4>1
      <4>3. PICK k \in 1 .. n : i < k /\ k < j /\ usb[k] = "detach"
        BY <1>0, <1>2, <4>1, <4>2 DEF EventInv, EventOrder
      <4>4. QED
        BY <1>2, <4>3
    <3>4. QED
      BY <3>2, <3>3
  <2>3. /\ xfer'.state # "under way" /\ xfer'.kind = xfer.kind
        /\ xfer' = xfer \/ xfer.state = "under way"
    BY <1>9 DEF Types, Transfers, Unplug
  <2>4. Reported'
    <3>1. \A i \in 1 .. n : Ends(i) => xfer' = xfer
      BY <1>0, <2>3 DEF EventInv, Reported
    <3>2. QED
      BY <1>0, <1>2, <2>1, <3>1 DEF EventInv, Reported, Ends
  <2>5. xfer.kind = "none" => xfer' = xfer
    BY <1>7, <2>3
  <2>6. UnderWay' /\ Known'
    BY <1>3, <2>3, <2>5 DEF EventInv, UnderWay, Known
  <2>7. QED
    BY <1>2, <2>2, <2>4, <2>6 DEF EventInv
<1>10. CASE CompleteTransfer
  <2>1. /\ e \in {"complete", "failed"}
        /\ e = "failed" => xfer.kind = "inquiry"
    <3>1. CASE usb' = Append(usb, "failed") /\ xfer.kind = "inquiry"
      <4>1. usb'[n + 1] = "failed"
        BY <1>0, <3>1, EventAppended DEF EventInv, Events
      <4>2. QED
        BY <1>2, <3>1, <4>1
    <3>2. CASE usb' = Append(usb, "complete")
      <4>1. usb'[n + 1] = "complete"
        BY <1>0, <3>2, EventAppended DEF EventInv, Events
      <4>2. QED
        BY <1>2, <4>1
    <3>3. QED
      BY <1>10, <3>1, <3>2 DEF CompleteTransfer
  <2>2. xfer.state = "under way" /\ drive' = drive
    BY <1>10 DEF CompleteTransfer
  <2>3. ~Gone
    BY <2>2 DEF EventInv, UnderWay
  <2>4. drive # NoDrive /\ \A i \in 1 .. n : usb[i] # "detach"
    BY <1>0, <2>3 DEF Gone, Contains
  <2>5. \A i \in 0 .. n + 1 : At(i)' => At(i)
    BY <1>2, <1>4, <1>5, <2>1
  <2>6. /\ xfer'.state = "reported" /\ xfer'.kind = xfer.kind
        /\ xfer.kind # "none"
    <3>1. xfer'.state = "reported" /\ xfer'.kind = xfer.kind
      BY <1>10 DEF CompleteTransfer, Types, Transfers
    <3>2. QED
      BY <1>7, <2>2, <3>1
  <2>7. \A i \in 1 .. n : ~Ends(i)
    BY <1>0, <2>2 DEF EventInv, Reported
  <2>8. Reported'
    BY <1>2, <2>1, <2>4, <2>6, <2>7 DEF Reported, Ends
  <2>9. UnderWay' /\ Known'
    BY <1>3, <2>6 DEF EventInv, UnderWay, Known
  <2>10. QED
    BY <1>2, <1>6, <2>2, <2>4, <2>5, <2>8, <2>9 DEF EventInv
<1>11. QED
  BY <1>8, <1>9, <1>10 DEF Environment, Disturbance, Transfer

(* Nothing else adds any; disk_read and disk_write start a transfer. *)
LEMMA OtherEvents ==
  ASSUME Types, EventInv, UNCHANGED <<drive, usb, mounted>>,
         xfer' = xfer \/ Submit,
         volume = NoDrive => volume' = NoDrive
  PROVE  EventInv'
<1>1. EventOrder'
  BY DEF EventInv, EventOrder, At
<1>2. Gone' <=> Gone
  BY DEF Gone
<1>3. CASE xfer' = xfer
  <2>1. Reported' /\ UnderWay' /\ Known'
    BY <1>2, <1>3 DEF EventInv, Reported, Ends, UnderWay, Known
  <2>2. QED
    BY <1>1, <2>1 DEF EventInv
<1>4. CASE xfer' # xfer
  <2>1. /\ mounted /\ xfer = NoTransfer
        /\ xfer'.kind = "io"
        /\ xfer'.state = IF Gone THEN "lost" ELSE "under way"
    <3>1. mounted /\ xfer = NoTransfer
      BY <1>4, Zenon DEF Submit
    <3>2. xfer' = [kind |-> "io", state |-> IF Gone THEN "lost" ELSE "under way",
                   from |-> drive, for |-> Len(calls)]
      BY <1>4, <3>1, Zenon DEF Submit
    <3>3. QED
      BY <3>1, <3>2
  <2>2. \A i \in 1 .. Len(usb) : ~Ends(i)
    BY <2>1 DEF EventInv, Reported, NoTransfer
  <2>3. Reported'
    BY <2>2 DEF Reported, Ends
  <2>4. UnderWay' /\ Known'
    BY <1>2, <2>1 DEF UnderWay, Known
  <2>5. QED
    BY <1>1, <2>3, <2>4 DEF EventInv
<1>5. QED
  BY <1>3, <1>4

-----------------------------------------------------------------------------
(* A drive that stays where it is. *)
Strong == IInv /\ EventInv /\ Settled

(* What is said of it, action by action: then either the calls and the drive
   are as before, or there was no call, or a disturbance. *)
LEMMA StillThere ==
  ASSUME usb \in Seq(Events), NEW e, InTask(e), drive' = drive
  PROVE  Gone' => Gone
<1>1. /\ Len(usb) \in Nat /\ Len(usb') = Len(usb) - 1
      /\ \A i \in 1 .. Len(usb') : usb'[i] = usb[i + 1]
  BY EventHandled
<1>2. QED
  BY <1>1 DEF Gone, Contains

LEMMA Excused ==
  ASSUME Settled, calls # <<>>, Gone \/ volume = NoDrive \/ Len(calls) # 1
  PROVE  disturbed
  BY DEF Settled

LEMMA SettledByEnvironment ==
  ASSUME Strong, Environment
  PROVE  Settled'
<1>1. calls' = calls /\ volume' = volume
  BY DEF Environment, Disturbance, Transfer, Plug, Unplug, CompleteTransfer
<1>2. CASE Plug
  <2>1. Gone /\ disturbed' = disturbed
    BY <1>2 DEF Plug, Gone
  <2>2. calls # <<>> => disturbed'
    BY <2>1, Excused, Zenon DEF Strong
  <2>3. QED
    BY <1>1, <2>2, Zenon DEF Settled
<1>3. CASE Unplug
  <2>1. calls # <<>> => disturbed'
    BY <1>3 DEF Unplug
  <2>2. QED
    BY <1>1, <2>1, Zenon DEF Settled
<1>4. CASE CompleteTransfer
  <2> SUFFICES ASSUME calls # <<>>, ~disturbed'
               PROVE  /\ ~Gone' /\ volume # NoDrive /\ Len(calls) = 1
                      /\ Top.waiting /\ Top.answer = NoDrive =>
                           xfer'.kind = "io" /\ xfer'.from # NoDrive
                      /\ ~(Top.waiting /\ Top.answer = NoDrive) => xfer' = NoTransfer
    BY <1>1 DEF Settled, Top
  <2>1. disturbed' = disturbed /\ drive' = drive /\ xfer.state = "under way"
    BY <1>4 DEF CompleteTransfer
  <2>2. ~disturbed
    BY <2>1, Zenon
  <2>3. /\ ~Gone /\ volume # NoDrive /\ Len(calls) = 1
        /\ Top.waiting /\ Top.answer = NoDrive =>
             xfer.kind = "io" /\ xfer.from # NoDrive
        /\ ~(Top.waiting /\ Top.answer = NoDrive) => xfer = NoTransfer
    BY <2>2, Zenon DEF Strong, Settled
  <2>4. NoTransfer.state = "over"
    BY DEF NoTransfer
  <2>5. Top.waiting /\ Top.answer = NoDrive
    BY <2>1, <2>3, <2>4
  <2>6. xfer'.kind = xfer.kind /\ xfer'.from = xfer.from
    BY <1>4 DEF CompleteTransfer, Strong, IInv, Types, Transfers
  <2>7. ~Gone'
    <3>1. PICK e \in {"complete", "failed"} : usb' = Append(usb, e)
      BY <1>4 DEF CompleteTransfer
    <3>2. /\ Len(usb) \in Nat /\ Len(usb') = Len(usb) + 1
          /\ \A i \in 1 .. Len(usb) : usb'[i] = usb[i]
          /\ usb'[Len(usb) + 1] # "detach"
      BY <3>1, EventAppended DEF Strong, EventInv, Events
    <3>3. drive' = drive /\ drive # NoDrive
          /\ \A i \in 1 .. Len(usb) : usb[i] # "detach"
      BY <2>1, <2>3 DEF Gone, Contains
    <3>4. \A i \in 1 .. Len(usb') : usb'[i] # "detach"
      BY <3>2, <3>3
    <3>5. QED
      BY <3>3, <3>4 DEF Gone, Contains
  <2>8. QED
    BY <2>3, <2>5, <2>6, <2>7
<1>5. QED
  BY <1>2, <1>3, <1>4 DEF Environment, Disturbance, Transfer

LEMMA SettledByDiskIO ==
  ASSUME Strong, DiskIO
  PROVE  Settled'
<1> DEFINE c == [Top EXCEPT !.ios = @ + 1, !.waiting = TRUE, !.answer = NoDrive]
<1>1. /\ calls \in Seq(Calls) /\ calls # <<>> /\ Top \in Calls /\ ~Top.waiting
      /\ Top.ios + 1 \in 0 .. MaxIO
  BY StackTop, StorageAssumption
     DEF Strong, IInv, Types, DiskIO, CallDisk, Calls
<1>2. c \in Calls /\ c.op = Top.op /\ c.waiting /\ c.answer = NoDrive
  BY <1>1, StorageAssumption DEF Calls
<1>3. calls' = SetTop(c)
  BY DEF DiskIO, CallDisk
<1> HIDE DEF c
<1>4. Len(calls') = Len(calls) /\ Top' = c
  BY <1>1, <1>2, <1>3, TopReplaced DEF Top
<1>5. UNCHANGED <<drive, usb, mounted, volume, disturbed>>
  BY DEF DiskIO, CallDisk
<1> SUFFICES ASSUME ~disturbed'
             PROVE  /\ ~Gone' /\ volume' # NoDrive /\ Len(calls') = 1
                    /\ xfer'.kind = "io" /\ xfer'.from # NoDrive
  BY <1>2, <1>4 DEF Settled
<1>6. ~disturbed
  BY <1>5, Zenon
<1>7. ~Gone /\ volume # NoDrive /\ Len(calls) = 1 /\ xfer = NoTransfer
  BY <1>1, <1>6, Zenon DEF Strong, Settled
<1>8. mounted
  BY <1>7, Zenon DEF Strong, EventInv, Known
<1>9. xfer' = [kind |-> "io", state |-> IF Gone THEN "lost" ELSE "under way",
               from |-> drive, for |-> Len(calls)]
  BY <1>7, <1>8, Zenon DEF DiskIO, CallDisk, Submit
<1>10. drive # NoDrive /\ ~Gone'
  BY <1>5, <1>7 DEF Gone
<1>11. QED
  BY <1>4, <1>5, <1>7, <1>9, <1>10

LEMMA SettledByReturn ==
  ASSUME Strong, Return
  PROVE  Settled'
<1> DEFINE c == [Top EXCEPT !.waiting = FALSE]
<1>1. calls \in Seq(Calls) /\ calls # <<>> /\ Top \in Calls
  BY StackTop DEF Strong, IInv, Types, Return
<1>2. c \in Calls /\ c.op = Top.op /\ ~c.waiting
  BY <1>1 DEF Calls
<1>3. calls' = SetTop(c)
  BY DEF Return
<1> HIDE DEF c
<1>4. Len(calls') = Len(calls) /\ Top' = c
  BY <1>1, <1>2, <1>3, TopReplaced DEF Top
<1>5. UNCHANGED <<drive, usb, xfer, volume, disturbed>>
  BY DEF Return, usbVars
<1> SUFFICES ASSUME ~disturbed'
             PROVE  /\ ~Gone' /\ volume' # NoDrive /\ Len(calls') = 1
                    /\ xfer' = NoTransfer
  BY <1>2, <1>4 DEF Settled
<1>6. ~disturbed
  BY <1>5, Zenon
<1>7. /\ ~Gone /\ volume # NoDrive /\ Len(calls) = 1
      /\ Top.waiting /\ Top.answer = NoDrive => xfer.kind = "io"
      /\ ~(Top.waiting /\ Top.answer = NoDrive) => xfer = NoTransfer
  BY <1>1, <1>6, Zenon DEF Strong, Settled
<1>8. xfer.kind # "io"
  BY DEF Strong, IInv, TransferIsAwaited, Return
<1>9. xfer = NoTransfer
  BY <1>7, <1>8
<1>10. ~Gone'
  BY <1>5, <1>7 DEF Gone
<1>11. QED
  BY <1>4, <1>5, <1>7, <1>9, <1>10

LEMMA SettledByTask ==
  ASSUME Strong, tuh_task
  PROVE  Settled'
<1>1. PICK e \in Events : InTask(e)
  BY DEF tuh_task, NotEnumerated, tuh_msc_mount_cb, tuh_msc_umount_cb,
         disk_io_complete, InquiryFailed, inquiry_complete_cb, Events
<1>2. drive' = drive
  BY DEF tuh_task, NotEnumerated, tuh_msc_mount_cb, tuh_msc_umount_cb,
         disk_io_complete, InquiryFailed, inquiry_complete_cb
<1>3. Gone' => Gone
  BY <1>1, <1>2, StillThere DEF Strong, EventInv
<1>4. ASSUME UNCHANGED <<calls, disturbed>>, Gone \/ volume = NoDrive
      PROVE  Settled'
  <2>1. calls # <<>> => disturbed
    BY <1>4, Excused, Zenon DEF Strong
  <2>2. QED
    BY <1>4, <2>1, Zenon DEF Settled
<1>5. CASE NotEnumerated \/ tuh_msc_umount_cb
  <2>1. Len(usb) \in Nat /\ Len(usb) >= 1 /\ usb[1] = e
    BY <1>1, EventHandled DEF Strong, EventInv
  <2>2. Contains(usb, "detach")
    <3>1. CASE NotEnumerated
      BY <3>1 DEF NotEnumerated
    <3>2. CASE tuh_msc_umount_cb
      <4>1. e = "detach"
        BY <1>1, <3>2 DEF tuh_msc_umount_cb, InTask
      <4>2. QED
        BY <2>1, <4>1 DEF Contains
    <3>3. QED
      BY <1>5, <3>1, <3>2
  <2>3. UNCHANGED <<calls, disturbed>>
    BY <1>5 DEF NotEnumerated, tuh_msc_umount_cb
  <2>4. QED
    BY <1>4, <2>2, <2>3 DEF Gone
<1>6. CASE tuh_msc_mount_cb
  <2>1. volume = NoDrive
    BY <1>6, MountsOnce DEF Strong, IInv
  <2>2. UNCHANGED <<calls, disturbed>>
    BY <1>6 DEF tuh_msc_mount_cb
  <2>3. QED
    BY <1>4, <2>1, <2>2
<1>7. CASE InquiryFailed
  <2>1. usb[1] = "failed" /\ 1 \in 1 .. Len(usb)
    BY <1>7, EventHandled DEF Strong, EventInv, InquiryFailed
  <2>2. xfer.kind = "inquiry"
    BY <2>1 DEF Strong, EventInv, Reported, Ends
  <2>3. volume = NoDrive
    BY <2>2, Zenon DEF Strong, EventInv, Known
  <2>4. UNCHANGED <<calls, disturbed>>
    BY <1>7 DEF InquiryFailed
  <2>5. QED
    BY <1>4, <2>3, <2>4
<1>8. CASE disk_io_complete
  <2> DEFINE c == [Top EXCEPT !.answer = xfer.from]
  <2>1. /\ xfer.kind = "io" /\ xfer.for = Len(calls) /\ calls # <<>>
        /\ xfer \in Transfers /\ Top.waiting /\ Top.answer = NoDrive
    BY <1>8 DEF Strong, IInv, Types, TransferIsAwaited, disk_io_complete
  <2>2. calls \in Seq(Calls) /\ Top \in Calls
    BY <2>1, StackTop DEF Strong, IInv, Types
  <2>3. c \in Calls /\ c.op = Top.op /\ c.answer = xfer.from
    BY <2>1, <2>2 DEF Calls, Transfers
  <2>4. calls' = SetTop(c)
    BY <1>8, <2>1 DEF disk_io_complete, SetTop, Top
  <2> HIDE DEF c
  <2>5. Len(calls') = Len(calls) /\ Top' = c
    BY <2>1, <2>2, <2>3, <2>4, TopReplaced DEF Top
  <2>6. disturbed' = disturbed /\ volume' = volume /\ xfer' = NoTransfer
    BY <1>8 DEF disk_io_complete
  <2> SUFFICES ASSUME ~disturbed'
               PROVE  /\ ~Gone' /\ volume' # NoDrive /\ Len(calls') = 1
                      /\ xfer.from # NoDrive
    BY <2>3, <2>5, <2>6 DEF Settled
  <2>7. ~disturbed
    BY <2>6, Zenon
  <2>8. /\ ~Gone /\ volume # NoDrive /\ Len(calls) = 1
        /\ Top.waiting /\ Top.answer = NoDrive =>
             xfer.kind = "io" /\ xfer.from # NoDrive
    BY <2>1, <2>7, Zenon DEF Strong, Settled
  <2>9. QED
    BY <1>3, <2>1, <2>5, <2>6, <2>8
<1>9. CASE inquiry_complete_cb
  <2>1. volume = NoDrive
    <3>1. xfer.kind = "inquiry"
      BY <1>9 DEF inquiry_complete_cb
    <3>2. QED
      BY <3>1, Zenon DEF Strong, EventInv, Known
  <2>2. CASE calls # <<>>
    <3>1. disturbed
      BY <2>1, <2>2, Excused DEF Strong
    <3>2. disturbed' = disturbed
      BY <1>9, <2>2, Zenon DEF inquiry_complete_cb
    <3>3. QED
      BY <3>1, <3>2, Zenon DEF Settled
  <2>3. CASE calls = <<>>
    <3>1. /\ disturbed' = Gone /\ volume' = Unread /\ xfer' = NoTransfer
          /\ calls' = Append(calls, Begin("mount"))
      BY <1>9, <2>3, Zenon DEF inquiry_complete_cb
    <3>2. calls' = <<Begin("mount")>>
      BY <2>3, <3>1
    <3>3. Len(calls') = 1 /\ ~Top'.waiting
      BY <3>2 DEF Top, Begin
    <3>4. volume' # NoDrive
      BY <3>1, StorageAssumption
    <3>5. ~disturbed' => ~Gone'
      BY <1>3, <3>1, Zenon
    <3>6. QED
      BY <3>1, <3>3, <3>4, <3>5 DEF Settled
  <2>4. QED
    BY <2>2, <2>3
<1>10. QED
  BY <1>5, <1>6, <1>7, <1>8, <1>9 DEF tuh_task

LEMMA SettledByEndMount ==
  ASSUME Strong, EndMount
  PROVE  Settled'
<1>1. calls \in Seq(Calls) /\ calls # <<>> /\ calls' = Front(calls)
  BY DEF Strong, IInv, Types, EndMount, Running
<1>2. Len(calls) \in Nat /\ Len(calls') = Len(calls) - 1
  BY <1>1, StackTop, TopRemoved
<1>3. CASE Len(calls) = 1
  <2>1. calls' = <<>>
    BY <1>1, <1>2, <1>3, TopRemoved, EmptySeq
  <2>2. QED
    BY <2>1 DEF Settled
<1>4. CASE Len(calls) # 1
  <2>1. disturbed
    BY <1>1, <1>4, Excused DEF Strong
  <2>2. Len(calls) > 1
    BY <1>1, <1>2, <1>4, StackTop
  <2>3. disturbed'
    <3>1. disturbed' = (disturbed /\ Len(calls) > 1)
      BY DEF EndMount
    <3>2. QED
      BY <2>1, <2>2, <3>1, Zenon
  <2>4. QED
    BY <2>3, Zenon DEF Settled
<1>5. QED
  BY <1>3, <1>4

LEMMA SettledByCapture ==
  ASSUME Strong, capture
  PROVE  Settled'
<1>1. /\ calls = <<>> /\ volume # NoDrive /\ calls' = <<Begin("mkdir")>>
      /\ UNCHANGED <<drive, usb, xfer, volume>> /\ disturbed' = Gone
  BY DEF capture, Registered, usbVars
<1>2. volume # NoDrive
  BY <1>1
<1>3. xfer = NoTransfer
  <2>1. xfer.kind # "io"
    BY <1>1 DEF Strong, IInv, TransferIsAwaited
  <2>2. xfer.kind # "inquiry"
    BY <1>2, Zenon DEF Strong, EventInv, Known
  <2>3. xfer.kind = "none"
    BY <2>1, <2>2 DEF Strong, IInv, Types, Transfers
  <2>4. QED
    BY <2>3, Zenon DEF Strong, EventInv, Known
<1>4. Len(calls') = 1 /\ ~Top'.waiting
  BY <1>1 DEF Top, Begin
<1>5. Gone' <=> Gone
  BY <1>1 DEF Gone
<1>6. ~disturbed' => ~Gone'
  BY <1>1, <1>5, Zenon
<1>7. QED
  BY <1>1, <1>2, <1>3, <1>4, <1>6 DEF Settled

-----------------------------------------------------------------------------
(* What a capture has come to, as long as FatFs works on the drive's sectors. *)
First == calls[1].op

Highest == \A n \in Counted(volume) : n <= fnum

Reached(op) ==
  /\ volume \in Drives
  /\ op \in {"mkdir", "number"} => MaxFile \notin Counted(volume)
  /\ op = "open" => fnum = last_file_number(volume) + 1 /\ fnum \in Numbers
  /\ op \in {"write", "close"} =>
       /\ handle_ok /\ fnum \in Numbers /\ entries[volume][fnum] = "cut"
       /\ todo \in Nat /\ Highest
  /\ op = "write" => todo >= 1
  /\ op = "close" => todo = 0 \/ gave_up
  /\ op = "ls" /\ room /\ ~gave_up =>
       (made \/ entries[volume][fnum] = "other") /\ Highest

(* A disturbance leaves stale sectors, and only those keep a volume unread. *)
Trusting == calls # <<>> /\ disturbed => stale

Rested == calls = <<>> /\ ~stale => volume # Unread

Reaching == calls # <<>> /\ ~stale /\ First # "mount" => Reached(First)

Progress == Trusting /\ Rested /\ Reaching

(* What the call that is about to return has reached. *)
LEMMA RunningReached ==
  ASSUME Strong, Progress, NEW op \in Ops, Running(op), ~stale
  PROVE  Reached(op) /\ Len(calls) = 1 /\ volume \in Drives
<1>1. op # "mount"
  BY DEF Ops
<1>2. Len(calls) = 1 /\ calls # <<>> /\ First = op
  <2>1. Len(calls) = 1
    BY <1>1, RunningAlone DEF Strong
  <2>2. Top = calls[1]
    BY <2>1 DEF Top
  <2>3. calls # <<>> /\ Top.op = op
    BY DEF Running
  <2>4. QED
    BY <2>1, <2>2, <2>3 DEF First
<1>3. Reached(First)
  BY <1>1, <1>2, Zenon DEF Progress, Reaching
<1>4. Reached(op)
  BY <1>2, <1>3
<1>5. QED
  BY <1>2, <1>4 DEF Reached

LEMMA SettledByCaptureStep ==
  ASSUME Strong, Progress, CaptureStep
  PROVE  Settled'
<1>1. PICK op \in Ops : Running(op)
  BY CaptureStepGoes
<1>2. calls # <<>> /\ ~Top.waiting
  BY <1>1 DEF Running
<1>3. /\ UNCHANGED <<drive, usb, mounted, xfer>>
      /\ volume' = volume \/ Remounts
  BY CaptureStepGoes
<1>4. CASE Finish
  BY <1>4 DEF Finish, Settled
<1>5. CASE \E next \in Ops : Go(next)
  <2>1. PICK next \in Ops : calls' = <<Begin(next)>> /\ disturbed' = disturbed
    BY <1>5 DEF Go
  <2>2. Len(calls') = 1 /\ ~Top'.waiting
    BY <2>1 DEF Top, Begin
  <2> SUFFICES ASSUME ~disturbed'
               PROVE  ~Gone' /\ volume' # NoDrive /\ xfer' = NoTransfer
    BY <2>2 DEF Settled
  <2>3. ~disturbed
    BY <2>1, Zenon
  <2>4. ~Gone /\ volume # NoDrive /\ xfer = NoTransfer
    BY <1>2, <2>3, Zenon DEF Strong, Settled
  <2>5. volume' # NoDrive
    <3>1. CASE volume' = volume
      BY <2>4, <3>1
    <3>2. CASE Remounts /\ stale
      BY <1>1, <2>4, <3>2, VolumeRead DEF Strong
    <3>3. CASE Remounts /\ ~stale
      <4>1. volume \in Drives
        BY <1>1, <3>3, RunningReached
      <4>2. volume' = volume
        BY <1>1, <3>3, <4>1, VolumeRead DEF Strong
      <4>3. QED
        BY <2>4, <4>2
    <3>4. QED
      BY <1>3, <3>1, <3>2, <3>3
  <2>6. Gone' <=> Gone
    BY <1>3 DEF Gone
  <2>7. QED
    BY <1>3, <2>4, <2>5, <2>6
<1>6. QED
  BY <1>4, <1>5, CaptureStepGoes DEF NextOrEnd

LEMMA InitStrong == Init => Strong
<1> SUFFICES ASSUME Init PROVE Strong
  OBVIOUS
<1>1. IInv
  BY InitInv
<1>2. /\ usb = <<>> /\ mounted = FALSE /\ xfer = NoTransfer /\ volume = NoDrive
      /\ calls = <<>>
  BY DEF Init, StorageInit
<1>3. usb \in Seq(Events) /\ Len(usb) = 0
  BY <1>2
<1>4. EventOrder /\ Reported
  <2>1. ASSUME NEW i \in 0 .. 1, NEW j \in 0 .. 1, At(i), i < j PROVE FALSE
    BY <1>2, <1>3, <2>1 DEF At
  <2>2. QED
    BY <1>3, <2>1 DEF EventOrder, Reported
<1>5. xfer.kind = "none" /\ xfer.state = "over"
  BY <1>2 DEF NoTransfer
<1>6. UnderWay /\ Known
  BY <1>2, <1>5 DEF UnderWay, Known
<1>7. Settled
  BY <1>2 DEF Settled
<1>8. QED
  BY <1>1, <1>3, <1>4, <1>6, <1>7 DEF Strong, EventInv

LEMMA IdleStrong == Strong /\ UNCHANGED vars => Strong'
<1> SUFFICES ASSUME Strong, UNCHANGED vars PROVE Strong'
  OBVIOUS
<1>1. UNCHANGED <<drive, usb, mounted, xfer, volume, calls, disturbed>>
  BY DEF vars, storageVars, usbVars
<1>2. IInv'
  BY IdleStep DEF Strong
<1>3. EventInv'
  BY <1>1, OtherEvents DEF Strong, IInv
<1>4. Settled'
  BY <1>1 DEF Strong, Settled, Gone, Top
<1>5. QED
  BY <1>2, <1>3, <1>4 DEF Strong

LEMMA StepStrong == Strong /\ Progress /\ [Next]_vars => Strong'
<1> SUFFICES ASSUME Strong, Progress, Next PROVE Strong'
  BY IdleStrong
<1>1. IInv'
  BY StepInv DEF Strong
<1>2. Types /\ EventInv
  BY DEF Strong, IInv
<1>3. CASE capture
  <2>1. UNCHANGED <<drive, usb, mounted, xfer, volume>>
    BY <1>3 DEF capture, usbVars
  <2>2. QED
    BY <1>1, <1>2, <1>3, <2>1, OtherEvents, SettledByCapture DEF Strong
<1>4. CASE CaptureStep
  <2>1. PICK op \in Ops : Running(op)
    BY <1>4, CaptureStepGoes
  <2>2. /\ UNCHANGED <<drive, usb, mounted, xfer>>
        /\ volume = NoDrive => volume' = NoDrive
    BY <1>4, <2>1, CaptureStepGoes, VolumeRead DEF Strong
  <2>3. QED
    BY <1>1, <1>2, <1>4, <2>2, OtherEvents, SettledByCaptureStep DEF Strong
<1>5. CASE Environment
  BY <1>1, <1>2, <1>5, EnvironmentEvents, SettledByEnvironment DEF Strong
<1>6. CASE tuh_task
  BY <1>1, <1>2, <1>6, TaskEvents, SettledByTask DEF Strong
<1>7. CASE DiskIO
  <2>1. UNCHANGED <<drive, usb, mounted, volume>> /\ Submit
    BY <1>7 DEF DiskIO, CallDisk
  <2>2. QED
    BY <1>1, <1>2, <1>7, <2>1, OtherEvents, SettledByDiskIO DEF Strong
<1>8. CASE Return
  <2>1. UNCHANGED <<drive, usb, mounted, xfer, volume>>
    BY <1>8 DEF Return, usbVars
  <2>2. QED
    BY <1>1, <1>2, <1>8, <2>1, OtherEvents, SettledByReturn DEF Strong
<1>9. CASE EndMount
  <2>1. /\ UNCHANGED <<drive, usb, mounted, xfer>>
        /\ volume = NoDrive => volume' = NoDrive
    BY <1>9 DEF EndMount, usbVars
  <2>2. QED
    BY <1>1, <1>2, <1>9, <2>1, OtherEvents, SettledByEndMount DEF Strong
<1>10. QED
  BY <1>3, <1>4, <1>5, <1>6, <1>7, <1>8, <1>9 DEF Next, Core1, StorageStep

-----------------------------------------------------------------------------
(* Only wait_for_disk_io ends a wait. *)
LEMMA OnlyReturnReturns ==
  ASSUME IInv, [Next]_vars, Returning
  PROVE  Return
<1>1. /\ calls \in Seq(Calls) /\ calls # <<>> /\ Top.waiting
      /\ Len(calls') = Len(calls) /\ ~calls'[Len(calls)].waiting
      /\ Len(calls) \in Nat /\ Len(calls) >= 1 /\ Top \in Calls
  BY StackTop DEF IInv, Types, Returning
<1>2. calls' # calls
  BY <1>1 DEF Top
<1>3. CASE capture \/ CaptureStep
  <2>1. ~capture
    BY <1>1 DEF capture
  <2>2. ~CaptureStep
    BY <1>1, CaptureStepGoes DEF Running
  <2>3. QED
    BY <1>3, <2>1, <2>2
<1>4. CASE DiskIO \/ EndMount
  BY <1>1, <1>4 DEF DiskIO, CallDisk, EndMount, Running
<1>5. CASE Environment
  BY <1>2, <1>5 DEF Environment, Disturbance, Transfer, Plug, Unplug, CompleteTransfer
<1>6. CASE tuh_task
  <2>1. CASE disk_io_complete
    <3> DEFINE c == [Top EXCEPT !.answer = xfer.from]
    <3>1. xfer.kind = "io" /\ xfer.for = Len(calls) /\ xfer \in Transfers
      BY <2>1 DEF IInv, Types, TransferIsAwaited, disk_io_complete
    <3>2. c \in Calls /\ c.op = Top.op /\ c.waiting
      BY <1>1, <3>1 DEF Calls, Transfers
    <3>3. calls' = SetTop(c)
      BY <2>1, <3>1 DEF disk_io_complete, SetTop, Top
    <3> HIDE DEF c
    <3>4. calls'[Len(calls)] = c
      BY <1>1, <3>2, <3>3, TopReplaced
    <3>5. QED
      BY <1>1, <3>2, <3>4
  <2>2. CASE inquiry_complete_cb
    <3>1. calls' = Append(calls, Begin("mount"))
      BY <2>2 DEF inquiry_complete_cb
    <3>2. Len(calls') = Len(calls) + 1
      BY <1>1, <3>1, StorageAssumption DEF Begin
    <3>3. QED
      BY <1>1, <3>2
  <2>3. CASE ~disk_io_complete /\ ~inquiry_complete_cb
    BY <1>2, <1>6, <2>3
       DEF tuh_task, NotEnumerated, tuh_msc_mount_cb, tuh_msc_umount_cb, InquiryFailed
  <2>4. QED
    BY <2>1, <2>2, <2>3
<1>7. CASE UNCHANGED vars
  BY <1>2, <1>7 DEF vars, storageVars
<1>8. QED
  BY <1>3, <1>4, <1>5, <1>6, <1>7 DEF Next, Core1, StorageStep

-----------------------------------------------------------------------------
(* Sectors stay stale until a drive is mounted. *)
LEMMA StaleStays ==
  ASSUME CompleteTransfer, ~stale'
  PROVE  ~stale /\ UNCHANGED <<calls, disturbed, volume, handle_ok>>
<1>1. stale' = stale \/ stale' = (stale \/ xfer.kind = "io")
  BY DEF CompleteTransfer
<1>2. ~stale
  BY <1>1, Zenon
<1>3. QED
  BY <1>2 DEF CompleteTransfer

LEMMA TrustingStep ==
  ASSUME Strong, Progress, Next
  PROVE  Trusting'
<1>1. Trusting
  BY DEF Progress
<1>2. ASSUME calls' # <<>> => calls # <<>>, disturbed' = disturbed, stale' = stale
      PROVE  Trusting'
  BY <1>1, <1>2, Zenon DEF Trusting
<1>3. ASSUME calls' # <<>> /\ disturbed' => stale'
      PROVE  Trusting'
  BY <1>3, Zenon DEF Trusting
<1>4. CASE capture
  <2>1. disturbed' = Gone /\ stale' = (stale \/ Gone)
    BY <1>4 DEF capture
  <2>2. QED
    BY <1>3, <2>1, Zenon
<1>5. CASE CaptureStep
  <2>1. calls # <<>>
    BY <1>5, CaptureStepGoes DEF Running
  <2>2. CASE Finish
    BY <1>3, <2>2 DEF Finish
  <2>3. CASE \E op \in Ops : Go(op)
    BY <1>2, <2>1, <2>3 DEF Go
  <2>4. QED
    BY <1>5, <2>2, <2>3, CaptureStepGoes DEF NextOrEnd
<1>6. CASE Plug
  BY <1>2, <1>6 DEF Plug
<1>7. CASE Unplug
  <2>1. disturbed' = (calls # <<>>) /\ stale' = (stale \/ calls # <<>>)
    BY <1>7 DEF Unplug
  <2>2. QED
    BY <1>3, <2>1, Zenon
<1>8. CASE CompleteTransfer
  <2>1. CASE stale'
    BY <1>3, <2>1
  <2>2. CASE ~stale'
    <3>1. ~stale /\ UNCHANGED <<calls, disturbed>>
      BY <1>8, <2>2, StaleStays
    <3>2. QED
      BY <1>1, <2>2, <3>1, Zenon DEF Trusting
  <2>3. QED
    BY <2>1, <2>2
<1>9. CASE inquiry_complete_cb
  <2>1. CASE calls = <<>>
    <3>1. disturbed' = Gone /\ stale' = Gone
      BY <1>9, <2>1, Zenon DEF inquiry_complete_cb
    <3>2. QED
      BY <1>3, <3>1, Zenon
  <2>2. CASE calls # <<>>
    <3>1. disturbed' = disturbed /\ stale' = stale
      BY <1>9, <2>2, Zenon DEF inquiry_complete_cb
    <3>2. QED
      BY <1>2, <2>2, <3>1
  <2>3. QED
    BY <2>1, <2>2
<1>10. CASE EndMount
  <2>1. calls # <<>> /\ stale' = stale /\ (disturbed' => disturbed)
    <3>1. calls # <<>> /\ stale' = stale /\ disturbed' = (disturbed /\ Len(calls) > 1)
      BY <1>10 DEF EndMount, Running
    <3>2. QED
      BY <3>1, Zenon
  <2>2. QED
    BY <1>1, <2>1, Zenon DEF Trusting
<1>11. CASE DiskIO \/ Return \/ disk_io_complete
  <2>1. calls # <<>> /\ disturbed' = disturbed /\ stale' = stale
    BY <1>11 DEF Strong, IInv, TransferIsAwaited, DiskIO, CallDisk, Return,
                 disk_io_complete
  <2>2. QED
    BY <1>2, <2>1
<1>12. CASE NotEnumerated \/ tuh_msc_mount_cb \/ tuh_msc_umount_cb \/ InquiryFailed
  BY <1>2, <1>12 DEF NotEnumerated, tuh_msc_mount_cb, tuh_msc_umount_cb, InquiryFailed
<1>13. QED
  BY <1>4, <1>5, <1>6, <1>7, <1>8, <1>9, <1>10, <1>11, <1>12
     DEF Next, Core1, Environment, Disturbance, Transfer, StorageStep, tuh_task

(* What lets the reached state be: nothing of it changes. *)
LEMMA ReachingKept ==
  ASSUME Reaching, UNCHANGED <<captureVars, room, volume, handle_ok>>,
         calls' # <<>> /\ ~stale' => calls # <<>> /\ ~stale /\ First' = First
  PROVE  Reaching'
<1>1. UNCHANGED <<fnum, todo, gave_up, made, entries, volume, handle_ok, room>>
  BY DEF captureVars, locals
<1>2. ASSUME NEW op, Reached(op) PROVE Reached(op)'
  BY <1>1, <1>2 DEF Reached, Highest, Counted, last_file_number
<1>3. CASE calls' # <<>> /\ ~stale' /\ First' # "mount"
  <2>1. Reached(First)
    BY <1>3, Zenon DEF Reaching
  <2>2. PICK op : op = First
    OBVIOUS
  <2>3. Reached(op)' /\ First' = op
    BY <1>2, <1>3, <2>1, <2>2
  <2>4. Reached(First)'
    BY <2>3 DEF Reached
  <2>5. QED
    BY <2>4, Zenon DEF Reaching
<1>4. QED
  BY <1>3, Zenon DEF Reaching

LEMMA Idle ==
  ASSUME Rested, Reaching, UNCHANGED <<captureVars, room, volume, handle_ok, calls>>,
         ~stale' => ~stale
  PROVE  Rested' /\ Reaching'
<1>1. Rested'
  BY Zenon DEF Rested
<1>2. First' = First
  BY DEF First
<1>3. QED
  BY <1>1, <1>2, ReachingKept

(* The user and the drive. *)
LEMMA ProgressInEnvironment ==
  ASSUME Progress, Environment, UNCHANGED <<locals, room>>
  PROVE  Rested' /\ Reaching'
<1>1. CASE Plug /\ UNCHANGED entries
  BY <1>1, Idle DEF Progress, Plug, captureVars
<1>2. CASE Disturbance
  <2>1. /\ UNCHANGED <<calls, volume, handle_ok>>
        /\ stale' = (stale \/ calls # <<>>)
        /\ entries' \in IF stale' /\ ~stale THEN Begun ELSE {entries}
    BY <1>2 DEF Disturbance, Unplug
  <2>2. CASE stale'
    BY <2>2, Zenon DEF Rested, Reaching
  <2>3. CASE ~stale'
    <3>1. ~stale
      BY <2>1, <2>3, Zenon
    <3>2. entries' = entries
      BY <2>1, <2>3
    <3>3. QED
      BY <2>1, <3>1, <3>2, Idle DEF Progress, captureVars
  <2>4. QED
    BY <2>2, <2>3
<1>3. CASE Transfer
  <2>1. CASE stale'
    BY <2>1, Zenon DEF Rested, Reaching
  <2>2. CASE ~stale'
    <3>1. ~stale /\ UNCHANGED <<calls, volume, handle_ok>>
      BY <1>3, <2>2, StaleStays DEF Transfer
    <3>2. entries' = entries
      BY <1>3, <2>2, <3>1 DEF Transfer
    <3>3. QED
      BY <3>1, <3>2, Idle DEF Progress, captureVars
  <2>3. QED
    BY <2>1, <2>2
<1>4. QED
  BY <1>1, <1>2, <1>3 DEF Environment

LEMMA Undisturbed ==
  ASSUME Strong, Progress, calls # <<>>, Gone \/ volume = NoDrive \/ Len(calls) # 1
  PROVE  stale
<1>1. disturbed
  BY Excused DEF Strong
<1>2. QED
  BY <1>1, Zenon DEF Progress, Trusting

(* The calls of FatFs and the callbacks. *)
LEMMA ProgressInStorage ==
  ASSUME Strong, Progress, StorageStep, UNCHANGED <<captureVars, room>>
  PROVE  Rested' /\ Reaching'
<1>1. calls \in Seq(Calls)
  BY DEF Strong, IInv, Types
<1>2. Rested /\ Reaching
  BY DEF Progress
<1>3. CASE DiskIO \/ Return \/ disk_io_complete
  <2>1. calls # <<>> /\ UNCHANGED <<volume, handle_ok, stale>>
    BY <1>3 DEF Strong, IInv, TransferIsAwaited, DiskIO, CallDisk, Return,
                disk_io_complete
  <2>2. Top \in Calls
    BY <1>1, <2>1, StackTop
  <2>3. \E c \in Calls : c.op = Top.op /\ calls' = SetTop(c)
    <3>1. CASE DiskIO
      <4> DEFINE c == [Top EXCEPT !.ios = @ + 1, !.waiting = TRUE, !.answer = NoDrive]
      <4>1. Top.ios + 1 \in 0 .. MaxIO
        BY <2>2, <3>1, StorageAssumption DEF Calls, DiskIO, CallDisk
      <4>2. c \in Calls /\ c.op = Top.op
        BY <2>2, <4>1 DEF Calls
      <4>3. QED
        BY <3>1, <4>2 DEF DiskIO, CallDisk
    <3>2. CASE Return
      <4> DEFINE c == [Top EXCEPT !.waiting = FALSE]
      <4>1. c \in Calls /\ c.op = Top.op
        BY <2>2 DEF Calls
      <4>2. QED
        BY <3>2, <4>1 DEF Return
    <3>3. CASE disk_io_complete
      <4> DEFINE c == [Top EXCEPT !.answer = xfer.from]
      <4>1. xfer.for = Len(calls) /\ xfer \in Transfers
        BY <3>3 DEF Strong, IInv, Types, TransferIsAwaited, disk_io_complete
      <4>2. c \in Calls /\ c.op = Top.op
        BY <2>2, <4>1 DEF Calls, Transfers
      <4>3. calls' = SetTop(c)
        BY <3>3, <4>1 DEF disk_io_complete, SetTop, Top
      <4>4. QED
        BY <4>2, <4>3
    <3>4. QED
      BY <1>3, <3>1, <3>2, <3>3
  <2>4. calls' # <<>> /\ First' = First
    BY <1>1, <2>1, <2>3, StackTop, TopReplaced DEF First
  <2>5. QED
    BY <1>2, <2>1, <2>4, ReachingKept DEF Rested
<1>4. CASE NotEnumerated \/ tuh_msc_mount_cb \/ InquiryFailed
  <2>1. UNCHANGED <<calls, volume, handle_ok, stale>>
    BY <1>4 DEF NotEnumerated, tuh_msc_mount_cb, InquiryFailed
  <2>2. QED
    BY <1>2, <2>1, Idle
<1>5. CASE tuh_msc_umount_cb
  <2>1. usb[1] = "detach" /\ 1 \in 1 .. Len(usb)
    BY <1>5, EventHandled DEF Strong, EventInv, tuh_msc_umount_cb
  <2>2. Gone
    BY <2>1 DEF Gone, Contains
  <2>3. UNCHANGED <<calls, stale>> /\ volume' = NoDrive
    BY <1>5 DEF tuh_msc_umount_cb
  <2>4. calls' # <<>> => stale'
    BY <2>2, <2>3, Undisturbed
  <2>5. QED
    BY <2>3, <2>4, StorageAssumption, Zenon DEF Rested, Reaching
<1>6. CASE inquiry_complete_cb
  <2>1. volume = NoDrive
    <3>1. xfer.kind = "inquiry"
      BY <1>6 DEF inquiry_complete_cb
    <3>2. QED
      BY <3>1, Zenon DEF Strong, EventInv, Known
  <2>2. calls' # <<>>
    <3>1. calls' = Append(calls, Begin("mount")) /\ Len(calls) \in Nat
      BY <1>1, <1>6, LenProperties DEF inquiry_complete_cb
    <3>2. Len(calls') = Len(calls) + 1
      BY <1>1, <3>1, StorageAssumption DEF Begin
    <3>3. QED
      BY <3>1, <3>2
  <2>3. CASE calls # <<>>
    <3>1. stale
      BY <2>1, <2>3, Undisturbed
    <3>2. stale' = stale
      BY <1>6, <2>3, Zenon DEF inquiry_complete_cb
    <3>3. QED
      BY <2>2, <3>1, <3>2, Zenon DEF Rested, Reaching
  <2>4. CASE calls = <<>>
    <3>1. calls' = <<Begin("mount")>>
      BY <1>6, <2>4 DEF inquiry_complete_cb
    <3>2. First' = "mount"
      BY <3>1 DEF First, Begin
    <3>3. QED
      BY <2>2, <3>2, Zenon DEF Rested, Reaching
  <2>5. QED
    BY <2>3, <2>4
<1>7. CASE EndMount
  <2>1. calls # <<>> /\ calls' = Front(calls) /\ stale' = stale
    BY <1>7 DEF EndMount, Running
  <2>2. /\ Len(calls) \in Nat /\ Len(calls) >= 1 /\ Len(calls') = Len(calls) - 1
        /\ Top \in Calls
    BY <1>1, <2>1, StackTop, TopRemoved
  <2>3. CASE Len(calls) = 1
    <3>1. calls' = <<>>
      BY <1>1, <2>1, <2>2, <2>3, TopRemoved, EmptySeq
    <3>2. ~stale => volume' # Unread
      BY <1>7, <2>2, StorageAssumption DEF EndMount, Recognised, Calls
    <3>3. QED
      BY <2>1, <3>1, <3>2, Zenon DEF Rested, Reaching
  <2>4. CASE Len(calls) # 1
    <3>1. stale
      BY <2>1, <2>4, Undisturbed
    <3>2. QED
      BY <2>1, <3>1, Zenon DEF Rested, Reaching
  <2>5. QED
    BY <2>3, <2>4
<1>8. QED
  BY <1>3, <1>4, <1>5, <1>6, <1>7 DEF StorageStep, tuh_task

-----------------------------------------------------------------------------
(* The steps of capture. *)
LEMMA ReachedNext ==
  ASSUME NEW next, calls' = <<Begin(next)>>, stale' \/ Reached(next)'
  PROVE  Rested' /\ Reaching'
<1>1. First' = next /\ calls' # <<>>
  BY DEF First, Begin
<1>2. CASE stale'
  BY <1>1, <1>2, Zenon DEF Rested, Reaching
<1>3. CASE Reached(next)'
  <2>1. Reached(First)'
    BY <1>1, <1>3 DEF Reached
  <2>2. QED
    BY <1>1, <2>1, Zenon DEF Rested, Reaching
<1>4. QED
  BY <1>2, <1>3

LEMMA ReachedEnd ==
  ASSUME Finish, stale \/ volume' # Unread
  PROVE  Rested' /\ Reaching'
<1>1. calls' = <<>> /\ stale' = stale
  BY DEF Finish
<1>2. QED
  BY <1>1, Zenon DEF Rested, Reaching

(* What is to be shown of a step of capture. *)
LEMMA StaleSteps ==
  ASSUME CaptureStep, stale
  PROVE  Rested' /\ Reaching'
<1>1. stale'
  <2>1. CASE Finish
    BY <2>1 DEF Finish
  <2>2. CASE \E op \in Ops : Go(op)
    BY <2>2 DEF Go
  <2>3. QED
    BY <2>1, <2>2, CaptureStepGoes DEF NextOrEnd
<1>2. QED
  BY <1>1, Zenon DEF Rested, Reaching

LEMMA ReadableStays ==
  ASSUME Strong, Progress, ~stale, NEW op \in Ops, Running(op), Remounts
  PROVE  volume' = volume
<1>1. volume \in Drives
  BY RunningReached
<1>2. QED
  BY <1>1, VolumeRead DEF Strong

LEMMA ProgressInMkdir ==
  ASSUME Strong, Progress, ~stale, capture \/ EndMkdir
  PROVE  Rested' /\ Reaching'
<1>1. CASE capture
  <2>1. /\ calls' = <<Begin("mkdir")>> /\ volume' = volume /\ volume # NoDrive
        /\ calls = <<>> /\ entries' = entries
        /\ \A d \in Drives : MaxFile \notin Counted(d)
    BY <1>1 DEF capture, Registered, captureVars
  <2>2. volume \in Drives
    <3>1. volume # Unread
      BY <2>1, Zenon DEF Progress, Rested
    <3>2. QED
      BY <2>1, <3>1 DEF Strong, IInv, Types
  <2>3. Reached("mkdir")'
    BY <2>1, <2>2 DEF Reached, Counted
  <2>4. QED
    BY <2>1, <2>3, ReachedNext
<1>2. CASE EndMkdir
  <2>1. Running("mkdir") /\ "mkdir" \in Ops /\ Remounts /\ entries' = entries
    BY <1>2 DEF EndMkdir, Ops
  <2>2. volume' = volume /\ Reached("mkdir") /\ volume \in Drives
    BY <2>1, ReadableStays, RunningReached
  <2>3. CASE Go("number")
    <3>1. Reached("number")'
      BY <2>1, <2>2 DEF Reached, Counted
    <3>2. QED
      BY <2>3, <3>1, ReachedNext DEF Go
  <2>4. CASE Finish
    BY <2>2, <2>4, ReachedEnd, StorageAssumption
  <2>5. QED
    BY <1>2, <2>3, <2>4 DEF EndMkdir
<1>3. QED
  BY <1>1, <1>2

LEMMA ProgressInNumber ==
  ASSUME Strong, Progress, ~stale, EndNumber
  PROVE  Rested' /\ Reaching'
<1>1. Running("number") /\ "number" \in Ops /\ UNCHANGED <<volume, entries>>
  BY DEF EndNumber, Ops
<1>2. volume \in Drives /\ MaxFile \notin Counted(volume)
  BY <1>1, RunningReached DEF Reached
<1>3. /\ fnum' = last_file_number(volume) + 1
      /\ calls' = <<Begin("open")>>
  BY <1>2, StorageAssumption DEF EndNumber, Registered, Go
<1>4. last_file_number(volume) + 1 \in Numbers
  BY <1>2, LastFileNumber
<1>5. Reached("open")'
  BY <1>1, <1>2, <1>3, <1>4 DEF Reached, last_file_number, Counted
<1>6. QED
  BY <1>3, <1>5, ReachedNext

LEMMA ProgressInOpen ==
  ASSUME Strong, Progress, ~stale, EndOpen, UNCHANGED room
  PROVE  Rested' /\ Reaching'
<1>1. Running("open") /\ "open" \in Ops /\ Remounts
  BY DEF EndOpen, Ops
<1>2. /\ volume' = volume /\ volume \in Drives /\ volume # NoDrive
      /\ fnum = last_file_number(volume) + 1 /\ fnum \in Numbers
  BY <1>1, ReadableStays, RunningReached, StorageAssumption DEF Reached
<1>3. fnum \in Nat /\ entries \in [Drives -> [Numbers -> Entries]]
  BY DEF Strong, IInv, Types
<1>4. /\ \A n \in Counted(volume) : n <= fnum
      /\ fnum \notin Counted(volume)
  BY <1>2, HighestNumber DEF Numbers
<1>5. PICK opened \in (IF CreateNew THEN Creating ELSE {FALSE}) :
        IF opened
        THEN /\ entries' = Put("cut")
             /\ handle_ok' = (volume' \in Drives)
             /\ todo' = Chunks
             /\ GoOn(Chunks)
             /\ UNCHANGED <<fnum, made>>
        ELSE GoList /\ UNCHANGED <<entries, handle_ok>>
  BY <1>2 DEF EndOpen, Results, Registered
<1>6. CASE opened
  <2>1. /\ entries' = Put("cut") /\ handle_ok' = TRUE /\ todo' = Chunks
        /\ fnum' = fnum /\ GoOn(Chunks)
    BY <1>2, <1>5, <1>6
  <2>2. /\ entries'[volume][fnum] = "cut"
        /\ \A n \in Numbers : n # fnum => entries'[volume][n] = entries[volume][n]
    BY <1>2, <1>3, <2>1 DEF Put
  <2>3. Highest'
    BY <1>2, <1>3, <1>4, <2>1, <2>2 DEF Highest, Counted, Numbers
  <2>4. CASE Go("write")
    <3>1. Reached("write")'
      BY <1>2, <2>1, <2>2, <2>3, CaptureAssumption DEF Reached
    <3>2. QED
      BY <2>4, <3>1, ReachedNext DEF Go
  <2>5. CASE Go("close") /\ gave_up' = TRUE
    <3>1. Reached("close")'
      BY <1>2, <2>1, <2>2, <2>3, <2>5, CaptureAssumption DEF Reached
    <3>2. QED
      BY <2>5, <3>1, ReachedNext DEF Go
  <2>6. (IF Chunks > 0 THEN "write" ELSE "close") = "write"
    BY CaptureAssumption
  <2>7. Go("write") \/ (Go("close") /\ gave_up' = TRUE)
    BY <2>1, <2>6, Zenon DEF GoOn
  <2>8. QED
    BY <2>4, <2>5, <2>7
<1>7. CASE ~opened
  <2>1. Go("ls") /\ UNCHANGED <<fnum, made, gave_up, entries>>
    BY <1>2, <1>5, <1>7 DEF GoList, Registered, locals
  <2>2. room => entries[volume][fnum] = "other"
    <3>1. room => ~CreateNew
      BY <1>5, <1>7 DEF Creating
    <3>2. QED
      BY <1>2, <1>3, <1>4, <3>1 DEF CreateNew, Readable, Counted, Entries
  <2>3. Reached("ls")'
    BY <1>2, <1>4, <2>1, <2>2 DEF Reached, Highest, Counted
  <2>4. QED
    BY <2>1, <2>3, ReachedNext DEF Go
<1>8. QED
  BY <1>6, <1>7

LEMMA ProgressInWrite ==
  ASSUME Strong, Progress, ~stale, user_write_data, UNCHANGED room
  PROVE  Rested' /\ Reaching'
<1>1. /\ Running("write") /\ "write" \in Ops
      /\ UNCHANGED <<volume, handle_ok, entries, fnum>>
  BY DEF user_write_data, Ops
<1>2. /\ volume \in Drives /\ handle_ok /\ entries[volume][fnum] = "cut"
      /\ fnum \in Numbers /\ todo \in Nat /\ Highest /\ todo >= 1
  BY <1>1, RunningReached DEF Reached
<1>3. Highest'
  BY <1>1, <1>2 DEF Highest, Counted
<1>4. CASE Go("write") /\ todo' = todo
  <2>1. Reached("write")'
    BY <1>1, <1>2, <1>3, <1>4 DEF Reached
  <2>2. QED
    BY <1>4, <2>1, ReachedNext DEF Go
<1>5. CASE todo' = todo - 1 /\ GoOn(todo - 1)
  <2>1. todo \in Nat /\ todo - 1 \in Nat
    BY <1>2
  <2>2. CASE todo - 1 > 0 /\ Go("write")
    <3>1. Reached("write")'
      BY <1>1, <1>2, <1>3, <1>5, <2>1, <2>2 DEF Reached
    <3>2. QED
      BY <2>2, <3>1, ReachedNext DEF Go
  <2>3. CASE (todo - 1 = 0 \/ gave_up' = TRUE) /\ Go("close")
    <3>1. Reached("close")'
      BY <1>1, <1>2, <1>3, <1>5, <2>1, <2>3 DEF Reached
    <3>2. QED
      BY <2>3, <3>1, ReachedNext DEF Go
  <2>4. CASE todo - 1 > 0
    <3>1. (IF todo - 1 > 0 THEN "write" ELSE "close") = "write"
      BY <2>4
    <3>2. Go("write") \/ (Go("close") /\ gave_up' = TRUE)
      BY <1>5, <3>1, Zenon DEF GoOn
    <3>3. QED
      BY <2>2, <2>3, <2>4, <3>2
  <2>5. CASE ~(todo - 1 > 0)
    <3>1. todo - 1 = 0
      BY <2>1, <2>5
    <3>2. (IF todo - 1 > 0 THEN "write" ELSE "close") = "close"
      BY <2>5, Zenon
    <3>3. Go("close")
      BY <1>5, <2>5, <3>2, Zenon DEF GoOn
    <3>4. QED
      BY <2>3, <3>1, <3>3
  <2>6. QED
    BY <2>4, <2>5
<1>6. QED
  BY <1>2, <1>4, <1>5 DEF user_write_data, Results

LEMMA ProgressInClose ==
  ASSUME Strong, Progress, ~stale, EndClose, UNCHANGED room
  PROVE  Rested' /\ Reaching'
<1>1. Running("close") /\ "close" \in Ops /\ volume' = volume
  BY DEF EndClose, Ops
<1>2. /\ volume \in Drives /\ volume # NoDrive /\ handle_ok /\ Highest
      /\ fnum \in Numbers /\ (todo = 0 \/ gave_up)
  BY <1>1, RunningReached, StorageAssumption DEF Reached
<1>3. fnum \in Nat /\ entries \in [Drives -> [Numbers -> Entries]]
  BY DEF Strong, IInv, Types
<1>4. CASE todo = 0
  <2>1. /\ entries' = Put("whole") /\ made' = TRUE /\ fnum' = fnum
        /\ Go("ls")
    BY <1>2, <1>4 DEF EndClose, WholeWritten
  <2>2. \A n \in Numbers : n # fnum => entries'[volume][n] = entries[volume][n]
    BY <1>2, <1>3, <2>1 DEF Put
  <2>3. Highest'
    BY <1>1, <1>2, <1>3, <2>1, <2>2 DEF Highest, Counted, Numbers
  <2>4. Reached("ls")'
    BY <1>1, <1>2, <2>1, <2>3 DEF Reached
  <2>5. QED
    BY <2>1, <2>4, ReachedNext DEF Go
<1>5. CASE todo # 0
  <2>1. Go("ls") /\ gave_up' = gave_up
    BY <1>2, <1>5 DEF EndClose, WholeWritten, GoList, Registered, locals
  <2>2. Reached("ls")'
    BY <1>1, <1>2, <1>5, <2>1 DEF Reached
  <2>3. QED
    BY <2>1, <2>2, ReachedNext DEF Go
<1>6. QED
  BY <1>4, <1>5

LEMMA ProgressInList ==
  ASSUME Strong, Progress, ~stale, EndList
  PROVE  Rested' /\ Reaching'
<1>1. Running("ls") /\ "ls" \in Ops /\ Remounts /\ Finish
  BY DEF EndList, Ops
<1>2. volume' = volume /\ volume \in Drives
  BY <1>1, ReadableStays, RunningReached
<1>3. QED
  BY <1>1, <1>2, ReachedEnd, StorageAssumption

LEMMA InitProgress == Init => Progress
<1> SUFFICES ASSUME Init PROVE Progress
  OBVIOUS
<1>1. calls = <<>> /\ volume = NoDrive
  BY DEF Init, StorageInit
<1>2. QED
  BY <1>1, StorageAssumption DEF Progress, Trusting, Rested, Reaching

LEMMA StepProgress == Strong /\ Progress /\ [Next]_vars => Progress'
<1> SUFFICES ASSUME Strong, Progress, [Next]_vars PROVE Progress'
  OBVIOUS
<1>1. CASE UNCHANGED vars
  <2>1. /\ UNCHANGED <<captureVars, room, volume, handle_ok, calls>>
        /\ UNCHANGED <<disturbed, stale>>
    BY <1>1 DEF vars, storageVars
  <2>2. Rested' /\ Reaching'
    BY <2>1, Idle DEF Progress
  <2>3. Trusting'
    BY <2>1, Zenon DEF Progress, Trusting
  <2>4. QED
    BY <2>2, <2>3 DEF Progress
<1>2. CASE Next
  <2>1. UNCHANGED room
    BY <1>2 DEF Next
  <2>2. CASE capture
    <3>1. stale' = (stale \/ Gone) /\ calls' # <<>>
      BY <2>2 DEF capture
    <3>2. CASE stale
      <4>1. stale'
        BY <3>1, <3>2, Zenon
      <4>2. QED
        BY <1>2, <4>1, TrustingStep, Zenon DEF Progress, Rested, Reaching
    <3>3. CASE ~stale
      BY <1>2, <2>2, <3>3, ProgressInMkdir, TrustingStep DEF Progress
    <3>4. QED
      BY <3>2, <3>3
  <2>3. CASE CaptureStep /\ stale
    BY <1>2, <2>3, StaleSteps, TrustingStep DEF Progress
  <2>4. CASE CaptureStep /\ ~stale
    <3>1. Rested' /\ Reaching'
      BY <2>1, <2>4, ProgressInMkdir, ProgressInNumber, ProgressInOpen,
         ProgressInWrite, ProgressInClose, ProgressInList DEF CaptureStep
    <3>2. QED
      BY <1>2, <3>1, TrustingStep DEF Progress
  <2>5. CASE StorageStep /\ UNCHANGED captureVars
    BY <1>2, <2>1, <2>5, ProgressInStorage, TrustingStep DEF Progress
  <2>6. CASE Environment /\ UNCHANGED locals
    BY <1>2, <2>1, <2>6, ProgressInEnvironment, TrustingStep DEF Progress
  <2>7. QED
    BY <1>2, <2>2, <2>3, <2>4, <2>5, <2>6 DEF Next, Core1
<1>3. QED
  BY <1>1, <1>2

LEMMA StrongInvariance == Spec => [](Strong /\ Progress)
  BY InitStrong, InitProgress, StepStrong, StepProgress, PTL DEF Spec

-----------------------------------------------------------------------------
(* As long as the drive is not unplugged, a disk call returns with the answer
   of its own transfer: "we do blocking" (msc_app.c). *)
THEOREM BlockingWhileUndisturbed == Spec => UndisturbedIsBlocking
<1>1. ASSUME Strong, [Next]_vars
      PROVE  [Returning /\ ~disturbed => Top.answer # NoDrive]_vars
  <2> SUFFICES ASSUME Returning, ~disturbed, Top.answer = NoDrive PROVE FALSE
    OBVIOUS
  <2>1. Return
    BY <1>1, OnlyReturnReturns DEF Strong
  <2>2. xfer.kind # "io"
    BY <1>1, <2>1 DEF Strong, IInv, TransferIsAwaited, Return
  <2>3. xfer.kind = "io"
    <3>1. calls # <<>> /\ Top.waiting
      BY DEF Returning
    <3>2. QED
      BY <1>1, <3>1, Zenon DEF Strong, Settled
  <2>4. QED
    BY <2>2, <2>3
<1>2. QED
  BY StrongInvariance, <1>1, PTL DEF Spec, UndisturbedIsBlocking

(* What a call of capture changes in the directory, while FatFs works on the
   drive's sectors. *)
LEMMA OnlyNewEntries ==
  ASSUME Strong, Progress, Next, ~stale
  PROVE  \/ entries' = entries
         \/ \E e \in Entries : entries' = Put(e) /\ entries[volume][fnum] \in {"none", "cut"}
<1>1. ASSUME entries' \in Begun, calls # <<>>
      PROVE  entries' = entries \/ \E e \in Entries :
               entries' = Put(e) /\ entries[volume][fnum] \in {"none", "cut"}
  <2>1. CASE Innermost("open") /\ CreateNew /\ entries' = Put("cut")
    BY <2>1 DEF CreateNew, Entries
  <2>2. CASE Innermost("close") /\ entries' = Put("whole")
    <3>1. Len(calls) = 1
      BY <1>1, Undisturbed
    <3>2. First = "close"
      BY <2>2, <3>1 DEF Innermost, Top, First
    <3>3. Reached(First)
      BY <1>1, <3>2, Zenon DEF Progress, Reaching
    <3>4. entries[volume][fnum] = "cut"
      BY <3>2, <3>3 DEF Reached
    <3>5. QED
      BY <2>2, <3>4 DEF Entries
  <2>3. QED
    BY <1>1, <2>1, <2>2 DEF Begun
<1>2. CASE EndOpen
  BY <1>2 DEF EndOpen, Results, CreateNew, Entries
<1>3. CASE EndClose
  <2>1. Running("close") /\ "close" \in Ops
    BY <1>3 DEF EndClose, Ops
  <2>2. entries[volume][fnum] = "cut"
    BY <2>1, RunningReached DEF Reached
  <2>3. QED
    BY <1>3, <2>2 DEF EndClose, Entries
<1>4. CASE Disturbance
  <2>1. entries' = entries \/ (stale' /\ entries' \in Begun)
    BY <1>4 DEF Disturbance
  <2>2. stale' = (stale \/ calls # <<>>)
    BY <1>4 DEF Disturbance, Unplug
  <2>3. stale' => calls # <<>>
    BY <2>2, Zenon
  <2>4. QED
    BY <1>1, <2>1, <2>3
<1>5. CASE Transfer
  <2>1. entries' = entries \/ (stale' /\ entries' \in Begun)
    BY <1>5 DEF Transfer
  <2>2. stale' = stale \/ stale' = (stale \/ xfer.kind = "io")
    BY <1>5 DEF Transfer, CompleteTransfer
  <2>3. stale' => xfer.kind = "io"
    BY <2>2, Zenon
  <2>4. stale' => calls # <<>>
    BY <2>3, Zenon DEF Strong, IInv, TransferIsAwaited
  <2>5. QED
    BY <1>1, <2>1, <2>4
<1>6. CASE ~EndOpen /\ ~EndClose /\ ~Disturbance /\ ~Transfer
  BY <1>6 DEF Next, Core1, Environment, CaptureStep, capture, captureVars, EndMkdir,
              EndNumber, user_write_data, EndList
<1>7. QED
  BY <1>2, <1>3, <1>4, <1>5, <1>6

(* Whatever has become of the drives before, and whatever becomes of the call in
   progress: as long as FatFs works on the drive's sectors, no file there is
   overwritten (capture.c). *)
THEOREM ImagesAreKept == Spec => NothingOverwritten
<1>1. ASSUME Strong, Progress, [Next]_vars
      PROVE  [~stale => \A d \in Drives : \A n \in Numbers :
                entries[d][n] \in {"whole", "other"}
                  => entries'[d][n] = entries[d][n]]_vars
  <2> SUFFICES ASSUME Next, ~stale, NEW d \in Drives, NEW n \in Numbers,
                      entries[d][n] \in {"whole", "other"}
               PROVE  entries'[d][n] = entries[d][n]
    BY <1>1
  <2>1. entries \in [Drives -> [Numbers -> Entries]]
    BY <1>1 DEF Strong, IInv, Types
  <2>2. CASE entries' = entries
    BY <2>2
  <2>3. ASSUME NEW e \in Entries, entries' = Put(e),
               entries[volume][fnum] \in {"none", "cut"}
        PROVE  entries'[d][n] = entries[d][n]
    <3>1. d # volume \/ n # fnum
      BY <2>3
    <3>2. QED
      BY <2>1, <2>3, <3>1 DEF Put
  <2>4. QED
    BY <1>1, <2>2, <2>3, OnlyNewEntries
<1>2. QED
  BY StrongInvariance, <1>1, PTL DEF Spec, NothingOverwritten

(* Only capture itself ends a capture; on the drive's sectors, and if there is
   room, only when all is done. *)
LEMMA OnlyListEnds ==
  ASSUME Strong, Progress, [Next]_vars, calls # <<>>, Top.op # "mount",
         calls' = <<>>, ~stale, room
  PROVE  EndList
<1>1. /\ calls \in Seq(Calls) /\ Len(calls) \in Nat /\ Len(calls) >= 1
      /\ Top \in Calls
  BY StackTop DEF Strong, IInv, Types
<1>2. \A op : calls' # <<Begin(op)>>
  OBVIOUS
<1>3. CASE EndMkdir \/ EndNumber
  <2>1. /\ Running("mkdir") \/ Running("number")
        /\ {"mkdir", "number"} \subseteq Ops
    BY <1>3 DEF EndMkdir, EndNumber, Ops
  <2>2. Registered
    BY <2>1, RunningReached, StorageAssumption DEF Registered
  <2>3. \E op \in {"number", "open"} : calls' = <<Begin(op)>>
    BY <1>3, <2>2 DEF EndMkdir, EndNumber, Results, Creating, Go
  <2>4. QED
    BY <1>2, <2>3
<1>4. CASE EndOpen \/ user_write_data \/ EndClose
  <2>1. /\ Running("open") \/ Running("write") \/ Running("close")
        /\ {"open", "write", "close"} \subseteq Ops
    BY <1>4 DEF EndOpen, user_write_data, EndClose, Ops
  <2>2. Registered
    BY <2>1, RunningReached, StorageAssumption DEF Registered
  <2>3. \E op : calls' = <<Begin(op)>>
    BY <1>4, <2>2 DEF EndOpen, user_write_data, EndClose, GoList, GoOn, Go
  <2>4. QED
    BY <1>2, <2>3
<1>5. CASE capture \/ Environment \/ UNCHANGED vars
  BY <1>5 DEF capture, Environment, Disturbance, Transfer, Plug, Unplug,
              CompleteTransfer, vars, storageVars
<1>6. CASE StorageStep
  <2>1. CASE DiskIO \/ Return
    <3>1. Len(calls') = Len(calls)
      <4>1. \E c : calls' = SetTop(c)
        BY <2>1 DEF DiskIO, CallDisk, Return
      <4>2. QED
        BY <1>1, <4>1 DEF SetTop
    <3>2. QED
      BY <1>1, <3>1
  <2>2. CASE tuh_task
    <3>1. CASE disk_io_complete
      <4>1. Len(calls') = Len(calls)
        BY <1>1, <3>1 DEF disk_io_complete
      <4>2. QED
        BY <1>1, <4>1
    <3>2. CASE inquiry_complete_cb
      <4>1. calls' = Append(calls, Begin("mount"))
        BY <3>2 DEF inquiry_complete_cb
      <4>2. Len(calls') = Len(calls) + 1
        BY <1>1, <4>1, StorageAssumption DEF Begin
      <4>3. QED
        BY <1>1, <4>2
    <3>3. CASE ~disk_io_complete /\ ~inquiry_complete_cb
      BY <2>2, <3>3 DEF tuh_task, NotEnumerated, tuh_msc_mount_cb,
                        tuh_msc_umount_cb, InquiryFailed
    <3>4. QED
      BY <3>1, <3>2, <3>3
  <2>3. CASE EndMount
    BY <2>3 DEF EndMount, Running
  <2>4. QED
    BY <1>6, <2>1, <2>2, <2>3 DEF StorageStep
<1>7. QED
  BY <1>3, <1>4, <1>5, <1>6 DEF Next, Core1, CaptureStep

(* A capture to a drive that stays where it is, carries out every transfer and
   has room leaves its image there, under the highest number; or libpng has
   given up, or the name is taken (capture.c). *)
THEOREM ImageIsLeft == Spec => CaptureLeavesImage
<1>1. ASSUME Strong, Progress, [Next]_vars
      PROVE  [Len(calls) = 1 /\ Top.op # "mount" /\ calls' = <<>>
                /\ ~stale /\ room /\ ~gave_up =>
                /\ made \/ entries[volume][fnum] = "other"
                /\ \A n \in Counted(volume) : n <= fnum]_vars
  <2> SUFFICES ASSUME Len(calls) = 1, Top.op # "mount", calls' = <<>>,
                      ~stale, room, ~gave_up
               PROVE  /\ made \/ entries[volume][fnum] = "other"
                      /\ \A n \in Counted(volume) : n <= fnum
    OBVIOUS
  <2>0. calls # <<>>
    OBVIOUS
  <2>1. EndList
    BY <1>1, <2>0, OnlyListEnds
  <2>2. Running("ls") /\ "ls" \in Ops
    BY <2>1 DEF EndList, Ops
  <2>3. Reached("ls")
    BY <1>1, <2>2, RunningReached
  <2>4. QED
    BY <2>3 DEF Reached, Highest
<1>2. QED
  BY StrongInvariance, <1>1, PTL DEF Spec, CaptureLeavesImage
=============================================================================
