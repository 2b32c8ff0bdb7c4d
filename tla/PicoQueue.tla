----------------------------- MODULE PicoQueue ------------------------------
(***************************************************************************)
(* The queue of pico/util/queue.h as this firmware uses it: every access   *)
(* runs under a spin lock with interrupts off, so it is one step, and the  *)
(* firmware never looks at the result of queue_try_add.                    *)
(***************************************************************************)
EXTENDS Integers, Sequences

(* queue_try_add: an element that finds the queue full is dropped. *)
TryAdd(queue, capacity, element) ==
  IF Len(queue) < capacity THEN Append(queue, element) ELSE queue
=============================================================================
