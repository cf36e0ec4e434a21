----------------------------- MODULE Rendering -----------------------------
(***************************************************************************)
(* What all drivers have in common: a thread that takes samples from the   *)
(* mixer (mux.ReadFloat32s) and brings them to a device.  The samples are  *)
(* seen as blocks, numbered in the order they are mixed; what matters is   *)
(* which blocks a driver still holds, and in which order they are heard.   *)
(*                                                                         *)
(* Devices fail, each time they are used, at most MaxFailures times in a   *)
(* behaviour.                                                              *)
(***************************************************************************)
EXTENDS Integers, Sequences

CONSTANTS Ids,          \* bound: blocks are numbered modulo Ids
          MaxFailures   \* bound on the failures of devices

ASSUME IdsAssumption == Ids \in Nat \ {0}
ASSUME MaxFailuresAssumption == MaxFailures \in Nat

VARIABLES next,     \* the number of the block that is mixed next
          device,   \* what the device holds: blocks, or buffers of the driver
          thread,   \* what the driver's thread does next
          err,      \* an error has been stored (atomic_error.go)
          ready,    \* how often the ready channel of InitContext was closed
          failures  \* failures of the device so far

shared == <<next, device, thread, err, ready, failures>>

SharedInit ==
  /\ next = 0
  /\ device = <<>>
  /\ thread = "off"
  /\ err = FALSE
  /\ ready = 0
  /\ failures = 0

(* The next k blocks, as ReadFloat32s returns them.                        *)
Blocks(k) == [i \in 1 .. k |-> (next + i - 1) % Ids]
Reads(k) == next' = (next + k) % Ids

Works == UNCHANGED failures
Fails == failures < MaxFailures /\ failures' = failures + 1

Dropped(s, k) == SubSeq(s, k + 1, Len(s))
Taken(s, k) == SubSeq(s, 1, k)

(* The error that ends a driver: it is stored and its thread returns.      *)
Aborts == err' = TRUE /\ thread' = "done"
=============================================================================
