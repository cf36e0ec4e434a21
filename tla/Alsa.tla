-------------------------------- MODULE Alsa --------------------------------
(***************************************************************************)
(* The ALSA driver (audio/driver_unix.go): a goroutine opens the device,   *)
(* another one mixes a period of frames and writes it, as often as it      *)
(* takes.  A block is a frame.  Suspend and Resume cannot be called: the   *)
(* context they belong to is not given out.                                *)
(***************************************************************************)
EXTENDS Rendering

CONSTANTS Period,   \* frames of buf32
          Capacity  \* frames the device holds

VARIABLE rest       \* the part of buf32 that is still to be written

own == <<rest>>
vars == <<shared, own>>

OwnInit == rest = <<>>

Waiting == device \o rest
Bound == Capacity + Period

-----------------------------------------------------------------------------
(* The channel is closed whether or not a device was found and took the    *)
(* parameters.                                                             *)
Open ==
  /\ thread = "start"
  /\ \/ Works /\ thread' = "read" /\ UNCHANGED err
     \/ Fails /\ Aborts
  /\ ready' = ready + 1
  /\ UNCHANGED <<next, device, own>>

Read ==
  /\ thread = "read"
  /\ ~err
  /\ rest' = Blocks(Period)
  /\ Reads(Period)
  /\ thread' = "write"
  /\ UNCHANGED <<device, err, ready, failures>>

(* writei took k frames of the rest.                                       *)
Write(k) ==
  /\ thread = "write"
  /\ Len(device) + k =< Capacity
  /\ device' = device \o Taken(rest, k)
  /\ rest' = Dropped(rest, k)
  /\ thread' = IF rest' = <<>> THEN "read" ELSE "write"
  /\ UNCHANGED <<next, err, ready, failures>>

(* writei failed and recover succeeded: 0 frames were written.             *)
Recover ==
  /\ thread = "write"
  /\ Fails
  /\ device' \in {device, <<>>}
  /\ UNCHANGED <<next, thread, err, ready, rest>>

GiveUp ==
  /\ thread = "write"
  /\ Fails
  /\ Aborts
  /\ device' = <<>>
  /\ rest' = <<>>
  /\ UNCHANGED <<next, ready>>

Thread == Open \/ Read \/ (\E k \in 1 .. Len(rest) : Write(k)) \/ Recover \/ GiveUp

Device ==
  /\ device # <<>>
  /\ device' = Tail(device)
  /\ UNCHANGED <<next, thread, err, ready, failures, own>>
=============================================================================
