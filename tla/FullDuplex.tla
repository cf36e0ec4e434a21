------------------------------ MODULE FullDuplex ------------------------------
(***************************************************************************)
(* FullDuplexStream: the callback of an output stream reads from an input  *)
(* stream, and brings the two into step before it calls the app.  One unit *)
(* is a burst, and a callback is for one burst.                            *)
(***************************************************************************)
EXTENDS Naturals

CONSTANTS CallbacksToDrain,   \* kNumCallbacksToDrain
          CallbacksToDiscard, \* kNumCallbacksToDiscard
          Cushions,           \* values of mNumInputBurstsCushion
          Minimums,           \* values of mMinimumFramesBeforeRead
          InputCapacity,      \* what the input stream can hold
          Jitter,             \* how far a device may be ahead of the other
          MaxStarts           \* the bound on starts

VARIABLES cushion, minimum,   \* as set by the app
          drain, fill, discard, \* mCountCallbacksToDrain, mCountInputBurstsCushion, mCountCallbacksToDiscard
          input, output,      \* the streams: "stopped" or "started"
          available,          \* bursts in the input stream
          old,                \* those of them from before the last start
          ahead,              \* bursts of the input more than callbacks, and Jitter
          heard,              \* what the app was given last: "nothing", "fresh" or "old"
          called,             \* the app is called since the start
          starts

counts == <<drain, fill, discard>>
streams == <<input, output, available, old, ahead>>
vars == <<cushion, minimum, counts, streams, heard, called, starts>>

Init ==
  /\ cushion \in Cushions /\ minimum \in Minimums
  /\ drain = CallbacksToDrain /\ fill = cushion /\ discard = CallbacksToDiscard
  /\ input = "stopped" /\ output = "stopped"
  /\ available = 0 /\ old = 0 /\ ahead = Jitter
  /\ heard = "nothing" /\ called = FALSE
  /\ starts = 0

Smaller(a, b) == IF a =< b THEN a ELSE b

-----------------------------------------------------------------------------
(* start.  An input that is running may refuse to be started, and then the *)
(* output is not.                                                          *)
Start ==
  /\ output = "stopped" /\ starts < MaxStarts   \* the bound
  /\ starts' = starts + 1
  /\ drain' = CallbacksToDrain /\ fill' = cushion /\ discard' = CallbacksToDiscard
  /\ old' = available
  /\ heard' = "nothing" /\ called' = FALSE
  /\ input' = "started"
  /\ output' \in (IF input = "started" THEN {"stopped", "started"} ELSE {"started"})
  /\ ahead' = Jitter
  /\ UNCHANGED <<cushion, minimum, available>>

(* stop asks the output twice, and the input never, although it says that  *)
(* it "Stops both streams": the input goes on until the next start.        *)
Stop ==
  /\ output = "started"
  /\ output' = "stopped"
  /\ UNCHANGED <<cushion, minimum, counts, input, available, old, ahead, heard, called, starts>>

(* The input brings a burst, for which there may be no room.               *)
InputBrings ==
  /\ input = "started"
  /\ output = "started" => ahead < 2 * Jitter
  /\ available' = Smaller(available + 1, InputCapacity)
  /\ ahead' = IF output = "started" THEN ahead + 1 ELSE ahead
  /\ UNCHANGED <<cushion, minimum, counts, input, output, old, heard, called, starts>>

-----------------------------------------------------------------------------
(* onAudioReady.  The output does not get ahead of the input by more than  *)
(* the jitter, once the input is running.                                  *)
Ready == output = "started" /\ ahead > 0

Reads(n) ==
  /\ available' = available - Smaller(n, available)
  /\ old' = old - Smaller(n, old)

ReadsNothing == UNCHANGED <<available, old>>

(* Variant of DrainAll: one read for a callback. *)
DrainOne == Reads(1)

(* Reads until the input has no more.                                      *)
DrainAll == Reads(available)

(* The input may have no data yet, or an error for who reads it.           *)
DrainCallback ==
  /\ Ready /\ drain > 0
  /\ \/ available > 0 /\ DrainAll /\ drain' = drain - 1 /\ ahead' = ahead - 1
     \/ available = 0 /\ ReadsNothing /\ UNCHANGED <<drain, ahead>>
  /\ UNCHANGED <<cushion, minimum, fill, discard, input, output, heard, called, starts>>

FillCallback ==
  /\ Ready /\ drain = 0 /\ fill > 0
  /\ fill' = fill - 1 /\ ahead' = ahead - 1
  /\ UNCHANGED <<cushion, minimum, drain, discard, input, output, available, old, heard, called, starts>>

ReadsOne == IF available >= minimum THEN Reads(1) ELSE ReadsNothing

(* Variant of DiscardCallback: the input is left alone. *)
DiscardNothing ==
  /\ Ready /\ drain = 0 /\ fill = 0 /\ discard > 0
  /\ discard' = discard - 1 /\ ahead' = ahead - 1
  /\ UNCHANGED <<cushion, minimum, drain, fill, input, output, available, old, heard, called, starts>>

(* An input that fails stops both streams, without the app being called.   *)
DiscardCallback ==
  /\ Ready /\ drain = 0 /\ fill = 0 /\ discard > 0
  /\ discard' = discard - 1 /\ ahead' = ahead - 1
  /\ \/ ReadsOne /\ UNCHANGED <<input, output>>
     \/ ReadsNothing /\ input' = "stopped" /\ output' = "stopped"
  /\ UNCHANGED <<cushion, minimum, drain, fill, heard, called, starts>>

(* onBothStreamsReady; who answers Stop has both streams stopped.          *)
AppCallback ==
  /\ Ready /\ drain = 0 /\ fill = 0 /\ discard = 0
  /\ ahead' = ahead - 1
  /\ \/ /\ ReadsOne
        /\ heard' = IF available' = available THEN "nothing" ELSE IF old > 0 THEN "old" ELSE "fresh"
        /\ called' = TRUE
        /\ \/ UNCHANGED <<input, output>>
           \/ input' = "stopped" /\ output' = "stopped"
     \/ ReadsNothing /\ input' = "stopped" /\ output' = "stopped" /\ UNCHANGED <<heard, called>>
  /\ UNCHANGED <<cushion, minimum, counts, starts>>

OnAudioReady == DrainCallback \/ FillCallback \/ DiscardCallback \/ AppCallback

Next == Start \/ Stop \/ InputBrings \/ OnAudioReady
Spec == Init /\ [][Next]_vars

-----------------------------------------------------------------------------
(* Properties.                                                             *)

(* What the app hears was recorded after it started the streams, whatever  *)
(* the input held from before.                                             *)
NothingOldHeard == heard # "old"

(* "We want to reach a state where the input buffer is empty": while the   *)
(* app is called, the input holds no more than what the app wants there    *)
(* and the devices make unavoidable, so that no latency builds up.         *)
Equilibrium ==
  called /\ output = "started" => available =< cushion + minimum + 2 * Jitter
=============================================================================
