------------------------------- MODULE Stabilized -------------------------------
(***************************************************************************)
(* StabilizedCallback: a callback that is kept busy for the same part of   *)
(* its period whatever the app does in it.  Time is counted from the start *)
(* of the stream, frames by the time they last, Period for each callback.  *)
(* A step of the load is short against all this and takes no time.         *)
(***************************************************************************)
EXTENDS Integers

CONSTANTS Period,    \* the frames of one callback, numFramesAsNanos
          PartToUse, \* kPercentageOfCallbackToUse of a period
          Jitter,    \* a device calls at most so late
          Works,     \* what the app may take
          Breaks,    \* the stream may stand still for so long
          MaxCalls   \* the bound on callbacks

VARIABLES frameCount, epoch,  \* mFrameCount, mEpochTimeNanos
          now,
          due, slot,          \* when the device is to call next, and was to call last
          deadline,           \* of the load of the callback
          doing, calls

vars == <<frameCount, epoch, now, due, slot, deadline, doing, calls>>

Init ==
  /\ frameCount = 0 /\ epoch = 0
  /\ now = 0 /\ due = 0 /\ slot = 0 /\ deadline = 0
  /\ doing = "idle" /\ calls = 0

Larger(a, b) == IF a >= b THEN a ELSE b

-----------------------------------------------------------------------------
LateStart(start, count, from) == start - from - count

(* Variant of NewEpoch: the frames go on counting from the old one. *)
NewEpochOnly(start) == epoch' = start /\ frameCount' = frameCount

(* An early start: the epoch was a late callback.                          *)
NewEpoch(start) == epoch' = start /\ frameCount' = 0

(* onAudioReady, up to the call of the app.                                *)
Call ==
  /\ doing = "idle" /\ calls < MaxCalls
  /\ \E late \in 0..Jitter :
       LET start == Larger(now, due + late)
           from == IF frameCount = 0 THEN start ELSE epoch
           lateStart == LateStart(start, frameCount, from)
       IN  /\ now' = start
           /\ IF lateStart < 0 THEN NewEpoch(start) ELSE epoch' = from /\ UNCHANGED frameCount
           /\ deadline' = start + PartToUse - lateStart
  /\ slot' = due /\ due' = due + Period
  /\ doing' = "app" /\ calls' = calls + 1

AppReturns ==
  /\ doing = "app"
  /\ \E work \in Works : now' = now + work
  /\ doing' = "load"
  /\ UNCHANGED <<frameCount, epoch, due, slot, deadline, calls>>

(* generateLoad, until the deadline if that is still to come.              *)
GenerateLoad ==
  /\ doing = "load"
  /\ now' = Larger(now, deadline)
  /\ frameCount' = frameCount + Period
  /\ doing' = "idle"
  /\ UNCHANGED <<epoch, due, slot, deadline, calls>>

(* The stream stands still: it was paused, or the device had no data.      *)
StandStill ==
  /\ doing = "idle" /\ calls \in 1 .. MaxCalls - 1
  /\ due = slot + Period   \* once between two callbacks
  /\ \E break \in Breaks : due' = Larger(due, now) + break
  /\ UNCHANGED <<frameCount, epoch, now, slot, deadline, doing, calls>>

(* onErrorAfterClose; the next stream has the callback from its start.     *)
OnErrorAfterClose ==
  /\ doing = "idle" /\ calls \in 1 .. MaxCalls - 1
  /\ frameCount > 0
  /\ frameCount' = 0 /\ epoch' = 0
  /\ due' = Larger(due, now)
  /\ UNCHANGED <<now, slot, deadline, doing, calls>>

Next == Call \/ AppReturns \/ GenerateLoad \/ StandStill \/ OnErrorAfterClose

-----------------------------------------------------------------------------
(* The load keeps no callback beyond its part of the period, counted from  *)
(* the latest the device may have called: whatever the first callbacks,    *)
(* from which the epoch was taken, were late by, and however long the      *)
(* stream stood still.  Only the app itself can take longer.               *)
LoadLeavesTime == doing = "load" => deadline =< slot + Jitter + PartToUse
=============================================================================
