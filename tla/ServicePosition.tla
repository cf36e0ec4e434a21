--------------------------- MODULE ServicePosition ---------------------------
(***************************************************************************)
(* How a stream of OpenSL ES without a FIFO knows what the device has      *)
(* played or recorded: the service has a 32-bit position, and a            *)
(* MonotonicCounter makes 64 bits of it.  One unit is a millisecond, and   *)
(* 32 bits have Width values.                                              *)
(***************************************************************************)
EXTENDS Integers

CONSTANTS Width,    \* even; 2^32 in the code
          QueueSize, \* milliseconds in the service's queue
          MaxMillis, \* the bound on what is played or recorded
          MaxLooks   \* the bound on stops, pauses and flushes

VARIABLES direction, play,  \* play: of the service, "stopped", "playing" or "paused"
          position,         \* of the service, since the last stop
          counter64, counter32, \* mPositionMillis
          frames,           \* mFramesRead of an output, mFramesWritten of an input
          queued, passed,   \* an output's data: in the queue; played, or given up by a stop
          flushed,          \* written, and flushed since the last stop
          unseen,           \* milliseconds since the last look
          paused, restarted, changes

counter == <<counter64, counter32>>
vars == <<direction, play, position, counter, frames, queued, passed, flushed, unseen, paused, restarted, changes>>

Half == Width \div 2
(* A difference of two int32_t.                                            *)
Signed(n) == ((n + Half) % Width) - Half

Init ==
  /\ direction \in {"output", "input"}
  /\ play = "stopped" /\ position = 0
  /\ counter64 = 0 /\ counter32 = 0 /\ frames = 0
  /\ queued = 0 /\ passed = 0 /\ flushed = 0 /\ unseen = 0
  /\ paused = FALSE /\ restarted = FALSE /\ changes = 0

(* requestStart fills a queue that is empty.                               *)
Started ==
  /\ play # "playing" /\ changes < MaxLooks
  /\ play' = "playing"
  /\ queued' = IF direction = "output" /\ queued = 0 THEN QueueSize ELSE queued
  /\ changes' = changes + 1
  /\ UNCHANGED <<direction, position, counter, frames, passed, flushed, unseen, paused, restarted>>

(* The device goes on, and the callback fills the queue again.  The        *)
(* counter must be looked at "in less than half" its width.                *)
Plays ==
  /\ play = "playing" /\ passed < MaxMillis /\ unseen < Half - 1
  /\ direction = "output" => queued > 0
  /\ position' = (position + 1) % Width
  /\ passed' = passed + 1 /\ unseen' = unseen + 1
  /\ queued' \in (IF direction = "output" THEN {queued - 1, QueueSize} ELSE {0})
  /\ UNCHANGED <<direction, play, counter, frames, flushed, paused, restarted, changes>>

-----------------------------------------------------------------------------
(* getFramesRead, getFramesWritten: updateServiceFrameCounter may find     *)
(* mLock taken, and then the counter stays.                                *)
Update32 ==
  LET delta == Signed(position - counter32)
  IN IF delta > 0 THEN counter64' = counter64 + delta /\ counter32' = position
                  ELSE UNCHANGED counter

Look ==
  /\ Update32
  /\ frames' = counter64'
  /\ unseen' = 0
  /\ UNCHANGED <<direction, play, position, queued, passed, flushed, paused, restarted, changes>>

LookWhileLocked ==
  /\ frames' = counter64
  /\ UNCHANGED <<direction, play, position, counter, queued, passed, flushed, unseen, paused, restarted, changes>>

(* requestFlush_l: what was written stays counted as written.              *)
Flush ==
  /\ direction = "output" /\ queued > 0 /\ changes < MaxLooks
  /\ queued' = 0 /\ flushed' = flushed + queued /\ changes' = changes + 1
  /\ UNCHANGED <<direction, play, position, counter, frames, passed, unseen, paused, restarted>>

(* getFramesWritten, which setFramesRead makes the frames read.            *)
Written == passed + queued + flushed

(* requestPause_l: the service keeps its position.                         *)
Pause ==
  /\ direction = "output" /\ play = "playing" /\ changes < MaxLooks
  /\ play' = "paused" /\ paused' = TRUE
  /\ counter64' = Written /\ UNCHANGED counter32
  /\ changes' = changes + 1
  /\ UNCHANGED <<direction, position, frames, queued, passed, flushed, unseen, restarted>>

(* Variant of StopCounter: the 32-bit counter is not reset. *)
StopCounterOnly == UNCHANGED counter32

(* "OpenSL ES resets its millisecond position when stopped": so reset32.   *)
StopCounter == counter32' = 0

(* requestStop_l: an output has its queue cleared, and counts all that was *)
(* written as read.                                                        *)
Stop ==
  /\ play # "stopped" /\ changes < MaxLooks
  /\ play' = "stopped" /\ position' = 0
  /\ StopCounter
  /\ IF direction = "output"
       THEN /\ counter64' = Written /\ passed' = Written
            /\ queued' = 0 /\ flushed' = 0
       ELSE UNCHANGED <<counter64, passed, queued, flushed>>
  /\ unseen' = 0 /\ restarted' = TRUE /\ changes' = changes + 1
  /\ UNCHANGED <<direction, frames, paused>>

Next == Started \/ Plays \/ Look \/ LookWhileLocked \/ Flush \/ Pause \/ Stop
Spec == Init /\ [][Next]_vars

-----------------------------------------------------------------------------
(* Properties.                                                             *)

(* An output that was never paused counts as read, at every look, what the *)
(* device has played, and what the stops so far found written and not      *)
(* played, queued or flushed: over stops, flushes and restarts, whenever   *)
(* 32 bits wrap, and so never more than was written.  An input never       *)
(* counts more than was recorded, and exactly that until it is stopped for *)
(* the first time.                                                         *)
ReadFollowsPlay ==
  ~paused /\ unseen = 0 =>
    /\ counter64 =< passed
    /\ direction = "output" \/ ~restarted => counter64 = passed

(* "This monotonic counter will never get reset": the frames read of a     *)
(* stream never become less.                                               *)
FramesNeverGoBack == [][frames' >= frames]_vars
=============================================================================
