--------------------------- MODULE StreamPromise ---------------------------
(***************************************************************************)
(* What a stream of Oboe promises its app, whichever API carries it: the   *)
(* documentation of AudioStream, AudioStreamDataCallback and               *)
(* AudioStreamErrorCallback as one state machine.  AAudioStream and        *)
(* OpenSLStream implement it.                                              *)
(***************************************************************************)
EXTENDS Naturals

CONSTANT StreamStates   \* enum StreamState

VARIABLES state,    \* getState()
          enabled,  \* the app has started the stream and not returned Stop since
          calling,  \* the calls of onAudioReady that are running
          gone,     \* the call of close that destroyed the stream is over
          told,     \* the last error callback called
          joins     \* the API waits for its callbacks when it destroys the stream

vars == <<state, enabled, calling, gone, told, joins>>

Init ==
  /\ state \in {"Uninitialized", "Open"}
  /\ enabled = FALSE /\ calling = 0 /\ gone = FALSE
  /\ told = "nothing" /\ joins \in BOOLEAN

(* Requests, and what the device makes of them.  A closed stream stays     *)
(* closed; a disconnected one can only be closed.                          *)
Move ==
  /\ state # "Closed"
  /\ state' \in StreamStates \ {"Uninitialized", "Unknown", state}
  /\ state = "Disconnected" => state' \in {"Closing", "Closed"}
  /\ UNCHANGED <<enabled, calling, gone, told, joins>>

Start ==
  /\ state # "Closed"
  /\ enabled' = TRUE
  /\ state' \in StreamStates \ {"Uninitialized", "Unknown", "Closed"}
  /\ state = "Disconnected" => state' = state
  /\ UNCHANGED <<calling, gone, told, joins>>

(* The app is called only while it wants to be, and by a stream that is    *)
(* gone only if the API did not wait: "a callback can occur shortly after  *)
(* a stream has been stopped and even after a close".  Beside the call of  *)
(* the API there may be one of a start, which wants the first buffer.      *)
Call ==
  /\ enabled /\ calling < 2
  /\ joins => ~gone
  /\ calling' = calling + 1
  /\ UNCHANGED <<state, enabled, gone, told, joins>>

(* It goes on or stops; the stream may stop with it.                       *)
Return ==
  /\ calling > 0
  /\ calling' = calling - 1
  /\ enabled' \in BOOLEAN
  /\ \/ state' = state
     \/ state \notin {"Closed", "Disconnected"} /\ state' \in StreamStates \ {"Closed"}
  /\ UNCHANGED <<gone, told, joins>>

(* Once it is gone nothing of the app is running in it, where the API      *)
(* waits for that.                                                         *)
Go ==
  /\ state = "Closed" /\ ~gone
  /\ joins => calling = 0
  /\ gone' = TRUE
  /\ UNCHANGED <<state, enabled, calling, told, joins>>

(* An error is told once: the app handles it, or is called before and      *)
(* after the stream is closed.                                             *)
Tell ==
  /\ \/ told = "nothing" /\ told' = "onError"
     \/ told = "onError" /\ told' \in {"handled", "onErrorBeforeClose"}
     \/ told = "onErrorBeforeClose" /\ gone /\ told' = "onErrorAfterClose"
  /\ UNCHANGED <<state, enabled, calling, gone, joins>>

Next == Move \/ Start \/ Call \/ Return \/ Go \/ Tell
Spec == Init /\ [][Next]_vars
=============================================================================
