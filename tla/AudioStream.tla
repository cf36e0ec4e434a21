----------------------------- MODULE AudioStream -----------------------------
(***************************************************************************)
(* The class AudioStream (oboe/AudioStream.h, common/AudioStream.cpp):     *)
(* what the streams of the two APIs share.  An app with a data callback    *)
(* makes requests from one thread; the API calls it from another.  mLock   *)
(* is held for longer than a step only by close and, in OpenSL ES, by a    *)
(* start that calls the app; other users of it take one step.              *)
(***************************************************************************)
EXTENDS Naturals

VARIABLES app,      \* what the thread of the app does in the library
          closing,  \* how far the call of close has come that found the stream open
          callback, \* what the thread of the data callback does
          enabled,  \* mDataCallbackEnabled
          gone      \* the stream of the API is destroyed

base == <<app, closing, callback, enabled, gone>>

StreamStates ==
  {"Uninitialized", "Unknown", "Open", "Starting", "Started", "Pausing", "Paused",
   "Flushing", "Flushed", "Stopping", "Stopped", "Closing", "Closed", "Disconnected"}

DataCallbackResult == {"Continue", "Stop"}

BaseInit ==
  /\ app = "idle" /\ closing = "no" /\ callback = "idle"
  /\ enabled = FALSE
  /\ gone = FALSE

LockFree == closing = "no"

(* fireDataCallback: a stream whose callback is disabled answers Stop      *)
(* without asking the app ...                                              *)
Refused == ~enabled

(* ... and what the app answers decides whether it is asked again.         *)
SetEnabled(result) == enabled' = (result = "Continue")

(* waitForStateTransition, after a request: the app waits for a state to   *)
(* come, to be passed over, or for its patience to end.                    *)
StartsWaiting(ending) == app' \in {"idle", ending}
Waits == app \in {"Started", "Paused", "Flushed", "Stopped"}
=============================================================================
