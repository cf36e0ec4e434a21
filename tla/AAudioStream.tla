----------------------------- MODULE AAudioStream -----------------------------
(***************************************************************************)
(* AudioStreamAAudio (aaudio/AudioStreamAAudio.cpp) from the time it is    *)
(* open: requests of the app, the data callback, the thread that deals     *)
(* with an error, the threads that stop a stream for its callback, and a   *)
(* thread that uses the stream under the shared lock.                      *)
(***************************************************************************)
EXTENDS AudioStream

CONSTANTS Sdks,        \* the versions of Android to look at
          MaxStoppers, \* the most threads that are about to stop the stream
          MaxNotices   \* the most errors AAudio reports

CONSTANTS O_MR1, R     \* __ANDROID_API_*__

VARIABLES sdk,         \* getSdkVersion()
          joins,       \* close of this AAudio waits for its callbacks, and makes no more
          native,      \* the state of the stream in AAudio
          pointer,     \* mAAudioStream is not null
          closer,      \* the thread in close
          stopAllowed, \* mStopThreadAllowed
          stoppers,    \* threads that have still to call requestStop
          user,        \* what a thread that uses the stream does: a blocking read or write
          error,       \* what the thread launched by internalErrorCallback does
          told,        \* mErrorCallbackCalled, and the callbacks of the app called
          notices      \* errors AAudio has reported

own == <<sdk, joins, native, pointer, closer, stopAllowed, stoppers, user, error, told, notices>>
vars == <<base, own>>

OwnInit ==
  /\ sdk \in Sdks /\ joins \in BOOLEAN
  /\ native = "Open"
  /\ pointer = TRUE
  /\ closer = "none"
  /\ stopAllowed = FALSE /\ stoppers = 0
  /\ user = "idle"
  /\ error = "none" /\ told = "nothing" /\ notices = 0

-----------------------------------------------------------------------------
(* AAudio itself: what a request makes of the state of a stream.           *)
Live == ~gone
Running == native \in {"Starting", "Started", "Pausing", "Stopping"}

Requested(request) ==
  CASE request = "start" /\ native \in {"Open", "Paused", "Flushed", "Stopped"} -> "Starting"
    [] request = "pause" /\ native \in {"Starting", "Started"} -> "Pausing"
    [] request = "flush" /\ native \in {"Open", "Paused", "Stopped"} -> "Flushing"
    [] request = "stop" /\ native \in {"Open", "Starting", "Started", "Pausing", "Paused", "Flushing", "Flushed"}
         -> "Stopping"
    [] OTHER -> native

(* The service carries a request out.                                      *)
Settle ==
  /\ Live
  /\ \/ native = "Starting" /\ native' = "Started"
     \/ native = "Pausing" /\ native' = "Paused"
     \/ native = "Flushing" /\ native' = "Flushed"
     \/ native = "Stopping" /\ native' = "Stopped"
  /\ UNCHANGED <<base, sdk, joins, pointer, closer, stopAllowed, stoppers, user, error, told, notices>>

Disconnect ==
  /\ Live /\ native \notin {"Closing", "Disconnected"}
  /\ native' = "Disconnected"
  /\ UNCHANGED <<base, sdk, joins, pointer, closer, stopAllowed, stoppers, user, error, told, notices>>

-----------------------------------------------------------------------------
(* getState: Starting is shown as Started.                                 *)
State ==
  IF ~pointer THEN "Closed"
  ELSE IF native = "Starting" THEN "Started" ELSE native

(* Up to O_MR1 a request for what is already so, or on its way, is         *)
(* answered without AAudio.                                                *)
Already(request) ==
  /\ sdk =< O_MR1
  /\ CASE request = "start" -> native \in {"Starting", "Started"}
       [] request = "pause" -> native \in {"Pausing", "Paused"}
       [] request = "flush" -> native \in {"Flushing", "Flushed"}
       [] request = "stop"  -> native \in {"Stopping", "Stopped"}

After(request) == IF Already(request) THEN native ELSE Requested(request)

(* Variant of AllowStopThread: the thread of the first start is the last. *)
StopThreadOnce == stopAllowed' = (stopAllowed \/ native = "Open")

AllowStopThread == stopAllowed' = TRUE

RequestStart ==
  /\ app = "idle" /\ LockFree /\ pointer
  /\ stoppers < MaxStoppers   \* the bound
  /\ native' = After("start")
  /\ IF Already("start")
       THEN UNCHANGED <<enabled, stopAllowed>>
       ELSE enabled' = TRUE /\ AllowStopThread
  /\ StartsWaiting("Started")
  /\ UNCHANGED <<closing, callback, gone, sdk, joins, pointer, closer, stoppers, user, error, told, notices>>

Asks(request, ending) ==
  /\ native' = After(request)
  /\ StartsWaiting(ending)
  /\ UNCHANGED <<closing, callback, enabled, gone, sdk, joins, pointer, closer, stopAllowed, stoppers, user, error, told, notices>>

RequestPause == app = "idle" /\ LockFree /\ pointer /\ Asks("pause", "Paused")
RequestFlush == app = "idle" /\ LockFree /\ pointer /\ Asks("flush", "Flushed")
RequestStop == app = "idle" /\ LockFree /\ pointer /\ Asks("stop", "Stopped")

(* waitForStateChange polls under the lock and sleeps without it; it ends  *)
(* when the state has changed, the stream is closed or the time is over.   *)
WaitForStateChange ==
  /\ Waits /\ LockFree
  /\ app' = "idle"
  /\ UNCHANGED <<closing, callback, enabled, gone, own>>

(* release: from R + 1 on; the stream stops and AAudio lets go of the      *)
(* device.                                                                 *)
Release ==
  /\ app = "idle" /\ LockFree /\ pointer /\ sdk > R
  /\ joins => callback = "idle"
  /\ native' = "Closing"
  /\ UNCHANGED <<base, sdk, joins, pointer, closer, stopAllowed, stoppers, user, error, told, notices>>

-----------------------------------------------------------------------------
(* close, in the thread t: under mLock the pointer is taken once all those *)
(* under the shared lock have let go of it; then, with only mLock held,    *)
(* the stream is stopped and AAudio closes it, for which it waits for its  *)
(* callbacks or does not.  Who finds no pointer has nothing to do.         *)
BeginsClose(t) ==
  /\ LockFree
  /\ closing' = IF pointer THEN "exchange" ELSE "no"
  /\ closer' = IF pointer THEN t ELSE "none"

Close ==
  /\ app = "idle"
  /\ BeginsClose("app")
  /\ app' = IF pointer THEN "close" ELSE "idle"
  /\ UNCHANGED <<callback, enabled, gone, sdk, joins, native, pointer, stopAllowed, stoppers, user, error, told, notices>>

(* Variant of MayShare: the exclusive lock is kept until the stream is closed. *)
MayShareUnlessClosing == closing = "no"

(* Who waits for the exclusive lock keeps others from taking the shared    *)
(* one, and has it only for the exchange.                                  *)
MayShare == closing # "exchange"

(* Variant of NobodyReads: the pointer is taken whoever uses it. *)
ReadOrNot == TRUE

NobodyReads == user = "idle"

Exchange ==
  /\ closing = "exchange" /\ NobodyReads
  /\ pointer' = FALSE
  /\ closing' = "join"
  /\ native' = After("stop")
  /\ UNCHANGED <<app, callback, enabled, gone, sdk, joins, closer, stopAllowed, stoppers, user, error, told, notices>>

StreamClose ==
  /\ closing = "join"
  /\ joins => callback = "idle"
  /\ gone' = TRUE
  /\ closing' = "no" /\ closer' = "none"
  /\ app' = IF closer = "app" THEN "idle" ELSE app
  /\ error' = IF closer = "error" THEN "after" ELSE error
  /\ UNCHANGED <<callback, enabled, sdk, joins, native, pointer, stopAllowed, stoppers, user, told, notices>>

-----------------------------------------------------------------------------
(* callOnAudioReady.  An AAudio that does not wait for its callbacks may   *)
(* still make some when the stream is stopped or gone.  Up to R a stream   *)
(* is not stopped by the answer Stop but by a thread of its own, one for   *)
(* each start.                                                             *)
AudioReady ==
  /\ callback = "idle"
  /\ IF joins THEN Live /\ Running ELSE Running \/ native = "Stopped"
  /\ callback' = IF Refused THEN "refused" ELSE "app"
  /\ UNCHANGED <<app, closing, enabled, gone, own>>

(* The app may call get...() from its callback.                            *)
Query ==
  /\ \/ callback = "app" /\ callback' = "query"
     \/ callback = "query" /\ MayShare /\ callback' = "asked"
  /\ UNCHANGED <<app, closing, enabled, gone, own>>

StopsForCallback ==
  IF sdk =< R
    THEN /\ stopAllowed' = FALSE
         /\ stoppers' = stoppers + (IF stopAllowed THEN 1 ELSE 0)
         /\ UNCHANGED native
    ELSE /\ native' = Requested("stop")
         /\ UNCHANGED <<stopAllowed, stoppers>>

Answered(result) ==
  IF result = "Stop"
    THEN StopsForCallback
    ELSE UNCHANGED <<native, stopAllowed, stoppers>>

CallbackReturns ==
  /\ callback' = "idle"
  /\ \/ callback \in {"app", "asked"} /\ \E result \in DataCallbackResult : SetEnabled(result) /\ Answered(result)
     \/ callback = "refused" /\ UNCHANGED enabled /\ Answered("Stop")
  /\ UNCHANGED <<app, closing, gone, sdk, joins, pointer, closer, user, error, told, notices>>

StopThread ==
  /\ stoppers > 0 /\ LockFree
  /\ stoppers' = stoppers - 1
  /\ native' = IF pointer THEN After("stop") ELSE native
  /\ UNCHANGED <<base, sdk, joins, pointer, closer, stopAllowed, user, error, told, notices>>

-----------------------------------------------------------------------------
(* A blocking read or write, or any other use of the stream: under the     *)
(* shared lock from the look at the pointer to the end.                    *)
BeginUse ==
  /\ user = "idle" /\ pointer /\ MayShare
  /\ user' = "using"
  /\ UNCHANGED <<base, sdk, joins, native, pointer, closer, stopAllowed, stoppers, error, told, notices>>

EndUse ==
  /\ user = "using"
  /\ user' = "idle"
  /\ UNCHANGED <<base, sdk, joins, native, pointer, closer, stopAllowed, stoppers, error, told, notices>>

-----------------------------------------------------------------------------
(* internalErrorCallback: the first error launches a thread, unless the    *)
(* stream is being closed.                                                 *)
(* Variant of FirstError: every error launches a thread. *)
AnyError == TRUE

FirstError == told = "nothing"

InternalErrorCallback ==
  /\ Live /\ native = "Disconnected"
  /\ notices < MaxNotices   \* the bound
  /\ notices' = notices + 1
  /\ IF FirstError /\ pointer
       THEN error' = "onError" /\ told' = "onError"
       ELSE UNCHANGED <<error, told>>
  /\ UNCHANGED <<base, sdk, joins, native, pointer, closer, stopAllowed, stoppers, user>>

(* Variant of ErrorStop: the stream is stopped, and left to the app. *)
StopOnly ==
  /\ error = "stop" /\ LockFree
  /\ native' = IF pointer THEN After("stop") ELSE native
  /\ error' = "none"
  /\ told' = "onErrorBeforeClose"
  /\ UNCHANGED <<base, sdk, joins, pointer, closer, stopAllowed, stoppers, user, notices>>

(* oboe_aaudio_error_thread_proc_common: the app may deal with the error,  *)
(* and then has to close the stream; else it is stopped and closed here.   *)
OnError ==
  /\ error = "onError"
  /\ \/ error' = "none" /\ told' = "handled"
     \/ error' = "stop" /\ UNCHANGED told
  /\ UNCHANGED <<base, sdk, joins, native, pointer, closer, stopAllowed, stoppers, user, notices>>

ErrorStop ==
  /\ error = "stop" /\ LockFree
  /\ native' = IF pointer THEN After("stop") ELSE native
  /\ error' = "close"
  /\ told' = "onErrorBeforeClose"
  /\ UNCHANGED <<base, sdk, joins, pointer, closer, stopAllowed, stoppers, user, notices>>

ErrorClose ==
  /\ error = "close"
  /\ BeginsClose("error")
  /\ error' = IF pointer THEN "closing" ELSE "after"
  /\ UNCHANGED <<app, callback, enabled, gone, sdk, joins, native, pointer, stopAllowed, stoppers, user, told, notices>>

OnErrorAfterClose ==
  /\ error = "after"
  /\ error' = "none"
  /\ told' = "onErrorAfterClose"
  /\ UNCHANGED <<base, sdk, joins, native, pointer, closer, stopAllowed, stoppers, user, notices>>

-----------------------------------------------------------------------------
Requests == RequestStart \/ RequestPause \/ RequestFlush \/ RequestStop \/ Release \/ Close
Closing == Exchange \/ StreamClose
DataCallback == Query \/ CallbackReturns
ErrorThread == OnError \/ ErrorStop \/ ErrorClose \/ OnErrorAfterClose
AAudio == Settle \/ AudioReady \/ InternalErrorCallback

Next ==
  \/ Requests \/ WaitForStateChange
  \/ Closing \/ DataCallback \/ StopThread \/ BeginUse \/ EndUse \/ ErrorThread
  \/ AAudio \/ Disconnect

Calling == IF callback \in {"app", "query", "asked"} THEN 1 ELSE 0
=============================================================================
