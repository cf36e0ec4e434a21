----------------------------- MODULE OpenSLStream -----------------------------
(***************************************************************************)
(* AudioOutputStreamOpenSLES and AudioInputStreamOpenSLES with their       *)
(* common part, AudioStreamOpenSLES, and the two objects all streams       *)
(* share: the engine and, for output, the mixer, each with a count of its  *)
(* users.  Another output stream of the program uses them at the same      *)
(* time.                                                                   *)
(***************************************************************************)
EXTENDS AudioStream, FiniteSets

CONSTANTS Directions,     \* those to look at, of {"output", "input"}
          Faults,         \* the calls of OpenSL ES that may fail
          MaxFaults       \* how often they do

VARIABLES direction,      \* mDirection
          mState,         \* mState
          initialState,   \* of the requestStart under way
          play,           \* what the player or recorder does
          depth,          \* buffers in the queue of OpenSL ES
          object,         \* mObjectInterface is not null
          engine, mixer,  \* mOpenCount of the two shared objects
          engineObject, mixerObject, \* they exist
          other,          \* what the other stream does
          faults          \* the calls that have failed

shared == <<engine, mixer, engineObject, mixerObject>>
device == <<play, depth>>
own == <<direction, mState, initialState, device, object, shared, other, faults>>
vars == <<base, own>>

OwnInit ==
  /\ direction \in Directions
  /\ mState = "Uninitialized" /\ initialState = "Uninitialized"
  /\ play = "stopped" /\ depth = 0
  /\ object = FALSE
  /\ engine = 0 /\ mixer = 0 /\ engineObject = FALSE /\ mixerObject = FALSE
  /\ other = "closed"
  /\ faults = {}

Output == direction = "output"

(* A call of OpenSL ES, which may be one that fails.                       *)
Succeeds == UNCHANGED faults
FailsTo(call) == call \in Faults /\ Cardinality(faults) < MaxFaults /\ faults' = faults \cup {call}

-----------------------------------------------------------------------------
(* EngineOpenSLES and OutputMixerOpenSL: the first user creates the        *)
(* object, the last destroys it.                                           *)
EngineOpens == engine' = engine + 1 /\ engineObject' = TRUE

EngineCloses ==
  /\ engine' = engine - 1
  /\ engineObject' = (engineObject /\ engine # 1)

MixerOpens == mixer' = mixer + 1 /\ mixerObject' = TRUE

MixerCloses ==
  /\ mixer' = mixer - 1
  /\ mixerObject' = (mixerObject /\ mixer # 1)

(* The thread that cannot create the mixer never lets go of its lock.      *)
OtherStream ==
  /\ app = "stuck" => other \in {"closed", "closing"}
  /\ \/ other = "closed" /\ EngineOpens /\ UNCHANGED <<mixer, mixerObject>> /\ other' = "engine"
     \/ other = "engine" /\ MixerOpens /\ UNCHANGED <<engine, engineObject>> /\ other' = "open"
     \/ other = "open" /\ MixerCloses /\ UNCHANGED <<engine, engineObject>> /\ other' = "closing"
     \/ other = "closing" /\ EngineCloses /\ UNCHANGED <<mixer, mixerObject>> /\ other' = "closed"
  /\ UNCHANGED <<base, direction, mState, initialState, device, object, faults>>

-----------------------------------------------------------------------------
(* open.                                                                   *)
OpenEngine ==
  /\ app = "idle" /\ mState = "Uninitialized"
  /\ \/ Succeeds /\ EngineOpens /\ app' = IF Output THEN "mixer" ELSE "create"
     \/ engine = 0 /\ FailsTo("engine") /\ app' = "failed" /\ UNCHANGED <<engine, engineObject>>
  /\ UNCHANGED <<closing, callback, enabled, gone, direction, mState, initialState, device, object, mixer, mixerObject, other>>

(* The mixer that cannot be created or realized closes itself under its    *)
(* own lock, which is not recursive: the thread waits for itself.          *)
OpenMixer ==
  /\ app = "mixer"
  /\ \/ Succeeds /\ MixerOpens /\ app' = "create"
     \/ mixer = 0 /\ FailsTo("mixer") /\ mixer' = mixer + 1 /\ mixerObject' \in BOOLEAN /\ app' = "stuck"
  /\ UNCHANGED <<closing, callback, enabled, gone, direction, mState, initialState, device, object, engine, engineObject, other>>

(* Variant: what has failed is left as it is. *)
CreateOrLeave ==
  /\ app = "create"
  /\ \/ Succeeds /\ object' = TRUE /\ mState' = "Open" /\ app' = "idle"
     \/ FailsTo("create") /\ app' = "failed" /\ UNCHANGED <<object, mState>>
  /\ UNCHANGED <<closing, callback, enabled, gone, direction, initialState, device, shared, other>>

(* A player or recorder is created, configured, realized and given its     *)
(* buffers; whatever of it fails, close cleans up.                         *)
Create ==
  /\ app = "create"
  /\ \/ Succeeds /\ object' = TRUE /\ mState' = "Open" /\ app' = "idle"
     \/ FailsTo("create") /\ object' \in BOOLEAN /\ app' = "close" /\ UNCHANGED mState
  /\ UNCHANGED <<closing, callback, enabled, gone, direction, initialState, device, shared, other>>

-----------------------------------------------------------------------------
(* mLock is held by a start that calls the app.                            *)
Unlocked == app \notin {"starting", "filling", "play", "hung"}

(* requestStop_l: the queue of a player is cleared, that of a recorder is  *)
(* not.  If OpenSL ES refuses, the state is what it was.                   *)
RequestStop_l ==
  IF mState \in {"Stopping", "Stopped", "Uninitialized", "Closed"}
    THEN UNCHANGED <<mState, device, faults>>
    ELSE \/ /\ Succeeds /\ play' = "stopped"
            /\ depth' = IF Output THEN 0 ELSE depth
            /\ mState' = "Stopped"
         \/ FailsTo("stop") /\ UNCHANGED <<mState, device>>

RequestStop ==
  /\ app = "idle"
  /\ RequestStop_l
  /\ UNCHANGED <<base, direction, initialState, object, shared, other>>

RequestPause ==
  /\ app = "idle" /\ Output
  /\ mState \notin {"Paused", "Uninitialized", "Closed"}
  /\ \/ Succeeds /\ play' = "paused" /\ mState' = "Paused"
     \/ FailsTo("pause") /\ UNCHANGED <<play, mState>>
  /\ UNCHANGED <<base, direction, initialState, depth, object, shared, other>>

(* The state stays what it is.                                             *)
RequestFlush ==
  /\ app = "idle" /\ Output /\ mState # "Closed" /\ object
  /\ depth' = 0
  /\ UNCHANGED <<base, direction, mState, initialState, play, object, shared, other, faults>>

(* A callback from before the stream was stopped may still be running.     *)
RequestStart ==
  /\ app = "idle"
  /\ mState \notin {"Starting", "Started", "Uninitialized", "Closed"}
  /\ enabled' = TRUE
  /\ initialState' = mState
  /\ mState' = "Starting"
  /\ app' = "starting"
  /\ UNCHANGED <<closing, callback, gone, direction, device, object, shared, other, faults>>

(* A player with an empty queue has the app fill the first buffer, under   *)
(* the lock; a recorder is given it as it is.                              *)
NeedsFirst == Output /\ depth = 0

Prime ==
  /\ app = "starting" /\ ~(NeedsFirst /\ Refused)
  /\ IF NeedsFirst THEN app' = "filling" /\ UNCHANGED depth
                   ELSE app' = "play" /\ depth' = IF depth = 0 THEN 1 ELSE depth
  /\ UNCHANGED <<closing, callback, enabled, gone, direction, mState, initialState, play, object, shared, other, faults>>

(* The player is stopped again, and the state is that from before.  If     *)
(* that fails, flush is called, which waits for the lock that this thread  *)
(* holds.                                                                  *)
GiveUpStart ==
  /\ depth' = 0
  /\ \/ Succeeds /\ play' = "stopped" /\ mState' = initialState /\ app' = "idle"
     \/ FailsTo("stop") /\ app' = "hung" /\ UNCHANGED <<play, mState>>

(* A late callback has answered Stop after requestStart enabled callbacks. *)
NothingToFill ==
  /\ app = "starting" /\ NeedsFirst /\ Refused
  /\ GiveUpStart
  /\ UNCHANGED <<closing, callback, enabled, gone, direction, initialState, object, shared, other>>

Fill ==
  /\ app = "filling"
  /\ \E result \in DataCallbackResult :
       /\ SetEnabled(result)
       /\ IF result = "Continue"
            THEN depth' = depth + 1 /\ app' = "play" /\ UNCHANGED <<mState, play, faults>>
            ELSE GiveUpStart
  /\ UNCHANGED <<closing, callback, gone, direction, initialState, object, shared, other>>

SetPlayState ==
  /\ app = "play"
  /\ \/ Succeeds /\ play' = "playing" /\ mState' = "Started"
     \/ FailsTo("play") /\ UNCHANGED play /\ mState' = initialState
  /\ app' = "idle"
  /\ UNCHANGED <<closing, callback, enabled, gone, direction, initialState, depth, object, shared, other>>

-----------------------------------------------------------------------------
(* close: the state is Closed before the lock is let go of, for OpenSL ES  *)
(* to wait for its callback, which may want the lock.                      *)
Close ==
  /\ app \in {"idle", "close"} /\ closing = "no"
  /\ app = "idle" => mState \notin {"Uninitialized", "Closed"}
  /\ mState' = "Closed"
  /\ \/ Succeeds /\ play' = IF mState = "Uninitialized" THEN play ELSE IF Output THEN "paused" ELSE "stopped"
     \/ mState # "Uninitialized" /\ FailsTo(IF Output THEN "pause" ELSE "stop") /\ UNCHANGED play
  /\ object' = FALSE
  /\ closing' = IF object THEN "destroy" ELSE "mixer"
  /\ app' = "close"
  /\ UNCHANGED <<callback, enabled, gone, direction, initialState, depth, shared, other>>

(* OpenSL ES makes no more callbacks, and "Will join the callback!"        *)
Destroy ==
  /\ closing = "destroy"
  /\ play' = "stopped" /\ depth' = 0
  /\ closing' = "join"
  /\ UNCHANGED <<app, callback, enabled, gone, direction, mState, initialState, object, shared, other, faults>>

Join ==
  /\ closing = "join" /\ callback = "idle"
  /\ closing' = "mixer"
  /\ UNCHANGED <<app, callback, enabled, gone, direction, mState, initialState, device, object, shared, other, faults>>

OnAfterDestroy ==
  /\ closing = "mixer"
  /\ IF Output THEN MixerCloses ELSE UNCHANGED <<mixer, mixerObject>>
  /\ closing' = "engine"
  /\ UNCHANGED <<app, callback, enabled, gone, direction, mState, initialState, device, object, engine, engineObject, other, faults>>

CloseEngine ==
  /\ closing = "engine"
  /\ EngineCloses
  /\ closing' = "no" /\ app' = "idle" /\ gone' = TRUE
  /\ UNCHANGED <<callback, enabled, direction, mState, initialState, device, object, mixer, mixerObject, other, faults>>

-----------------------------------------------------------------------------
(* bqCallbackGlue: a buffer is done, the app fills it again.               *)
BufferDone ==
  /\ play = "playing" /\ depth > 0 /\ callback = "idle"
  /\ depth' = depth - 1
  /\ callback' = IF Refused THEN "stop" ELSE "app"
  /\ UNCHANGED <<app, closing, enabled, gone, direction, mState, initialState, play, object, shared, other, faults>>

(* processBufferCallback, without the lock.                                *)
ProcessBuffer ==
  /\ callback = "app"
  /\ \E result \in DataCallbackResult :
       /\ SetEnabled(result)
       /\ \/ result = "Continue" /\ Succeeds /\ depth' = depth + 1 /\ callback' = "idle"
          \/ result = "Continue" /\ FailsTo("enqueue") /\ callback' = "stop" /\ UNCHANGED depth
          \/ result = "Stop" /\ Succeeds /\ callback' = "stop" /\ UNCHANGED depth
  /\ UNCHANGED <<app, closing, gone, direction, mState, initialState, play, object, shared, other>>

StopFromCallback ==
  /\ callback = "stop" /\ Unlocked
  /\ RequestStop_l
  /\ callback' = "idle"
  /\ UNCHANGED <<app, closing, enabled, gone, direction, initialState, object, shared, other>>

-----------------------------------------------------------------------------
Opening == OpenEngine \/ OpenMixer \/ Create
Requests == RequestStop \/ RequestPause \/ RequestFlush \/ RequestStart
Starting == Prime \/ NothingToFill \/ Fill \/ SetPlayState
Closing == Destroy \/ Join \/ OnAfterDestroy \/ CloseEngine
DataCallback == ProcessBuffer \/ StopFromCallback

Next == Opening \/ Requests \/ Starting \/ Close \/ Closing \/ BufferDone \/ DataCallback \/ OtherStream

State == mState
One(holds) == IF holds THEN 1 ELSE 0
Calling == One(callback = "app") + One(app = "filling")
=============================================================================
