----------------------------- MODULE OboeStreams -----------------------------
(***************************************************************************)
(* A stream of Oboe, carried by AAudio or by OpenSL ES.  The two have the  *)
(* variables of their base class in common; those of the other API rest.   *)
(***************************************************************************)
EXTENDS Naturals

CONSTANTS Apis,                                  \* those to look at, of {"aaudio", "opensles"}
          Sdks, O_MR1, R, MaxStoppers, MaxNotices, \* AAudio
          Directions, Faults, MaxFaults          \* OpenSL ES

ASSUME ApisAssumption == Apis \subseteq {"aaudio", "opensles"} /\ Directions \subseteq {"output", "input"}
ASSUME SdksAssumption == Sdks \subseteq Nat /\ O_MR1 \in Nat /\ R \in Nat /\ O_MR1 < R
ASSUME BoundsAssumption == {MaxStoppers, MaxNotices, MaxFaults} \subseteq Nat

VARIABLES api,                                            \* the API of the stream
          app, closing, callback, enabled, gone,          \* the base class
          sdk, joins, native, pointer, closer, stopAllowed, stoppers, user, error, told, notices, \* AAudio
          direction, mState, initialState, play, depth, object,                            \* OpenSL ES
          engine, mixer, engineObject, mixerObject, other, faults

AAudio == INSTANCE AAudioStream
OpenSL == INSTANCE OpenSLStream

aaudioOnly == <<sdk, joins, native, pointer, closer, stopAllowed, stoppers, user, error, told, notices>>
openslOnly == <<direction, mState, initialState, play, depth, object, engine, mixer, engineObject, mixerObject, other, faults>>
vars == <<api, app, closing, callback, enabled, gone, aaudioOnly, openslOnly>>

Init ==
  /\ api \in Apis
  /\ AAudio!BaseInit /\ AAudio!OwnInit /\ OpenSL!OwnInit
  /\ api = "opensles" => joins

Next ==
  \/ api = "aaudio" /\ AAudio!Next /\ UNCHANGED <<api, openslOnly>>
  \/ api = "opensles" /\ OpenSL!Next /\ UNCHANGED <<api, aaudioOnly>>

Spec == Init /\ [][Next]_vars

InAAudio(action) == api = "aaudio" /\ action /\ UNCHANGED <<api, openslOnly>>
InOpenSL(action) == api = "opensles" /\ action /\ UNCHANGED <<api, aaudioOnly>>

(* Threads that run go on, and the service does what it was asked for and  *)
(* reports what it found.  The app need not make any request.              *)
FairSpec ==
  /\ Spec
  /\ SF_vars(InAAudio(AAudio!Closing)) /\ WF_vars(InAAudio(AAudio!DataCallback))
  /\ SF_vars(InAAudio(AAudio!StopThread)) /\ SF_vars(InAAudio(AAudio!ErrorThread))
  /\ WF_vars(InAAudio(AAudio!EndUse)) /\ WF_vars(InAAudio(AAudio!AAudio))
  /\ WF_vars(InOpenSL(OpenSL!Opening)) /\ WF_vars(InOpenSL(OpenSL!Starting))
  /\ WF_vars(InOpenSL(OpenSL!Closing)) /\ SF_vars(InOpenSL(OpenSL!DataCallback))
  /\ WF_vars(InOpenSL(OpenSL!BufferDone))

-----------------------------------------------------------------------------
(* Properties.                                                             *)

(* Whichever API carries it, a stream does what its documentation          *)
(* promises: it stays closed, does not call an app that has said Stop, nor *)
(* one that has closed it if the API waits for its callbacks, and tells an *)
(* error once and in order.                                                *)
Promised == INSTANCE StreamPromise WITH
  StreamStates <- AAudio!StreamStates,
  state <- IF api = "aaudio" THEN AAudio!State ELSE OpenSL!State,
  calling <- IF api = "aaudio" THEN AAudio!Calling ELSE OpenSL!Calling

ImplementsStream == Promised!Spec

(* Nobody calls AAudio with a stream that is destroyed: the thread that    *)
(* was in a blocking read or write has left it, and who comes later, even  *)
(* the callbacks of an AAudio that did not wait for them, the threads that *)
(* stop the stream for these, the thread of an error or a second close,    *)
(* finds no pointer.                                                       *)
NobodyUsesClosed ==
  api = "aaudio" /\ gone => user = "idle" /\ ~pointer

(* The streams that are open have the engine and the mixer they need, and  *)
(* the last one closed leaves nothing behind, wherever its opening failed: *)
(* only a mixer that cannot be created stays counted, with the thread that *)
(* wants to close it and holds its lock.                                   *)
HoldsEngine == app \in {"mixer", "stuck", "create"} \/ (app = "close" /\ ~gone) \/ mState \notin {"Uninitialized", "Closed"}
HoldsMixer == direction = "output" /\ HoldsEngine /\ app # "mixer" /\ closing # "engine"
Count(holds) == IF holds THEN 1 ELSE 0

SharedObjectsCounted ==
  api = "opensles" =>
    /\ engine = Count(HoldsEngine) + Count(other # "closed")
    /\ mixer = Count(HoldsMixer) + Count(other = "open")
    /\ engineObject = (engine > 0)
    /\ app # "stuck" => mixerObject = (mixer > 0)

(* A call of close returns, though it waits for the callback, which may    *)
(* query or stop the stream, and for those that use it.                    *)
ClosesEnd == closing # "no" ~> closing = "no"

(* A stream whose callback has said Stop is stopped, at every start anew,  *)
(* unless OpenSL ES refuses to: then the next callback tries again, if     *)
(* there is a buffer left to be played.                                    *)
Playing == IF api = "aaudio" THEN native \in {"Starting", "Started"} /\ ~gone ELSE mState = "Started"
StopTakesEffect == (Playing /\ ~enabled) ~> (~Playing \/ enabled \/ ("stop" \in faults /\ depth = 0))

(* A disconnected stream is closed and the app told of it, unless the app  *)
(* deals with it or releases or closes the stream in time.                 *)
ErrorFollowedUp ==
  native = "Disconnected" ~> (told \in {"handled", "onErrorAfterClose"} \/ native = "Closing" \/ gone)
=============================================================================
