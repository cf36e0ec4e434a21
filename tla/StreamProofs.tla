----------------------------- MODULE StreamProofs -----------------------------
(***************************************************************************)
(* A stream of Oboe, whichever API carries it, for all versions of         *)
(* Android, any number of threads that are to stop it, of errors reported  *)
(* and of calls that fail: nobody uses a stream that is closed, the shared *)
(* objects of OpenSL ES are counted right, and the stream does what its    *)
(* documentation promises (StreamPromise).                                 *)
(***************************************************************************)
EXTENDS OboeStreams, TLAPS

USE ApisAssumption

-----------------------------------------------------------------------------
(* The inductive invariant of a stream of AAudio: who closes it and who    *)
(* uses it, by the pointer and the two locks.                              *)
PointerInv ==
  /\ closing \in {"no", "exchange", "join"}
  /\ closing = "no" <=> closer = "none"
  /\ closing = "exchange" => pointer
  /\ pointer <=> ~(gone \/ closing = "join")
  /\ gone => closing = "no" /\ (joins => callback = "idle")
  /\ ~pointer => user = "idle"

(* An error is dealt with by one thread, in order, and a stream that has   *)
(* failed stays in a state no request leads out of.                        *)
ErrorInv ==
  /\ native \in AAudio!StreamStates \ {"Uninitialized", "Unknown", "Closed"}
  /\ told # "nothing" => native \in {"Disconnected", "Closing"}
  /\ told = "nothing" => error = "none"
  /\ error \in {"onError", "stop"} => told = "onError"
  /\ error \in {"close", "closing", "after"} => told = "onErrorBeforeClose"
  /\ error = "after" => gone
  /\ closer = "error" <=> error = "closing"

AAudioInv ==
  /\ mState = "Uninitialized" /\ app \notin {"mixer", "stuck", "create", "filling"}
  /\ PointerInv
  /\ ErrorInv

(* That of a stream of OpenSL ES: what the threads may be at in each state *)
(* of the stream.                                                          *)
OpeningInv ==
  /\ app \in {"idle", "mixer", "stuck", "create", "failed", "close", "starting", "filling", "play", "hung"}
  /\ mState \in {"Uninitialized", "Open", "Starting", "Started", "Paused", "Stopped", "Closed"}
  /\ app \in {"mixer", "stuck", "create", "failed"} => mState = "Uninitialized"
  /\ app = "mixer" => direction = "output"
  /\ mState \notin {"Uninitialized", "Closed"} => object
  /\ enabled \in BOOLEAN /\ gone \in BOOLEAN

StartingInv ==
  /\ app \in {"starting", "filling", "play", "hung"} =>
       mState = "Starting" /\ initialState \in {"Open", "Paused", "Stopped"}
  /\ play = "playing" => mState = "Started" \/ closing = "destroy"

ClosingInv ==
  /\ closing \in {"no", "destroy", "join", "mixer", "engine"}
  /\ app = "close" => ~gone /\ mState \in {"Uninitialized", "Closed"}
  /\ app = "close" => (closing = "no" <=> mState = "Uninitialized")
  /\ app # "close" => closing = "no"
  /\ mState = "Closed" => gone \/ app = "close"
  /\ gone => mState = "Closed" /\ app = "idle"
  /\ mState = "Uninitialized" \/ closing \in {"mixer", "engine"} \/ gone => callback = "idle"

OpenSLInv ==
  /\ joins /\ user = "idle" /\ closer = "none" /\ told = "nothing"
  /\ OpeningInv
  /\ StartingInv
  /\ ClosingInv

StreamInv ==
  /\ api \in Apis
  /\ enabled \in BOOLEAN /\ gone \in BOOLEAN /\ joins \in BOOLEAN
  /\ api = "aaudio" => AAudioInv
  /\ api = "opensles" => OpenSLInv

-----------------------------------------------------------------------------
(* Every step of either API keeps the invariant.                           *)
LEMMA AAudioKeeps ==
  ASSUME StreamInv, api = "aaudio", AAudio!Next, UNCHANGED <<api, openslOnly>>
  PROVE  StreamInv'
<1>. USE DEF StreamInv, AAudioInv, PointerInv, ErrorInv, openslOnly, AAudio!base, AAudio!own, AAudio!LockFree,
             AAudio!Live, AAudio!StreamStates
<1>1. CASE AAudio!RequestStart
  <2>1. enabled' \in BOOLEAN
    BY <1>1 DEF AAudio!RequestStart
  <2>2. /\ native' \in AAudio!StreamStates \ {"Uninitialized", "Unknown", "Closed"}
        /\ native \in {"Disconnected", "Closing"} => native' = native
    BY <1>1, SMT DEF AAudio!RequestStart, AAudio!After, AAudio!Requested
  <2>3. /\ app' \in {"idle", "Started"}
        /\ UNCHANGED <<closing, callback, gone, joins, pointer, closer, user, error, told>>
    BY <1>1 DEF AAudio!RequestStart, AAudio!StartsWaiting
  <2>. QED
    BY <2>1, <2>2, <2>3, SMT
<1>2. CASE AAudio!RequestPause
  BY <1>2, SMT DEF AAudio!RequestPause, AAudio!Asks, AAudio!Already, AAudio!After, AAudio!Requested, AAudio!StartsWaiting
<1>3. CASE AAudio!RequestFlush
  BY <1>3, SMT DEF AAudio!RequestFlush, AAudio!Asks, AAudio!Already, AAudio!After, AAudio!Requested, AAudio!StartsWaiting
<1>4. CASE AAudio!RequestStop
  BY <1>4, SMT DEF AAudio!RequestStop, AAudio!Asks, AAudio!Already, AAudio!After, AAudio!Requested, AAudio!StartsWaiting
<1>5. CASE AAudio!Release
  BY <1>5, SMT DEF AAudio!Release
<1>6. CASE AAudio!Close
  BY <1>6, SMT DEF AAudio!Close, AAudio!BeginsClose
<1>7. CASE AAudio!WaitForStateChange
  BY <1>7, SMT DEF AAudio!WaitForStateChange, AAudio!Waits
<1>8. CASE AAudio!Exchange
  BY <1>8, SMT DEF AAudio!Exchange, AAudio!NobodyReads, AAudio!After, AAudio!Already, AAudio!Requested
<1>9. CASE AAudio!StreamClose
  BY <1>9, SMT DEF AAudio!StreamClose
<1>10. CASE AAudio!Query
  BY <1>10, SMT DEF AAudio!Query, AAudio!MayShare
<1>11. CASE AAudio!CallbackReturns
  <2>1. enabled' \in BOOLEAN
    BY <1>11 DEF AAudio!CallbackReturns, AAudio!SetEnabled
  <2>2. native' = native \/ native' = AAudio!Requested("stop")
    BY <1>11 DEF AAudio!CallbackReturns, AAudio!Answered, AAudio!StopsForCallback
  <2>3. callback' = "idle"
        /\ UNCHANGED <<app, closing, gone, joins, pointer, closer, user, error, told>>
    BY <1>11 DEF AAudio!CallbackReturns
  <2>. QED
    BY <2>1, <2>2, <2>3, SMT DEF AAudio!Requested
<1>12. CASE AAudio!StopThread
  BY <1>12, SMT DEF AAudio!StopThread, AAudio!After, AAudio!Already, AAudio!Requested
<1>13. CASE AAudio!BeginUse
  BY <1>13, SMT DEF AAudio!BeginUse, AAudio!MayShare
<1>14. CASE AAudio!EndUse
  BY <1>14, SMT DEF AAudio!EndUse
<1>15. CASE AAudio!OnError
  BY <1>15, SMT DEF AAudio!OnError
<1>16. CASE AAudio!ErrorStop
  BY <1>16, SMT DEF AAudio!ErrorStop, AAudio!After, AAudio!Already, AAudio!Requested
<1>17. CASE AAudio!ErrorClose
  BY <1>17, SMT DEF AAudio!ErrorClose, AAudio!BeginsClose
<1>18. CASE AAudio!OnErrorAfterClose
  BY <1>18, SMT DEF AAudio!OnErrorAfterClose
<1>19. CASE AAudio!Settle
  BY <1>19, SMT DEF AAudio!Settle
<1>20. CASE AAudio!AudioReady
  BY <1>20, SMT DEF AAudio!AudioReady, AAudio!Refused
<1>21. CASE AAudio!InternalErrorCallback
  BY <1>21, SMT DEF AAudio!InternalErrorCallback, AAudio!FirstError
<1>22. CASE AAudio!Disconnect
  BY <1>22, SMT DEF AAudio!Disconnect
<1>. QED
  BY <1>1, <1>2, <1>3, <1>4, <1>5, <1>6, <1>7, <1>8, <1>9, <1>10, <1>11, <1>12, <1>13, <1>14, <1>15, <1>16,
     <1>17, <1>18, <1>19, <1>20, <1>21, <1>22
     DEF AAudio!Next, AAudio!Requests, AAudio!Closing, AAudio!DataCallback, AAudio!ErrorThread, AAudio!AAudio

LEMMA OpenSLKeeps ==
  ASSUME StreamInv, api = "opensles", OpenSL!Next, UNCHANGED <<api, aaudioOnly>>
  PROVE  StreamInv'
<1>. USE DEF StreamInv, OpenSLInv, OpeningInv, StartingInv, ClosingInv, aaudioOnly, OpenSL!base, OpenSL!own,
             OpenSL!device, OpenSL!shared, OpenSL!Succeeds, OpenSL!FailsTo, OpenSL!DataCallbackResult
<1>1. CASE OpenSL!OpenEngine
  BY <1>1, SMT DEF OpenSL!OpenEngine, OpenSL!EngineOpens, OpenSL!Output
<1>2. CASE OpenSL!OpenMixer
  BY <1>2, SMT DEF OpenSL!OpenMixer, OpenSL!MixerOpens
<1>3. CASE OpenSL!Create
  BY <1>3, SMT DEF OpenSL!Create
<1>4. CASE OpenSL!RequestStop
  BY <1>4, SMT DEF OpenSL!RequestStop, OpenSL!RequestStop_l, OpenSL!Output
<1>5. CASE OpenSL!RequestPause
  BY <1>5, SMT DEF OpenSL!RequestPause, OpenSL!Output
<1>6. CASE OpenSL!RequestFlush
  BY <1>6, SMT DEF OpenSL!RequestFlush, OpenSL!Output
<1>7. CASE OpenSL!RequestStart
  BY <1>7, SMT DEF OpenSL!RequestStart
<1>8. CASE OpenSL!Prime
  BY <1>8, SMT DEF OpenSL!Prime, OpenSL!NeedsFirst, OpenSL!Output
<1>9. CASE OpenSL!Fill
  <2>1. enabled' \in BOOLEAN
    BY <1>9 DEF OpenSL!Fill, OpenSL!SetEnabled
  <2>2. /\ app = "filling"
        /\ \/ app' = "play" /\ UNCHANGED <<mState, play>>
           \/ app' = "idle" /\ mState' = initialState /\ play' = "stopped"
           \/ app' = "hung" /\ UNCHANGED <<mState, play>>
        /\ UNCHANGED <<closing, callback, gone, direction, initialState, object>>
    BY <1>9 DEF OpenSL!Fill, OpenSL!GiveUpStart
  <2>. QED
    BY <2>1, <2>2, SMT
<1>10. CASE OpenSL!SetPlayState
  BY <1>10, SMT DEF OpenSL!SetPlayState
<1>11. CASE OpenSL!Close
  BY <1>11, SMT DEF OpenSL!Close, OpenSL!Output
<1>12. CASE OpenSL!Destroy
  BY <1>12, SMT DEF OpenSL!Destroy
<1>13. CASE OpenSL!OnAfterDestroy
  BY <1>13, SMT DEF OpenSL!OnAfterDestroy
<1>14. CASE OpenSL!CloseEngine
  BY <1>14, SMT DEF OpenSL!CloseEngine
<1>15. CASE OpenSL!BufferDone
  BY <1>15, SMT DEF OpenSL!BufferDone, OpenSL!Refused
<1>16. CASE OpenSL!ProcessBuffer
  BY <1>16, SMT DEF OpenSL!ProcessBuffer, OpenSL!SetEnabled
<1>17. CASE OpenSL!StopFromCallback
  BY <1>17, SMT DEF OpenSL!StopFromCallback, OpenSL!Unlocked, OpenSL!RequestStop_l, OpenSL!Output
<1>18. CASE OpenSL!OtherStream
  BY <1>18, SMT DEF OpenSL!OtherStream
<1>19. CASE OpenSL!NothingToFill
  BY <1>19, SMT DEF OpenSL!NothingToFill, OpenSL!GiveUpStart
<1>20. CASE OpenSL!Join
  BY <1>20, SMT DEF OpenSL!Join
<1>. QED
  BY <1>1, <1>2, <1>3, <1>4, <1>5, <1>6, <1>7, <1>8, <1>9, <1>10, <1>11, <1>12, <1>13, <1>14, <1>15, <1>16,
     <1>17, <1>18, <1>19, <1>20
     DEF OpenSL!Next, OpenSL!Opening, OpenSL!Requests, OpenSL!Starting, OpenSL!Closing, OpenSL!DataCallback

(* What SharedObjectsCounted says of an object: the holders are this       *)
(* stream and the other one.                                               *)
Counted(n, exists, here, there) ==
  /\ n = Count(here) + Count(there)
  /\ exists = (n > 0)

LEMMA CountedSwaps ==
  ASSUME NEW n, NEW exists, NEW here, NEW there, Counted(n, exists, here, there)
  PROVE  Counted(n, exists, there, here)
<1>1. Count(here) + Count(there) = Count(there) + Count(here)
  BY SMT DEF Count
<1>. QED
  BY <1>1 DEF Counted

LEMMA LastOneCloses ==
  ASSUME NEW n \in Nat, NEW exists, exists = (n > 0), n > 0
  PROVE  (exists /\ n # 1) = (n - 1 > 0)
<1>1. (n # 1) <=> (n - 1 > 0)
  BY SMT
<1>2. exists = TRUE
  BY Zenon
<1>3. CASE n = 1
  <2>1. (n - 1 > 0) = FALSE
    BY <1>1, <1>3, SMT
  <2>. QED
    BY <1>3, <2>1, Zenon
<1>4. CASE n # 1
  <2>1. (n - 1 > 0) = TRUE
    BY <1>1, <1>4, SMT
  <2>. QED
    BY <1>2, <1>4, <2>1, Zenon
<1>. QED
  BY <1>3, <1>4

LEMMA CountedStill ==
  ASSUME NEW n, NEW e, NEW here, NEW here2, NEW there, NEW there2,
         Counted(n, e, here, there), here2 <=> here, there2 <=> there
  PROVE  Counted(n, e, here2, there2)
BY DEF Counted, Count
(* What a step does to who holds what, and to the two counts.              *)
LEMMA CountsAre ==
  ASSUME api = "opensles", app # "stuck"
  PROVE  SharedObjectsCounted <=> /\ Counted(engine, engineObject, HoldsEngine, other # "closed")
                                  /\ Counted(mixer, mixerObject, HoldsMixer, other = "open")
BY DEF SharedObjectsCounted, Counted

LEMMA CountsAreNext ==
  ASSUME api' = "opensles", app' # "stuck"
  PROVE  SharedObjectsCounted' <=> /\ Counted(engine', engineObject', HoldsEngine', other' # "closed")
                                   /\ Counted(mixer', mixerObject', HoldsMixer', other' = "open")
BY DEF SharedObjectsCounted, Counted, Count

(* A step that neither opens nor closes keeps the counts right if it keeps *)
(* who holds what.                                                         *)
LEMMA RestKeepsCounts ==
  ASSUME SharedObjectsCounted, UNCHANGED <<api, other, engine, mixer, engineObject, mixerObject>>,
         HoldsEngine' <=> HoldsEngine, HoldsMixer' <=> HoldsMixer, app = "stuck" <=> app' = "stuck"
  PROVE  SharedObjectsCounted'
BY DEF SharedObjectsCounted, Count

LEMMA OpenSLCounts ==
  ASSUME StreamInv, SharedObjectsCounted, api = "opensles", app # "stuck", OpenSL!Next,
         UNCHANGED <<api, aaudioOnly>>
  PROVE  SharedObjectsCounted'
<1>1. api' = "opensles"
  OBVIOUS
<1>2. /\ Counted(engine, engineObject, HoldsEngine, other # "closed")
      /\ Counted(mixer, mixerObject, HoldsMixer, other = "open")
  BY CountsAre
<1>. USE DEF StreamInv, OpenSLInv, OpeningInv, StartingInv, ClosingInv, HoldsEngine, HoldsMixer
<1>. USE DEF OpenSL!base, OpenSL!own, OpenSL!device, OpenSL!shared, OpenSL!Succeeds, OpenSL!FailsTo, OpenSL!Output
<1>3. CASE OpenSL!OpenEngine
  <2>1. CASE engine' = engine + 1
    <3>1. /\ ~HoldsEngine /\ HoldsEngine' /\ (HoldsMixer' <=> HoldsMixer) /\ app' # "stuck"
          /\ UNCHANGED <<other, mixer, mixerObject>>
      BY <1>3, <2>1, SMT DEF OpenSL!OpenEngine, OpenSL!EngineOpens
    <3>2. engineObject' = TRUE
      BY <1>3, <2>1, SMT DEF OpenSL!OpenEngine, OpenSL!EngineOpens
    <3>. HIDE DEF HoldsEngine, HoldsMixer
    <3>3. Counted(engine', engineObject', HoldsEngine', other' # "closed")
      <4>1. engine' = Count(HoldsEngine') + Count(other' # "closed") /\ engine' > 0
        BY <1>2, <2>1, <3>1, SMT DEF Counted, Count
      <4>. QED
        BY <3>2, <4>1, Zenon DEF Counted
    <3>4. Counted(mixer', mixerObject', HoldsMixer', other' = "open")
      BY <1>2, <3>1, CountedStill
    <3>. QED
      BY <1>1, <3>1, <3>3, <3>4, CountsAreNext
  <2>2. CASE engine' # engine + 1
    BY <1>3, <2>2, RestKeepsCounts, SMT DEF OpenSL!OpenEngine, OpenSL!EngineOpens
  <2>. QED
    BY <2>1, <2>2
<1>4. CASE OpenSL!OpenMixer
  <2>1. /\ (HoldsEngine' <=> HoldsEngine) /\ ~HoldsMixer /\ HoldsMixer'
        /\ UNCHANGED <<other, engine, engineObject>>
        /\ mixer' = mixer + 1
    BY <1>4, SMT DEF OpenSL!OpenMixer, OpenSL!MixerOpens
  <2>2. \/ app' # "stuck" /\ mixerObject' = TRUE
        \/ app' = "stuck"
    BY <1>4 DEF OpenSL!OpenMixer, OpenSL!MixerOpens
  <2>. HIDE DEF HoldsEngine, HoldsMixer
  <2>3. Counted(engine', engineObject', HoldsEngine', other' # "closed")
    BY <1>2, <2>1, CountedStill
  <2>4. mixer' = Count(HoldsMixer') + Count(other' = "open") /\ mixer' > 0
    BY <1>2, <2>1, SMT DEF Counted, Count
  <2>5. CASE app' # "stuck"
    <3>1. Counted(mixer', mixerObject', HoldsMixer', other' = "open")
      BY <2>2, <2>4, <2>5, Zenon DEF Counted
    <3>. QED
      BY <1>1, <2>3, <2>5, <3>1, CountsAreNext
  <2>6. CASE app' = "stuck"
    BY <1>1, <2>3, <2>4, <2>6, Zenon DEF SharedObjectsCounted, Counted
  <2>. QED
    BY <2>5, <2>6
<1>5. CASE OpenSL!OnAfterDestroy
  <2>1. /\ (HoldsEngine' <=> HoldsEngine) /\ ~HoldsMixer' /\ app' # "stuck"
        /\ UNCHANGED <<other, engine, engineObject>>
    BY <1>5, SMT DEF OpenSL!OnAfterDestroy
  <2>2. CASE direction = "output"
    <3>1. HoldsMixer
      BY <1>5, <2>2, SMT DEF OpenSL!OnAfterDestroy
    <3>2. mixer' = mixer - 1 /\ mixerObject' = (mixerObject /\ mixer # 1)
      BY <1>5, <2>2 DEF OpenSL!OnAfterDestroy, OpenSL!MixerCloses
    <3>. HIDE DEF HoldsEngine, HoldsMixer
    <3>3. Counted(engine', engineObject', HoldsEngine', other' # "closed")
      BY <1>2, <2>1, CountedStill
    <3>4. Counted(mixer', mixerObject', HoldsMixer', other' = "open")
      <4>1. mixer' = Count(HoldsMixer') + Count(other' = "open")
        BY <1>2, <2>1, <3>1, <3>2, SMT DEF Counted, Count
      <4>2. mixer \in Nat /\ mixer > 0 /\ mixerObject = (mixer > 0)
        <5>1. mixer \in Nat /\ mixer > 0
          BY <1>2, <3>1, SMT DEF Counted, Count
        <5>. QED
          BY <1>2, <5>1 DEF Counted
      <4>3. mixerObject' = (mixer' > 0)
        BY <3>2, <4>2, LastOneCloses
      <4>. QED
        BY <4>1, <4>3, Zenon DEF Counted
    <3>. QED
      BY <1>1, <2>1, <3>3, <3>4, CountsAreNext
  <2>3. CASE direction # "output"
    BY <1>5, <2>1, <2>3, RestKeepsCounts, SMT DEF OpenSL!OnAfterDestroy
  <2>. QED
    BY <2>2, <2>3
<1>6. CASE OpenSL!CloseEngine
  <2>1. /\ HoldsEngine /\ ~HoldsEngine' /\ (HoldsMixer' <=> HoldsMixer) /\ app' # "stuck"
        /\ UNCHANGED <<other, mixer, mixerObject>>
    BY <1>6, SMT DEF OpenSL!CloseEngine, OpenSL!EngineCloses
  <2>2. engine' = engine - 1 /\ engineObject' = (engineObject /\ engine # 1)
    BY <1>6 DEF OpenSL!CloseEngine, OpenSL!EngineCloses
  <2>. HIDE DEF HoldsEngine, HoldsMixer
  <2>3. Counted(engine', engineObject', HoldsEngine', other' # "closed")
    <3>1. engine' = Count(HoldsEngine') + Count(other' # "closed")
      BY <1>2, <2>1, <2>2, SMT DEF Counted, Count
    <3>2. engine \in Nat /\ engine > 0 /\ engineObject = (engine > 0)
      <4>1. engine \in Nat /\ engine > 0
        BY <1>2, <2>1, SMT DEF Counted, Count
      <4>. QED
        BY <1>2, <4>1 DEF Counted
    <3>3. engineObject' = (engine' > 0)
      BY <2>2, <3>2, LastOneCloses
    <3>. QED
      BY <3>1, <3>3, Zenon DEF Counted
  <2>4. Counted(mixer', mixerObject', HoldsMixer', other' = "open")
    BY <1>2, <2>1, CountedStill
  <2>. QED
    BY <1>1, <2>1, <2>3, <2>4, CountsAreNext
<1>7. CASE OpenSL!OtherStream
  <2>1. (HoldsEngine' <=> HoldsEngine) /\ (HoldsMixer' <=> HoldsMixer) /\ app' # "stuck"
    BY <1>7 DEF OpenSL!OtherStream
  <2>. HIDE DEF HoldsEngine, HoldsMixer
  <2>2. /\ Counted(engine, engineObject, other # "closed", HoldsEngine)
        /\ Counted(mixer, mixerObject, other = "open", HoldsMixer)
    BY <1>2, CountedSwaps
  <2>3. /\ Counted(engine', engineObject', other' # "closed", HoldsEngine')
        /\ Counted(mixer', mixerObject', other' = "open", HoldsMixer')
    <3>1. CASE other = "closed" /\ OpenSL!EngineOpens /\ UNCHANGED <<mixer, mixerObject>> /\ other' = "engine"
      <4>1. engine' = engine + 1 /\ engineObject' = TRUE
        BY <3>1 DEF OpenSL!EngineOpens
      <4>2. Counted(engine', engineObject', other' # "closed", HoldsEngine')
        <5>1. engine' = Count(other' # "closed") + Count(HoldsEngine') /\ engine' > 0
          BY <2>1, <2>2, <3>1, <4>1, SMT DEF Counted, Count
        <5>. QED
          BY <4>1, <5>1, Zenon DEF Counted
      <4>. QED
        BY <2>1, <2>2, <3>1, <4>2, CountedStill
    <3>2. CASE other = "engine" /\ OpenSL!MixerOpens /\ UNCHANGED <<engine, engineObject>> /\ other' = "open"
      <4>1. mixer' = mixer + 1 /\ mixerObject' = TRUE
        BY <3>2 DEF OpenSL!MixerOpens
      <4>2. Counted(mixer', mixerObject', other' = "open", HoldsMixer')
        <5>1. mixer' = Count(other' = "open") + Count(HoldsMixer') /\ mixer' > 0
          BY <2>1, <2>2, <3>2, <4>1, SMT DEF Counted, Count
        <5>. QED
          BY <4>1, <5>1, Zenon DEF Counted
      <4>. QED
        BY <2>1, <2>2, <3>2, <4>2, CountedStill
    <3>3. CASE other = "open" /\ OpenSL!MixerCloses /\ UNCHANGED <<engine, engineObject>> /\ other' = "closing"
      <4>1. mixer' = mixer - 1 /\ mixerObject' = (mixerObject /\ mixer # 1)
        BY <3>3 DEF OpenSL!MixerCloses
      <4>2. Counted(mixer', mixerObject', other' = "open", HoldsMixer')
        <5>1. mixer' = Count(other' = "open") + Count(HoldsMixer')
          BY <2>1, <2>2, <3>3, <4>1, SMT DEF Counted, Count
        <5>2. other = "open"
          BY <3>3
        <5>3. mixer \in Nat /\ mixer > 0 /\ mixerObject = (mixer > 0)
          <6>1. mixer \in Nat /\ mixer > 0
            BY <2>2, <5>2, SMT DEF Counted, Count
          <6>. QED
            BY <2>2, <6>1 DEF Counted
        <5>4. mixerObject' = (mixer' > 0)
          BY <4>1, <5>3, LastOneCloses
        <5>. QED
          BY <5>1, <5>4, Zenon DEF Counted
      <4>. QED
        BY <2>1, <2>2, <3>3, <4>2, CountedStill
    <3>4. CASE other = "closing" /\ OpenSL!EngineCloses /\ UNCHANGED <<mixer, mixerObject>> /\ other' = "closed"
      <4>1. engine' = engine - 1 /\ engineObject' = (engineObject /\ engine # 1)
        BY <3>4 DEF OpenSL!EngineCloses
      <4>2. Counted(engine', engineObject', other' # "closed", HoldsEngine')
        <5>1. engine' = Count(other' # "closed") + Count(HoldsEngine')
          BY <2>1, <2>2, <3>4, <4>1, SMT DEF Counted, Count
        <5>2. other # "closed"
          BY <3>4
        <5>3. engine \in Nat /\ engine > 0 /\ engineObject = (engine > 0)
          <6>1. engine \in Nat /\ engine > 0
            BY <2>2, <5>2, SMT DEF Counted, Count
          <6>. QED
            BY <2>2, <6>1 DEF Counted
        <5>4. engineObject' = (engine' > 0)
          BY <4>1, <5>3, LastOneCloses
        <5>. QED
          BY <5>1, <5>4, Zenon DEF Counted
      <4>. QED
        BY <2>1, <2>2, <3>4, <4>2, CountedStill
    <3>. QED
      BY <1>7, <3>1, <3>2, <3>3, <3>4 DEF OpenSL!OtherStream
  <2>4. /\ Counted(engine', engineObject', HoldsEngine', other' # "closed")
        /\ Counted(mixer', mixerObject', HoldsMixer', other' = "open")
    BY <2>3, CountedSwaps
  <2>. QED
    BY <1>1, <2>1, <2>4, CountsAreNext
<1>8. CASE OpenSL!Create
  BY <1>8, RestKeepsCounts, SMT DEF OpenSL!Create
<1>9. CASE OpenSL!RequestStop
  BY <1>9, RestKeepsCounts, SMT DEF OpenSL!RequestStop, OpenSL!RequestStop_l
<1>10. CASE OpenSL!RequestPause
  BY <1>10, RestKeepsCounts, SMT DEF OpenSL!RequestPause
<1>11. CASE OpenSL!RequestFlush
  BY <1>11, RestKeepsCounts, SMT DEF OpenSL!RequestFlush
<1>12. CASE OpenSL!RequestStart
  BY <1>12, RestKeepsCounts, SMT DEF OpenSL!RequestStart
<1>13. CASE OpenSL!Prime \/ OpenSL!SetPlayState
  BY <1>13, RestKeepsCounts, SMT DEF OpenSL!Prime, OpenSL!SetPlayState
<1>14. CASE OpenSL!Fill \/ OpenSL!NothingToFill
  <2>1. /\ app \in {"starting", "filling"} /\ app' \in {"play", "idle", "hung"}
        /\ mState' = mState \/ mState' = initialState
        /\ UNCHANGED <<closing, gone, direction, other, engine, mixer, engineObject, mixerObject>>
    BY <1>14 DEF OpenSL!Fill, OpenSL!NothingToFill, OpenSL!GiveUpStart
  <2>. QED
    BY <2>1, RestKeepsCounts, SMT
<1>15. CASE OpenSL!Close
  BY <1>15, RestKeepsCounts, SMT DEF OpenSL!Close
<1>16. CASE OpenSL!Destroy \/ OpenSL!Join
  BY <1>16, RestKeepsCounts, SMT DEF OpenSL!Destroy, OpenSL!Join
<1>17. CASE OpenSL!BufferDone \/ OpenSL!ProcessBuffer
  BY <1>17, RestKeepsCounts, SMT DEF OpenSL!BufferDone, OpenSL!ProcessBuffer
<1>18. CASE OpenSL!StopFromCallback
  BY <1>18, RestKeepsCounts, SMT DEF OpenSL!StopFromCallback, OpenSL!RequestStop_l
<1>. QED
  BY <1>3, <1>4, <1>5, <1>6, <1>7, <1>8, <1>9, <1>10, <1>11, <1>12, <1>13, <1>14, <1>15, <1>16, <1>17, <1>18
     DEF OpenSL!Next, OpenSL!Opening, OpenSL!Requests, OpenSL!Starting, OpenSL!Closing, OpenSL!DataCallback

(* While a thread is stuck in the creation of the mixer, the other stream  *)
(* has no mixer, and only the engine is opened and closed.                 *)
LEMMA StuckCounts ==
  ASSUME StreamInv, SharedObjectsCounted, api = "opensles", app = "stuck", OpenSL!Next,
         UNCHANGED <<api, aaudioOnly>>
  PROVE  SharedObjectsCounted'
<1>1. OpenSL!OtherStream
  <2>1. mState = "Uninitialized" /\ play # "playing" /\ callback = "idle" /\ closing = "no"
    BY SMT DEF StreamInv, OpenSLInv, OpeningInv, StartingInv, ClosingInv
  <2>. QED
    BY <2>1, SMT DEF OpenSL!Next, OpenSL!Opening, OpenSL!OpenEngine, OpenSL!OpenMixer, OpenSL!Create,
       OpenSL!Requests, OpenSL!RequestStop, OpenSL!RequestPause, OpenSL!RequestFlush, OpenSL!RequestStart,
       OpenSL!Starting, OpenSL!Prime, OpenSL!NothingToFill, OpenSL!Fill, OpenSL!SetPlayState, OpenSL!Close,
       OpenSL!Closing, OpenSL!Destroy, OpenSL!Join, OpenSL!OnAfterDestroy, OpenSL!CloseEngine,
       OpenSL!BufferDone, OpenSL!DataCallback, OpenSL!ProcessBuffer, OpenSL!StopFromCallback
<1>2. /\ HoldsEngine /\ HoldsEngine' /\ (HoldsMixer' <=> HoldsMixer)
      /\ UNCHANGED <<app, mixer, mixerObject>>
      /\ \/ other = "closed" /\ OpenSL!EngineOpens /\ other' = "engine"
         \/ other = "closing" /\ OpenSL!EngineCloses /\ other' = "closed"
  BY <1>1, SMT DEF OpenSL!OtherStream, OpenSL!base, HoldsEngine, HoldsMixer
<1>3. mixer' = Count(HoldsMixer') + Count(other' = "open")
  <2>1. Count(HoldsMixer') = Count(HoldsMixer) /\ Count(other' = "open") = Count(other = "open")
    BY <1>2, SMT DEF Count
  <2>. QED
    BY <1>2, <2>1, Zenon DEF SharedObjectsCounted
<1>4. engine = Count(HoldsEngine) + Count(other # "closed") /\ engineObject = (engine > 0)
  BY DEF SharedObjectsCounted
<1>. HIDE DEF HoldsEngine, HoldsMixer
<1>5. engine' = Count(HoldsEngine') + Count(other' # "closed") /\ engine \in Nat /\ engine > 0 /\ engine' > 0
  BY <1>2, <1>4, SMT DEF Count, OpenSL!EngineOpens, OpenSL!EngineCloses
<1>6. engineObject' = (engine' > 0)
  <2>1. engineObject = TRUE
    BY <1>4, <1>5, Zenon
  <2>2. engineObject' = TRUE
    <3>1. CASE OpenSL!EngineOpens
      BY <3>1 DEF OpenSL!EngineOpens
    <3>2. CASE OpenSL!EngineCloses
      <4>1. engine' = engine - 1 /\ engineObject' = (engineObject /\ engine # 1)
        BY <3>2 DEF OpenSL!EngineCloses
      <4>2. engine # 1
        BY <1>5, <4>1, SMT
      <4>. QED
        BY <2>1, <4>1, <4>2, Zenon
    <3>. QED
      BY <1>2, <3>1, <3>2
  <2>. QED
    BY <1>5, <2>2, Zenon
<1>. QED
  BY <1>2, <1>3, <1>5, <1>6 DEF SharedObjectsCounted

-----------------------------------------------------------------------------
(* Every step is one of StreamPromise, or changes nothing it talks about.  *)
LEMMA AAudioImplements ==
  ASSUME StreamInv, api = "aaudio", AAudio!Next, UNCHANGED <<api, openslOnly>>
  PROVE  [Promised!Next]_(Promised!vars)
<1>. USE DEF StreamInv, AAudioInv, PointerInv, ErrorInv, openslOnly, AAudio!base, AAudio!own, AAudio!LockFree,
             AAudio!Live, AAudio!StreamStates, AAudio!State, Promised!vars
<1>0. /\ AAudio!Calling = IF callback \in {"app", "query", "asked"} THEN 1 ELSE 0
      /\ AAudio!Calling' = IF callback' \in {"app", "query", "asked"} THEN 1 ELSE 0
  BY DEF AAudio!Calling
<1>. USE <1>0
<1>1. CASE AAudio!RequestStart
  BY <1>1, SMT DEF AAudio!RequestStart, AAudio!Already, AAudio!After, AAudio!Requested, AAudio!AllowStopThread, AAudio!StartsWaiting, Promised!Next, Promised!Start
<1>2. CASE AAudio!RequestPause
  BY <1>2, SMT DEF AAudio!RequestPause, AAudio!Asks, AAudio!Already, AAudio!After, AAudio!Requested, AAudio!StartsWaiting, Promised!Next, Promised!Move
<1>3. CASE AAudio!RequestFlush
  BY <1>3, SMT DEF AAudio!RequestFlush, AAudio!Asks, AAudio!Already, AAudio!After, AAudio!Requested, AAudio!StartsWaiting, Promised!Next, Promised!Move
<1>4. CASE AAudio!RequestStop
  BY <1>4, SMT DEF AAudio!RequestStop, AAudio!Asks, AAudio!Already, AAudio!After, AAudio!Requested, AAudio!StartsWaiting, Promised!Next, Promised!Move
<1>5. CASE AAudio!Release
  BY <1>5, SMT DEF AAudio!Release, Promised!Next, Promised!Move
<1>6. CASE AAudio!Close
  BY <1>6, SMT DEF AAudio!Close, AAudio!BeginsClose
<1>7. CASE AAudio!WaitForStateChange
  BY <1>7, SMT DEF AAudio!WaitForStateChange, AAudio!Waits
<1>8. CASE AAudio!Exchange
  BY <1>8, SMT DEF AAudio!Exchange, AAudio!NobodyReads, AAudio!After, AAudio!Already, AAudio!Requested, Promised!Next, Promised!Move
<1>9. CASE AAudio!StreamClose
  <2>1. /\ closing = "join" /\ (joins => callback = "idle") /\ ~pointer /\ ~gone /\ gone' = TRUE
        /\ UNCHANGED <<callback, enabled, native, pointer, told, joins>>
    BY <1>9 DEF AAudio!StreamClose
  <2>2. /\ AAudio!State = "Closed" /\ AAudio!State' = "Closed"
        /\ (joins => AAudio!Calling = 0) /\ AAudio!Calling' = AAudio!Calling
    BY <2>1
  <2>3. Promised!Go
    BY <2>1, <2>2 DEF Promised!Go
  <2>. QED
    BY <2>3 DEF Promised!Next
<1>10. CASE AAudio!Query
  BY <1>10, SMT DEF AAudio!Query, AAudio!MayShare
<1>11. CASE AAudio!CallbackReturns
  <2>1. /\ callback' = "idle" /\ UNCHANGED <<closing, gone, joins, pointer, told>>
        /\ native' = native \/ native' = AAudio!Requested("stop")
    BY <1>11 DEF AAudio!CallbackReturns, AAudio!Answered, AAudio!StopsForCallback
  <2>2. \/ AAudio!State' = AAudio!State
        \/ /\ AAudio!State \notin {"Closed", "Disconnected"}
           /\ AAudio!State' \in AAudio!StreamStates \ {"Uninitialized", "Unknown", "Closed", AAudio!State}
    BY <2>1, SMT DEF AAudio!Requested
  <2>3. CASE callback \in {"app", "asked"}
    <3>1. enabled' \in BOOLEAN
      BY <1>11, <2>3 DEF AAudio!CallbackReturns, AAudio!SetEnabled
    <3>2. AAudio!Calling = 1 /\ AAudio!Calling' = 0
      BY <2>1, <2>3
    <3>. HIDE DEF AAudio!State
    <3>. QED
      BY <2>1, <2>2, <3>1, <3>2, SMT DEF Promised!Next, Promised!Return
  <2>4. CASE callback = "refused"
    <3>1. UNCHANGED enabled /\ AAudio!Calling' = AAudio!Calling
      BY <1>11, <2>1, <2>4 DEF AAudio!CallbackReturns
    <3>. HIDE DEF AAudio!State
    <3>. QED
      BY <2>1, <2>2, <3>1, SMT DEF Promised!Next, Promised!Move
  <2>. QED
    BY <1>11, <2>3, <2>4 DEF AAudio!CallbackReturns
<1>12. CASE AAudio!StopThread
  BY <1>12, SMT DEF AAudio!StopThread, AAudio!After, AAudio!Already, AAudio!Requested, Promised!Next, Promised!Move
<1>13. CASE AAudio!BeginUse
  BY <1>13, SMT DEF AAudio!BeginUse, AAudio!MayShare
<1>14. CASE AAudio!EndUse
  BY <1>14, SMT DEF AAudio!EndUse
<1>15. CASE AAudio!OnError
  BY <1>15, SMT DEF AAudio!OnError, Promised!Next, Promised!Tell
<1>16. CASE AAudio!ErrorStop
  BY <1>16, SMT DEF AAudio!ErrorStop, AAudio!After, AAudio!Already, AAudio!Requested, Promised!Next, Promised!Tell
<1>17. CASE AAudio!ErrorClose
  BY <1>17, SMT DEF AAudio!ErrorClose, AAudio!BeginsClose
<1>18. CASE AAudio!OnErrorAfterClose
  BY <1>18, SMT DEF AAudio!OnErrorAfterClose, Promised!Next, Promised!Tell
<1>19. CASE AAudio!Settle
  BY <1>19, SMT DEF AAudio!Settle, Promised!Next, Promised!Move
<1>20. CASE AAudio!AudioReady
  BY <1>20, SMT DEF AAudio!AudioReady, AAudio!Refused, Promised!Next, Promised!Call
<1>21. CASE AAudio!InternalErrorCallback
  BY <1>21, SMT DEF AAudio!InternalErrorCallback, AAudio!FirstError, Promised!Next, Promised!Tell
<1>22. CASE AAudio!Disconnect
  BY <1>22, SMT DEF AAudio!Disconnect, Promised!Next, Promised!Move
<1>. QED
  BY <1>1, <1>2, <1>3, <1>4, <1>5, <1>6, <1>7, <1>8, <1>9, <1>10, <1>11, <1>12, <1>13, <1>14, <1>15, <1>16,
     <1>17, <1>18, <1>19, <1>20, <1>21, <1>22
     DEF AAudio!Next, AAudio!Requests, AAudio!Closing, AAudio!DataCallback, AAudio!ErrorThread, AAudio!AAudio

LEMMA OpenSLImplements ==
  ASSUME StreamInv, api = "opensles", OpenSL!Next, UNCHANGED <<api, aaudioOnly>>
  PROVE  [Promised!Next]_(Promised!vars)
<1>. USE DEF StreamInv, OpenSLInv, OpeningInv, StartingInv, ClosingInv, aaudioOnly, OpenSL!base, OpenSL!own,
             OpenSL!device, OpenSL!shared, OpenSL!Succeeds, OpenSL!FailsTo, OpenSL!DataCallbackResult,
             AAudio!StreamStates, OpenSL!State, Promised!vars
<1>0. /\ OpenSL!Calling = (IF callback = "app" THEN 1 ELSE 0) + (IF app = "filling" THEN 1 ELSE 0)
      /\ OpenSL!Calling' = (IF callback' = "app" THEN 1 ELSE 0) + (IF app' = "filling" THEN 1 ELSE 0)
  BY DEF OpenSL!Calling, OpenSL!One
<1>. USE <1>0
<1>1. CASE OpenSL!OpenEngine
  BY <1>1, SMT DEF OpenSL!OpenEngine, OpenSL!EngineOpens, OpenSL!Output
<1>2. CASE OpenSL!OpenMixer
  BY <1>2, SMT DEF OpenSL!OpenMixer, OpenSL!MixerOpens
<1>3. CASE OpenSL!Create
  BY <1>3, SMT DEF OpenSL!Create, Promised!Next, Promised!Move
<1>4. CASE OpenSL!RequestStop
  BY <1>4, SMT DEF OpenSL!RequestStop, OpenSL!RequestStop_l, OpenSL!Output, Promised!Next, Promised!Move
<1>5. CASE OpenSL!RequestPause
  BY <1>5, SMT DEF OpenSL!RequestPause, OpenSL!Output, Promised!Next, Promised!Move
<1>6. CASE OpenSL!RequestFlush
  BY <1>6, SMT DEF OpenSL!RequestFlush, OpenSL!Output
<1>7. CASE OpenSL!RequestStart
  <2>1. /\ app = "idle" /\ app' = "starting"
        /\ mState \notin {"Closed", "Disconnected"} /\ mState' = "Starting" /\ enabled' = TRUE
        /\ UNCHANGED <<callback, gone, told, joins>>
    BY <1>7 DEF OpenSL!RequestStart
  <2>2. OpenSL!Calling' = OpenSL!Calling
    BY <2>1
  <2>3. Promised!Start
    BY <2>1, <2>2 DEF Promised!Start
  <2>. QED
    BY <2>3 DEF Promised!Next
<1>8. CASE OpenSL!Prime
  BY <1>8, SMT DEF OpenSL!Prime, OpenSL!NeedsFirst, OpenSL!Refused, OpenSL!Output, Promised!Next, Promised!Call
<1>9. CASE OpenSL!Fill
  <2>1. enabled' \in BOOLEAN
    BY <1>9 DEF OpenSL!Fill, OpenSL!SetEnabled
  <2>2. /\ app = "filling" /\ app' \in {"play", "idle", "hung"}
        /\ mState = "Starting" /\ mState' \in {"Starting", "Open", "Paused", "Stopped"}
        /\ UNCHANGED <<callback, gone, told, joins>>
    BY <1>9, SMT DEF OpenSL!Fill, OpenSL!GiveUpStart
  <2>3. OpenSL!Calling > 0 /\ OpenSL!Calling' = OpenSL!Calling - 1
    BY <2>2, SMT
  <2>4. Promised!Return
    BY <2>1, <2>2, <2>3 DEF Promised!Return
  <2>. QED
    BY <2>4 DEF Promised!Next
<1>10. CASE OpenSL!SetPlayState
  BY <1>10, SMT DEF OpenSL!SetPlayState, Promised!Next, Promised!Move
<1>11. CASE OpenSL!Close
  BY <1>11, SMT DEF OpenSL!Close, OpenSL!Output, Promised!Next, Promised!Move
<1>12. CASE OpenSL!Destroy
  BY <1>12, SMT DEF OpenSL!Destroy
<1>13. CASE OpenSL!OnAfterDestroy
  BY <1>13, SMT DEF OpenSL!OnAfterDestroy
<1>14. CASE OpenSL!CloseEngine
  <2>1. /\ closing = "engine" /\ callback = "idle" /\ app = "close" /\ app' = "idle"
        /\ mState = "Closed" /\ ~gone /\ gone' = TRUE
        /\ UNCHANGED <<callback, enabled, mState, told, joins>>
    BY <1>14 DEF OpenSL!CloseEngine
  <2>2. OpenSL!Calling = 0 /\ OpenSL!Calling' = 0
    BY <2>1, SMT
  <2>3. Promised!Go
    BY <2>1, <2>2 DEF Promised!Go
  <2>. QED
    BY <2>3 DEF Promised!Next
<1>15. CASE OpenSL!BufferDone
  BY <1>15, SMT DEF OpenSL!BufferDone, OpenSL!Refused, Promised!Next, Promised!Call
<1>16. CASE OpenSL!ProcessBuffer
  <2>1. enabled' \in BOOLEAN
    BY <1>16 DEF OpenSL!ProcessBuffer, OpenSL!SetEnabled
  <2>2. /\ callback = "app" /\ callback' \in {"idle", "stop"}
        /\ UNCHANGED <<app, mState, gone, told, joins>>
    BY <1>16, SMT DEF OpenSL!ProcessBuffer
  <2>3. OpenSL!Calling > 0 /\ OpenSL!Calling' = OpenSL!Calling - 1
    BY <2>2, SMT
  <2>4. Promised!Return
    BY <2>1, <2>2, <2>3 DEF Promised!Return
  <2>. QED
    BY <2>4 DEF Promised!Next
<1>17. CASE OpenSL!StopFromCallback
  BY <1>17, SMT DEF OpenSL!StopFromCallback, OpenSL!Unlocked, OpenSL!RequestStop_l, OpenSL!Output, Promised!Next, Promised!Move
<1>18. CASE OpenSL!OtherStream
  BY <1>18, SMT DEF OpenSL!OtherStream
<1>19. CASE OpenSL!NothingToFill
  BY <1>19, SMT DEF OpenSL!NothingToFill, OpenSL!GiveUpStart, Promised!Next, Promised!Move
<1>20. CASE OpenSL!Join
  BY <1>20, SMT DEF OpenSL!Join
<1>. QED
  BY <1>1, <1>2, <1>3, <1>4, <1>5, <1>6, <1>7, <1>8, <1>9, <1>10, <1>11, <1>12, <1>13, <1>14, <1>15, <1>16,
     <1>17, <1>18, <1>19, <1>20
     DEF OpenSL!Next, OpenSL!Opening, OpenSL!Requests, OpenSL!Starting, OpenSL!Closing, OpenSL!DataCallback

-----------------------------------------------------------------------------
LEMMA InitEstablishes ==
  ASSUME Init
  PROVE  /\ StreamInv /\ SharedObjectsCounted
         /\ Promised!Init
<1>. USE DEF Init, AAudio!BaseInit, AAudio!OwnInit, OpenSL!OwnInit
<1>1. StreamInv
  <2>1. enabled \in BOOLEAN /\ gone \in BOOLEAN /\ joins \in BOOLEAN /\ ~gone /\ pointer = TRUE
    OBVIOUS
  <2>2. CASE api = "aaudio"
    <3>1. PointerInv
      BY <2>1 DEF PointerInv
    <3>2. ErrorInv
      BY <2>1 DEF ErrorInv, AAudio!StreamStates
    <3>. QED
      BY <2>1, <2>2, <3>1, <3>2 DEF StreamInv, AAudioInv
  <2>3. CASE api = "opensles"
    <3>1. OpeningInv /\ StartingInv /\ ClosingInv
      BY <2>1 DEF OpeningInv, StartingInv, ClosingInv
    <3>. QED
      BY <2>1, <2>3, <3>1 DEF StreamInv, OpenSLInv
  <2>. QED
    BY <2>2, <2>3
<1>2. SharedObjectsCounted
  <2>1. /\ ~HoldsEngine /\ ~HoldsMixer /\ 0 = 0 + 0
        /\ (0 > 0) = FALSE
    BY SMT DEF HoldsEngine, HoldsMixer
  <2>. QED
    BY <2>1 DEF SharedObjectsCounted, Count
<1>3. Promised!Init
  <2>1. AAudio!Calling = 0 /\ OpenSL!Calling = 0 /\ joins \in BOOLEAN
    BY SMT DEF AAudio!Calling, OpenSL!Calling, OpenSL!One
  <2>2. /\ api = "aaudio" => AAudio!State = "Open"
        /\ api = "opensles" => OpenSL!State = "Uninitialized"
    BY DEF AAudio!State, OpenSL!State
  <2>. QED
    BY <2>1, <2>2 DEF Promised!Init
<1>. QED
  BY <1>1, <1>2, <1>3

LEMMA NextKeeps ==
  ASSUME StreamInv, [Next]_vars
  PROVE  StreamInv' /\ [Promised!Next]_(Promised!vars)
<1>1. CASE api = "aaudio" /\ AAudio!Next /\ UNCHANGED <<api, openslOnly>>
  BY <1>1, AAudioKeeps, AAudioImplements
<1>2. CASE api = "opensles" /\ OpenSL!Next /\ UNCHANGED <<api, aaudioOnly>>
  BY <1>2, OpenSLKeeps, OpenSLImplements
<1>3. CASE UNCHANGED vars
  <2>. USE <1>3 DEF vars, aaudioOnly, openslOnly
  <2>1. StreamInv'
    BY SMT DEF StreamInv, AAudioInv, PointerInv, ErrorInv, OpenSLInv, OpeningInv, StartingInv, ClosingInv,
               AAudio!StreamStates
  <2>2. /\ AAudio!State' = AAudio!State /\ AAudio!Calling' = AAudio!Calling
        /\ OpenSL!State' = OpenSL!State /\ OpenSL!Calling' = OpenSL!Calling
    BY DEF AAudio!State, AAudio!Calling, OpenSL!State, OpenSL!Calling, OpenSL!One
  <2>. QED
    BY <2>1, <2>2 DEF Promised!vars
<1>. QED
  BY <1>1, <1>2, <1>3 DEF Next

LEMMA NextKeepsCounts ==
  ASSUME StreamInv, SharedObjectsCounted, [Next]_vars
  PROVE  SharedObjectsCounted'
<1>1. CASE api = "aaudio" /\ AAudio!Next /\ UNCHANGED <<api, openslOnly>>
  BY <1>1 DEF SharedObjectsCounted
<1>2. CASE api = "opensles" /\ OpenSL!Next /\ UNCHANGED <<api, aaudioOnly>>
  BY <1>2, OpenSLCounts, StuckCounts
<1>3. CASE UNCHANGED vars
  BY <1>3, RestKeepsCounts DEF vars, openslOnly, HoldsEngine, HoldsMixer
<1>. QED
  BY <1>1, <1>2, <1>3 DEF Next

(* The invariant holds always, whatever the constants.                     *)
LEMMA StreamInvariant == Spec => []StreamInv
<1>1. Init => StreamInv
  BY InitEstablishes
<1>2. StreamInv /\ [Next]_vars => StreamInv'
  BY NextKeeps
<1>. QED
  BY <1>1, <1>2, PTL DEF Spec

(* No thread is in a blocking read or write of a stream that is gone, or   *)
(* finds a pointer to it, whether AAudio waits for its callbacks or makes  *)
(* some after the close, and however many errors it reports meanwhile.     *)
THEOREM NobodyUsesClosedAlways == Spec => []NobodyUsesClosed
<1>1. StreamInv => NobodyUsesClosed
  BY SMT DEF StreamInv, AAudioInv, PointerInv, OpenSLInv, OpeningInv, ClosingInv, NobodyUsesClosed
<1>. QED
  BY <1>1, StreamInvariant, PTL

(* The engine and the mixer of OpenSL ES are there as long as a stream has *)
(* need of them and no longer, wherever the opening of a stream fails; a   *)
(* mixer that cannot be created stays counted for the thread that waits    *)
(* for itself, while the other stream still gets and frees its engine.     *)
THEOREM SharedObjectsAreCounted == Spec => []SharedObjectsCounted
<1>1. Init => SharedObjectsCounted
  BY InitEstablishes
<1>2. StreamInv /\ SharedObjectsCounted /\ [Next]_vars => SharedObjectsCounted'
  BY NextKeepsCounts
<1>. QED
  BY <1>1, <1>2, StreamInvariant, PTL DEF Spec

(* A stream of either API keeps what the documentation promises: closed it *)
(* stays closed, it does not call an app that has said Stop, nor one that  *)
(* has closed it if the API waits for its callbacks, and it tells an error *)
(* once and in order.                                                      *)
THEOREM StreamsKeepPromise == Spec => ImplementsStream
<1>1. Init => Promised!Init
  BY InitEstablishes
<1>2. StreamInv /\ [Next]_vars => [Promised!Next]_(Promised!vars)
  BY NextKeeps
<1>. QED
  BY <1>1, <1>2, StreamInvariant, PTL DEF Spec, ImplementsStream, Promised!Spec
=============================================================================
