------------------------------ MODULE Drivers ------------------------------
(***************************************************************************)
(* InitContext (audio/context.go) and the driver it starts, which is the   *)
(* one the program was built with.  The modules of the drivers share the   *)
(* variables that mean the same; those of the others rest.                 *)
(***************************************************************************)
EXTENDS Rendering

CONSTANTS Built,                      \* the drivers to look at
          Frames, MaxAsk,             \* Oboe
          Period, Capacity,           \* ALSA, WASAPI
          Buffers,                    \* WinMM, Darwin
          Retries, MaxNotices,        \* Darwin
          Answer                      \* browser

ASSUME BuiltAssumption == Built \subseteq {"oboe", "alsa", "darwin", "windows", "browser"}

(* Nothing in the code sees to it that callbacks of Oboe are no larger:    *)
(* with larger ones both of its threads wait for ever.                     *)
ASSUME AskAssumption == Frames \in Nat \ {0} /\ MaxAsk \in 1 .. 3 * Frames
ASSUME SizesAssumption ==
  /\ {Period, Capacity, Buffers, Answer} \subseteq Nat \ {0}
  /\ {Retries, MaxNotices} \subseteq Nat

(* Blocks that are mixed at a time have different numbers.                 *)
ASSUME IdsSuffice == {1, 3 * Frames, Period, Capacity, Answer} \subseteq 1 .. Ids - 1

VARIABLES driver,                                    \* the driver in the program
          mux,                                       \* initMux has been called
          rest,                                      \* ALSA
          contents,                                  \* WinMM, Darwin
          unqueued, toPause, toResume, running, retries, request, notices, \* Darwin
          backend, event, client, endpoint,          \* Windows
          buf,                                       \* Oboe, browser
          tmp, ask, consumer,                        \* Oboe
          worklet, waitRecv, requests, answers, resumes, audible      \* browser

Oboe == INSTANCE OboeBinding
ALSA == INSTANCE Alsa
AudioQueue == INSTANCE Darwin
Win == INSTANCE Windows
JS == INSTANCE Browser

alsaOnly == <<rest>>
darwinOnly == <<unqueued, toPause, toResume, running, retries, request, notices>>
windowsOnly == <<backend, event, client, endpoint>>
oboeOnly == <<tmp, ask, consumer>>
browserOnly == <<worklet, waitRecv, requests, answers, resumes, audible>>

context == <<driver, mux>>
vars == <<shared, context, contents, buf, alsaOnly, darwinOnly, windowsOnly, oboeOnly, browserOnly>>

Init ==
  /\ SharedInit
  /\ driver \in Built
  /\ mux = FALSE
  /\ Oboe!OwnInit /\ ALSA!OwnInit /\ AudioQueue!OwnInit /\ Win!OwnInit /\ JS!OwnInit

-----------------------------------------------------------------------------
(* What the drivers that are not in the program, and InitContext, leave    *)
(* alone while one of them takes a step.                                   *)
OthersThanOboe == UNCHANGED <<context, contents, alsaOnly, darwinOnly, windowsOnly, browserOnly>>
OthersThanAlsa == UNCHANGED <<context, contents, buf, darwinOnly, windowsOnly, oboeOnly, browserOnly>>
OthersThanDarwin == UNCHANGED <<context, buf, alsaOnly, windowsOnly, oboeOnly, browserOnly>>
OthersThanWindows == UNCHANGED <<context, buf, alsaOnly, darwinOnly, oboeOnly, browserOnly>>
OthersThanBrowser == UNCHANGED <<context, contents, alsaOnly, darwinOnly, windowsOnly, oboeOnly>>

(* The first call creates the mux and starts the driver, or finds at once  *)
(* that it cannot.                                                         *)
InitContext ==
  /\ ~mux
  /\ mux' = TRUE
  /\ \/ Works /\ thread' = "start"
     \/ driver \in {"darwin", "browser"} /\ Fails /\ thread' = "done"
  /\ UNCHANGED <<next, device, err, ready, driver, contents, buf, alsaOnly, darwinOnly, windowsOnly, oboeOnly, browserOnly>>

(* Any other call finds the mux and returns an error.                      *)
InitContextAgain == mux /\ UNCHANGED vars

Thread ==
  \/ driver = "oboe" /\ Oboe!Thread /\ OthersThanOboe
  \/ driver = "alsa" /\ ALSA!Thread /\ OthersThanAlsa
  \/ driver = "darwin" /\ AudioQueue!Thread /\ OthersThanDarwin
  \/ driver = "windows" /\ Win!Thread /\ OthersThanWindows
  \/ driver = "browser" /\ JS!Thread /\ OthersThanBrowser

Device ==
  \/ driver = "oboe" /\ Oboe!Device /\ OthersThanOboe
  \/ driver = "alsa" /\ ALSA!Device /\ OthersThanAlsa
  \/ driver = "darwin" /\ AudioQueue!Device /\ OthersThanDarwin
  \/ driver = "windows" /\ Win!Device /\ OthersThanWindows
  \/ driver = "browser" /\ JS!Device /\ OthersThanBrowser

Environment ==
  \/ driver = "oboe" /\ Oboe!Environment /\ OthersThanOboe
  \/ driver = "darwin" /\ AudioQueue!Environment /\ OthersThanDarwin
  \/ driver = "windows" /\ Win!Environment /\ OthersThanWindows
  \/ driver = "browser" /\ JS!Environment /\ OthersThanBrowser

Next == InitContext \/ InitContextAgain \/ Thread \/ Device \/ Environment

Spec == Init /\ [][Next]_vars

(* Threads run, and devices play what they are given.                      *)
FairSpec == Spec /\ WF_vars(Thread) /\ WF_vars(Device)

-----------------------------------------------------------------------------
(* Properties.                                                             *)
Waiting ==
  CASE driver = "oboe"    -> Oboe!Waiting
    [] driver = "alsa"    -> ALSA!Waiting
    [] driver = "darwin"  -> AudioQueue!Waiting
    [] driver = "windows" -> Win!Waiting
    [] driver = "browser" -> JS!Waiting

Bound ==
  CASE driver = "oboe"    -> Oboe!Bound
    [] driver = "alsa"    -> ALSA!Bound
    [] driver = "darwin"  -> AudioQueue!Bound
    [] driver = "windows" -> Win!Bound
    [] driver = "browser" -> JS!Bound

Promised == INSTANCE Output WITH waiting <- Waiting, bound <- Bound, away <- driver = "windows" /\ Win!Away

(* Whichever driver runs, what was mixed is heard once and in order, with  *)
(* a bounded delay; samples are lost only to failures of the device.       *)
ImplementsOutput == Promised!Spec

(* What the code of the drivers takes for granted: the ready channel is    *)
(* not closed twice; Darwin has a buffer when it takes one, and loses      *)
(* none; WinMM has a header for what it mixed; the threads of the Oboe     *)
(* binding do not both wait; the worklet has one message under way.        *)
NothingTakenForGranted ==
  /\ ready =< 1
  /\ driver = "darwin" => AudioQueue!SomethingToAppend /\ AudioQueue!BuffersKept
  /\ driver = "windows" /\ backend = "winmm" => Win!HeaderForBuffer
  /\ driver = "oboe" => Oboe!OneIsAwake
  /\ driver = "browser" => JS!OneMessage

Asked == thread \notin {"off", "start"}
Quiet ==
  \/ err \/ thread = "done"
  \/ driver = "windows" /\ thread = "stranded"
  \/ driver = "darwin" /\ ~running
  \/ driver = "browser" /\ ~audible

(* A driver that runs and is not paused keeps asking the mixer for more:   *)
(* no message or event that it needs is lost, and no wakeup but one of     *)
(* WinMM, whose callback signals without the lock: if all headers are done *)
(* between its look at them and its wait, it waits for ever.  A driver     *)
(* ends with the error it stores.  After the last of any sleep and wake    *)
(* notifications the queue is as that one asked, unless it has ended so.   *)
KeepsPlaying ==
  /\ \A b \in 0 .. Ids - 1 : (Asked /\ next = b) ~> (next # b \/ Quiet)
  /\ driver = "darwin" =>
       \A r \in {"pause", "resume"} :
         <>[](request = r) => <>[](AudioQueue!AsRequested \/ err)
=============================================================================
