------------------------------ MODULE Browser ------------------------------
(***************************************************************************)
(* The browser driver (audio/driver_js.go): an audio worklet asks the page *)
(* for samples by a message, at most one at a time, and the page answers   *)
(* with a buffer; without worklets the page is asked for each buffer.      *)
(* Nothing sounds before the player has touched the page: every event      *)
(* until then asks the browser to resume, and each resume that succeeds    *)
(* calls back.  A block is what the worklet plays at a time.               *)
(***************************************************************************)
EXTENDS Rendering

CONSTANT Answer     \* blocks in one answer of the page (bufferSize_)

VARIABLES worklet,   \* the browser has worklets
          buf,       \* buf_ of the worklet, or outputBuffer of the script processor
          waitRecv,  \* waitRecv_: it has asked and not yet been answered
          requests,  \* messages to the page
          answers,   \* messages to the worklet
          resumes,   \* promises of resume that are not yet fulfilled
          audible    \* the audio context runs

own == <<worklet, buf, waitRecv, requests, answers, resumes, audible>>
vars == <<shared, own>>

OwnInit ==
  /\ worklet \in BOOLEAN
  /\ buf = <<>>
  /\ waitRecv = FALSE
  /\ requests = 0 /\ answers = <<>>
  /\ resumes = 0
  /\ audible = FALSE

(* OneMessage, below: there is at most one answer.                         *)
Waiting == buf \o (IF answers = <<>> THEN <<>> ELSE Head(answers))
Bound == Answer + (Answer - 1) \div 2

-----------------------------------------------------------------------------
(* newContext builds the graph and waits for events of the page.           *)
Open ==
  /\ thread = "start"
  /\ thread' = "page"
  /\ UNCHANGED <<next, device, err, ready, failures, own>>

(* The page's handler of messages mixes and answers.                       *)
OnRequest ==
  /\ requests > 0
  /\ requests' = requests - 1
  /\ Reads(Answer)
  /\ answers' = Append(answers, Blocks(Answer))
  /\ UNCHANGED <<device, thread, err, ready, failures, worklet, buf, waitRecv, resumes, audible>>

(* Variant: onResumeSuccess is left in place. *)
StillThere == TRUE

(* onResumeSuccess has not been released.                                  *)
NotReleased == ready = 0

(* resume succeeded: the context runs, and the callback, the first time,   *)
(* closes the channel.                                                     *)
OnResumeSuccess ==
  /\ resumes > 0
  /\ resumes' = resumes - 1
  /\ audible' = TRUE
  /\ ready' = IF NotReleased THEN ready + 1 ELSE ready
  /\ UNCHANGED <<next, device, thread, err, failures, worklet, buf, waitRecv, requests, answers>>

(* onaudioprocess of the script processor fills the buffer it is given.    *)
OnAudioProcess ==
  /\ ~worklet /\ audible
  /\ buf = <<>>
  /\ buf' = Blocks(Answer)
  /\ Reads(Answer)
  /\ UNCHANGED <<device, thread, err, ready, failures, worklet, waitRecv, requests, answers, resumes, audible>>

Thread == Open \/ OnRequest \/ OnResumeSuccess \/ OnAudioProcess

(* A message to the page, unless one is under way.                         *)
Asks ==
  IF waitRecv THEN UNCHANGED <<requests, waitRecv>>
              ELSE requests' = requests + 1 /\ waitRecv' = TRUE

(* process: silence while there is too little, else the next block; less   *)
(* than half a buffer is reason to ask.                                    *)
Process ==
  /\ worklet /\ audible
  /\ IF 2 * Len(buf) < Answer THEN Asks ELSE UNCHANGED <<requests, waitRecv>>
  /\ buf' = Dropped(buf, 1)
  /\ UNCHANGED <<shared, worklet, answers, resumes, audible>>

OnAnswer ==
  /\ answers # <<>>
  /\ buf' = buf \o Head(answers)
  /\ answers' = Tail(answers)
  /\ waitRecv' = FALSE
  /\ UNCHANGED <<shared, worklet, requests, resumes, audible>>

(* The browser plays what the script processor was given.                  *)
PlayBuffer ==
  /\ ~worklet /\ audible
  /\ buf # <<>>
  /\ buf' = <<>>
  /\ UNCHANGED <<shared, worklet, waitRecv, requests, answers, resumes, audible>>

Device == Process \/ OnAnswer \/ PlayBuffer

(* touchend, keyup or mouseup; a touch fires more than one of them.        *)
OnEventFired ==
  /\ thread = "page"
  /\ ready = 0
  /\ resumes < 2
  /\ resumes' = resumes + 1
  /\ UNCHANGED <<shared, worklet, buf, waitRecv, requests, answers, audible>>

Environment == OnEventFired

(* The worklet waits exactly while a message is under way, and there is    *)
(* never more than one.                                                    *)
OneMessage == requests + Len(answers) = (IF waitRecv THEN 1 ELSE 0)
=============================================================================
