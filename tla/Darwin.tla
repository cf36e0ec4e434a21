------------------------------- MODULE Darwin -------------------------------
(***************************************************************************)
(* The macOS and iOS driver (audio/driver_darwin.go): a goroutine fills    *)
(* the buffers of an audio queue; render, called by the queue, gives back  *)
(* the buffers that were played; on macOS notifications of sleep and wake  *)
(* ask for a pause or for going on.  One lock guards it all, and is held   *)
(* while starting the queue again is retried.  A block fills a buffer.     *)
(***************************************************************************)
EXTENDS Rendering, SequencesExt

CONSTANTS Buffers,    \* bufferCount
          Retries,    \* how often starting the queue is retried
          MaxNotices  \* bound on the notifications of a behaviour

VARIABLES contents, \* contents[b]: the block in buffer b
          unqueued, \* unqueuedBuffers
          toPause, toResume,
          running,  \* the queue plays
          retries,  \* retryCount
          request,  \* history: the last notification that was not refused
          notices   \* how many notifications there were

own == <<contents, unqueued, toPause, toResume, running, retries, request, notices>>
vars == <<shared, own>>

Buffer == 1 .. Buffers
NoBlock == Ids

OwnInit ==
  /\ contents = [b \in Buffer |-> NoBlock]
  /\ unqueued = [b \in Buffer |-> b]
  /\ toPause = FALSE /\ toResume = FALSE
  /\ running = FALSE
  /\ retries = 0
  /\ request = "none"
  /\ notices = 0

Waiting == [i \in DOMAIN device |-> contents[device[i]]]
Bound == Buffers

LockFree == thread # "resuming"
Signal == thread' = IF thread = "asleep" THEN "wait" ELSE thread

-----------------------------------------------------------------------------
(* The goroutine of newContext: some errors of AudioQueueStart are tried   *)
(* again; the channel is closed once, here or by the deferred function.    *)
Start ==
  /\ thread = "start"
  /\ \/ Works /\ running' = TRUE /\ thread' = "wait" /\ ready' = ready + 1
        /\ retries' = 0 /\ UNCHANGED err
     \/ Fails /\ retries < Retries /\ retries' = retries + 1
        /\ UNCHANGED <<running, thread, ready, err>>
     \/ Fails /\ Aborts /\ ready' = ready + 1 /\ UNCHANGED <<running, retries>>
  /\ UNCHANGED <<next, device, contents, unqueued, toPause, toResume, request, notices>>

MustWait == unqueued = <<>> /\ ~err /\ ~toPause /\ ~toResume

Wait ==
  /\ thread = "wait"
  /\ thread' = IF MustWait THEN "asleep" ELSE IF err THEN "done" ELSE "append"
  /\ UNCHANGED <<next, device, err, ready, failures, own>>

Pause ==
  /\ thread = "append"
  /\ ~err /\ toPause
  /\ \/ Works /\ running' = FALSE /\ UNCHANGED err
     \/ Fails /\ err' = TRUE /\ UNCHANGED running
  /\ toPause' = FALSE
  /\ thread' = "wait"
  /\ UNCHANGED <<next, device, ready, contents, unqueued, toResume, retries, request, notices>>

BeginResume ==
  /\ thread = "append"
  /\ ~err /\ ~toPause /\ toResume
  /\ retries' = 0
  /\ thread' = "resuming"
  /\ UNCHANGED <<next, device, err, ready, failures, contents, unqueued, toPause, toResume, running, request, notices>>

(* AudioQueueStart within resume: done, tried again a number of times,     *)
(* tried again without counting while Siri records, or given up.           *)
TryResume ==
  /\ thread = "resuming"
  /\ \/ Works /\ running' = TRUE /\ UNCHANGED err
        /\ toResume' = FALSE /\ thread' = "wait" /\ UNCHANGED retries
     \/ Fails /\ retries < Retries /\ retries' = retries + 1
        /\ UNCHANGED <<running, err, toResume, thread>>
     \/ Fails /\ UNCHANGED <<running, err, toResume, thread, retries>>
     \/ Fails /\ err' = TRUE /\ toResume' = FALSE /\ thread' = "wait"
        /\ UNCHANGED <<running, retries>>
  /\ UNCHANGED <<next, device, ready, contents, unqueued, toPause, request, notices>>

(* The first free buffer is filled and enqueued.  The code indexes the     *)
(* slice without looking at its length.                                    *)
FillBuffer ==
  /\ thread = "append"
  /\ ~err /\ ~toPause /\ ~toResume
  /\ unqueued # <<>>
  /\ unqueued' = Tail(unqueued)
  /\ Reads(1)
  /\ contents' = [contents EXCEPT ![Head(unqueued)] = next]
  /\ \/ Works /\ device' = Append(device, Head(unqueued)) /\ UNCHANGED err
     \/ Fails /\ err' = TRUE /\ UNCHANGED device
  /\ thread' = "wait"
  /\ UNCHANGED <<ready, toPause, toResume, running, retries, request, notices>>

Thread == Start \/ Wait \/ Pause \/ BeginResume \/ TryResume \/ FillBuffer

(* The queue has played a buffer and calls render.                         *)
Device ==
  /\ running /\ LockFree
  /\ device # <<>>
  /\ device' = Tail(device)
  /\ unqueued' = Append(unqueued, Head(device))
  /\ Signal
  /\ UNCHANGED <<next, err, ready, failures, contents, toPause, toResume, running, retries, request, notices>>

(* The handler is set before the queue is started.                         *)
Notified ==
  /\ thread \notin {"off", "done"} /\ LockFree /\ ~err
  /\ notices < MaxNotices
  /\ notices' = notices + 1

(* Variant: a pause does not take back the request to go on before it. *)
KeepResume == UNCHANGED toResume

TakeBackResume == toResume' = FALSE

Suspend ==
  /\ Notified
  /\ toPause' = TRUE /\ TakeBackResume
  /\ request' = "pause"
  /\ Signal
  /\ UNCHANGED <<next, device, err, ready, failures, contents, unqueued, running, retries>>

Resume ==
  /\ Notified
  /\ toPause' = FALSE /\ toResume' = TRUE
  /\ request' = "resume"
  /\ Signal
  /\ UNCHANGED <<next, device, err, ready, failures, contents, unqueued, running, retries>>

Environment == Suspend \/ Resume

(* A thread about to look into the slice of free buffers finds one there.  *)
SomethingToAppend ==
  thread = "append" => err \/ toPause \/ toResume \/ unqueued # <<>>

(* Every buffer is either free or in the queue, once, unless the queue     *)
(* refused it and the driver has ended.                                    *)
BuffersKept ==
  LET all == unqueued \o device
  IN  IsInjective(all) /\ (err \/ ToSet(all) = Buffer)

(* The queue is as the last notification asked for.                        *)
AsRequested == running = (request # "pause")
=============================================================================
