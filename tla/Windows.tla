------------------------------ MODULE Windows ------------------------------
(***************************************************************************)
(* The drivers on Windows (audio/driver_windows.go): a goroutine tries     *)
(* WASAPI, then WinMM, and if neither has a device the null driver, which  *)
(* mixes and throws away.                                                  *)
(***************************************************************************)
EXTENDS Rendering, SequencesExt

CONSTANTS Capacity,  \* bufferFrames of WASAPI
          Buffers    \* the number of headers of WinMM

VARIABLES backend,   \* the driver that was started
          contents,  \* WinMM: contents[h] is the block in the buffer of header h
          event,     \* WASAPI: sampleReadyEvent is signaled (it resets itself)
          client,    \* "up", or "invalid": its device is gone
          endpoint   \* the default device: the "same" one, "another", or "none"

clientVars == <<event, client, endpoint>>
own == <<backend, contents, clientVars>>
vars == <<shared, own>>

-----------------------------------------------------------------------------
(* The WASAPI driver (audio/driver_wasapi_windows.go): a goroutine fills   *)
(* what is free in the client's buffer each time the device signals an     *)
(* event; now and then it asks whether the default device has changed.     *)
(* After a change, or when the client is invalid, a new client is started, *)
(* and while there is no device samples are mixed and thrown away.         *)
(* A block is a frame.                                                     *)
NewClient == event = FALSE /\ client = "up" /\ endpoint = "same"

(* loopOnRenderThread ends with one of the errors restart deals with, or   *)
(* with any other, which is stored.  The client is stopped.                *)
Restarts == thread' = "restart" /\ UNCHANGED err

WaitForEvent ==
  /\ thread = "wait"
  /\ event
  /\ event' = FALSE
  /\ \/ Works /\ thread' = "write" /\ UNCHANGED err
     \/ Fails /\ Aborts
  /\ UNCHANGED <<next, device, ready, client, endpoint>>

Room == Capacity - Len(device)

(* writeOnRenderThread; then the device may have to be looked at.          *)
Write ==
  /\ thread = "write"
  /\ client = "up"
  /\ Reads(Room)
  /\ device' = device \o Blocks(Room)
  /\ thread' \in {"wait", "poll"}
  /\ UNCHANGED <<err, ready, failures, clientVars>>

FindClientGone ==
  /\ thread = "write"
  /\ client = "invalid"
  /\ Restarts
  /\ UNCHANGED <<next, device, ready, failures, clientVars>>

(* An error of GetCurrentPadding or GetBuffer, when nothing has been       *)
(* mixed, or of ReleaseBuffer, when it has: the device goes during the     *)
(* calls, or it is any other error.                                        *)
FailToWrite ==
  /\ thread = "write"
  /\ client = "up"
  /\ Fails
  /\ Reads(Room) \/ UNCHANGED next
  /\ device' = <<>>
  /\ \/ client' = "invalid" /\ endpoint' \in {"another", "none"} /\ Restarts
     \/ Aborts /\ UNCHANGED <<client, endpoint>>
  /\ UNCHANGED <<ready, event>>

(* isDeviceSwitched: that there is no device is not one of the errors the  *)
(* loop is restarted after.                                                *)
Poll ==
  /\ thread = "poll"
  /\ \/ Works /\ endpoint = "same" /\ thread' = "wait" /\ UNCHANGED err
     \/ Works /\ endpoint = "another" /\ Restarts
     \/ Works /\ endpoint = "none" /\ Aborts
     \/ Fails /\ Aborts
  /\ UNCHANGED <<next, device, ready, clientVars>>

Restart ==
  /\ thread = "restart"
  /\ endpoint # "none"
  /\ \/ Works /\ thread' = "wait" /\ client' = "up" /\ endpoint' = "same" /\ UNCHANGED err
     \/ Fails /\ Aborts /\ UNCHANGED <<client, endpoint>>
  /\ device' = <<>>
  /\ UNCHANGED <<next, ready, event>>

Discard ==
  /\ thread = "restart"
  /\ endpoint = "none"
  /\ next' = (next + 1) % Ids
  /\ UNCHANGED <<device, thread, err, ready, failures, clientVars>>

Render == WaitForEvent \/ Write \/ FindClientGone \/ FailToWrite \/ Poll \/ Restart \/ Discard

(* Each period the device plays something, if it can, and signals.         *)
PlayPeriod ==
  /\ thread \in {"wait", "write", "poll"}
  /\ client = "up"
  /\ ~event \/ device # <<>>
  /\ device' = IF device = <<>> THEN device ELSE Tail(device)
  /\ event' = TRUE
  /\ UNCHANGED <<next, thread, err, ready, failures, client, endpoint>>

(* Devices are plugged in and out.  One that goes takes its client with    *)
(* it, and signals a last time; one that comes may become the default.     *)
Plug ==
  /\ thread \in {"wait", "write", "poll", "restart"}
  /\ \/ Fails
        /\ endpoint' \in {"another", "none"}
        /\ client' = "invalid" /\ event' = TRUE /\ device' = <<>>
     \/ Fails
        /\ endpoint' = "another"
        /\ UNCHANGED <<client, event, device>>
     \/ endpoint = "none" /\ endpoint' = "another" /\ Works
        /\ UNCHANGED <<client, event, device>>
  /\ UNCHANGED <<next, thread, err, ready>>

-----------------------------------------------------------------------------
(* The WinMM driver (audio/driver_winmm_windows.go): a goroutine waits     *)
(* until a header is not queued, mixes a buffer and queues it in the first *)
(* such header that takes it.  The system's callback signals without the   *)
(* lock.  Thread "stranded" waits with nothing queued: no signal will      *)
(* come.  A block fills a header.  Suspend and Resume cannot be called:    *)
(* the context they belong to is not given out.                            *)
Header == 1 .. Buffers
NoBlock == Ids

NoContents == contents = [h \in Header |-> NoBlock]

InHeaders == [i \in DOMAIN device |-> contents[device[i]]]

(* Variant: a header counts as free while the device still plays it. *)
IsQueuedBehind(h) == h \in ToSet(Dropped(device, 1))

IsQueued(h) == h \in ToSet(device)
FreeHeaders == {h \in Header : ~IsQueued(h)}

(* waitUntilHeaderAvailable looks at the headers, and then waits: the      *)
(* device can be done with all of them in between.                         *)
Look ==
  /\ thread = "look"
  /\ thread' = IF err THEN "close" ELSE IF FreeHeaders = {} THEN "looked" ELSE "append"
  /\ UNCHANGED <<next, device, err, ready, failures, contents>>

BeginWait ==
  /\ thread = "looked"
  /\ thread' = IF device = <<>> THEN "stranded" ELSE "asleep"
  /\ UNCHANGED <<next, device, err, ready, failures, contents>>

(* appendBuffers mixes first and writes then: headers that lack memory are *)
(* passed over.                                                            *)
AppendBuffer ==
  /\ thread = "append"
  /\ Reads(1)
  /\ \E h \in FreeHeaders :
       /\ contents' = [contents EXCEPT ![h] = next]
       /\ IF \E g \in FreeHeaders : g < h THEN Fails ELSE Works
       /\ device' = Append(device, h)
  /\ thread' = "look"
  /\ UNCHANGED <<err, ready>>

(* No header takes the block: there is no memory, or no driver for now, or *)
(* another error that ends the driver.                                     *)
LoseBuffer ==
  /\ thread = "append"
  /\ Reads(1)
  /\ Fails
  /\ err' \in BOOLEAN
  /\ \E h \in FreeHeaders : contents' = [contents EXCEPT ![h] = next]
  /\ thread' = "look"
  /\ UNCHANGED <<device, ready>>

CloseLoop ==
  /\ thread = "close"
  /\ thread' = "done"
  /\ UNCHANGED <<next, device, err, ready, failures, contents>>

HeaderLoop == Look \/ BeginWait \/ AppendBuffer \/ LoseBuffer \/ CloseLoop

(* Variant: the signal wakes nobody. *)
SignalNobody == UNCHANGED thread

SignalLoop == thread' = IF thread = "asleep" THEN "look" ELSE thread

(* The device is done with a header: it clears its flag and calls back,    *)
(* whatever the loop does meanwhile.                                       *)
HeaderDone ==
  /\ device # <<>>
  /\ device' = Tail(device)
  /\ SignalLoop
  /\ UNCHANGED <<next, err, ready, failures, contents>>

-----------------------------------------------------------------------------
(* The choice of a driver.                                                 *)
OwnInit == backend = "none" /\ NewClient /\ NoContents

Waiting == IF backend = "winmm" THEN InHeaders ELSE device
Bound == IF backend = "winmm" THEN Buffers ELSE Capacity
Away == backend = "null" \/ (backend = "wasapi" /\ thread = "restart")

(* Without a failure WASAPI is taken; one failure stands for all the calls *)
(* that fail one after the other.  The channel is closed in any case.      *)
Open ==
  /\ thread = "start"
  /\ \/ Works /\ backend' = "wasapi" /\ thread' = "wait" /\ UNCHANGED err
     \/ Fails /\ backend' = "winmm" /\ thread' = "look" /\ UNCHANGED err
     \/ Fails /\ backend' = "null" /\ thread' = "null" /\ UNCHANGED err
     \/ Fails /\ Aborts /\ UNCHANGED backend
  /\ ready' = ready + 1
  /\ UNCHANGED <<next, device, contents, clientVars>>

NullLoop ==
  /\ thread = "null"
  /\ Reads(1)
  /\ UNCHANGED <<device, thread, err, ready, failures, own>>

Thread ==
  \/ Open
  \/ NullLoop
  \/ backend = "wasapi" /\ Render /\ UNCHANGED <<backend, contents>>
  \/ backend = "winmm" /\ HeaderLoop /\ UNCHANGED <<backend, clientVars>>

Device ==
  \/ backend = "wasapi" /\ PlayPeriod /\ UNCHANGED <<backend, contents>>
  \/ backend = "winmm" /\ HeaderDone /\ UNCHANGED <<backend, clientVars>>

Environment == backend = "wasapi" /\ Plug /\ UNCHANGED <<backend, contents>>

(* A buffer that was mixed finds a header to go to.                        *)
HeaderForBuffer == thread = "append" => FreeHeaders # {}
=============================================================================
