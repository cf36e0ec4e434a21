------------------------------ MODULE Conversion ------------------------------
(***************************************************************************)
(* The data path of FilterAudioStream: DataConversionFlowGraph with its    *)
(* nodes, the block adapters and the phase of the resampler.  What is      *)
(* "kind" here is which of the four ways of the flow graph is in use:      *)
(* "play" is an output stream with a callback, "write" one without,        *)
(* "record" an input stream with a callback and "read" one without.        *)
(* Frames are counted, not looked at.                                      *)
(***************************************************************************)
EXTENDS Integers

CONSTANTS Kinds,      \* the ways of the flow graph to look at
          Ratios,     \* [num |-> rate of the source, den |-> rate of the sink]
          Blocks,     \* frames of a callback of the app, or of a read from the device
          Chunk,      \* kDefaultBufferSize
          ChildBurst, \* getFramesPerBurst() of the child stream
          Calls,      \* numbers of frames a call of the app or the device is about
          MaxEntered  \* the bound on the frames to convert

ASSUME RatiosAssumption == \A r \in Ratios : r.num \in Nat \ {0} /\ r.den \in Nat \ {0}
ASSUME BlocksAssumption ==
  /\ Blocks \cup Calls \subseteq Nat \ {0}
  /\ Chunk \in Nat \ {0} /\ ChildBurst \in Nat \ {0} /\ MaxEntered \in Nat

VARIABLES kind, ratio, size,  \* as configured
          doing,              \* where the call is
          wanted, got,        \* frames the sink is to read, and has read
          room, pulled,       \* frames the present pull has room for, and has brought
          need,               \* frames the source has still to bring
          given,              \* frames of setData that are left
          block,              \* frames in the storage of the block adapter
          fresh,              \* frames the block writer has still to place
          phase, valid,       \* mIntegerPhase; frames in the input of the rate converter
          heard,              \* mCallbackResult
          said,               \* the last answer of the app since the stream was started
          enabled,            \* the device goes on calling
          entered, consumed, produced, delivered,
          dropped, lost       \* frames that a failure cost before the conversion, and after it

pipe == <<kind, ratio, size>>
sink == <<wanted, got, room, pulled>>
adapter == <<given, block, fresh>>
resampler == <<phase, valid>>
answers == <<heard, said, enabled>>
counts == <<entered, consumed, produced, delivered, dropped, lost>>
filter == <<pipe, doing, sink, need, adapter, resampler, answers, counts>>

Configured(k, r, s) ==
  /\ kind = k /\ ratio = r /\ size = s
  /\ phase = r.den   \* a frame is needed first

AtRest ==
  /\ doing = "idle"
  /\ wanted = 0 /\ got = 0 /\ room = 0 /\ pulled = 0 /\ need = 0
  /\ given = 0 /\ block = 0 /\ fresh = 0 /\ valid = 0
  /\ heard = "Continue" /\ said = "nothing" /\ enabled = TRUE
  /\ entered = 0 /\ consumed = 0 /\ produced = 0 /\ delivered = 0
  /\ dropped = 0 /\ lost = 0

FilterInit == AtRest /\ \E k \in Kinds, r \in Ratios, s \in Blocks : Configured(k, r, s)

Smaller(a, b) == IF a =< b THEN a ELSE b

Resamples == ratio.num # ratio.den
WithCallback == kind \in {"play", "record"}
Buffered == kind \in {"write", "record"}   \* the source is given its data

-----------------------------------------------------------------------------
(* A call of FilterAudioStream: write or read of the app, onAudioReady of  *)
(* the device.                                                             *)
Call(n) ==
  /\ doing = "idle"
  /\ WithCallback => enabled
  /\ entered + n =< MaxEntered   \* the bound
  /\ doing' = "sink" /\ got' = 0
  /\ wanted' = CASE kind = "write" -> ChildBurst [] kind = "record" -> Chunk [] OTHER -> n
  /\ given' = IF Buffered THEN n ELSE 0
  /\ entered' = IF Buffered THEN entered + n ELSE entered
  /\ dropped' = IF Buffered THEN dropped + given ELSE dropped
  /\ UNCHANGED <<pipe, room, pulled, need, block, fresh, resampler, answers, consumed, produced, delivered, lost>>

(* The app starts the stream again.                                        *)
Restart ==
  /\ doing = "idle" /\ ~enabled
  /\ enabled' = TRUE /\ said' = "nothing"
  /\ UNCHANGED <<pipe, doing, sink, need, adapter, resampler, heard, counts>>

-----------------------------------------------------------------------------
(* read of the sink pulls until it has what it wants, or nothing comes.    *)
Pull ==
  /\ doing = "sink"
  /\ room' = Smaller(Chunk, wanted - got) /\ pulled' = 0
  /\ IF Resamples THEN doing' = "convert" /\ UNCHANGED need ELSE doing' = "source" /\ need' = room'
  /\ UNCHANGED <<pipe, wanted, got, adapter, resampler, answers, counts>>

(* Variant of Pulled: a source that has run out is asked again. *)
PulledUntilFull(r) ==
  /\ got' = got + r
  /\ doing' = IF got + r = wanted THEN "done" ELSE "sink"

Pulled(r) ==
  /\ got' = got + r
  /\ doing' = IF r = 0 \/ got + r = wanted THEN "done" ELSE "sink"

(* SampleRateConverter.                                                    *)
(* Variant of Emit: the phase starts anew with every pull. *)
EmitInPull ==
  /\ doing = "convert" /\ room > 0 /\ phase < ratio.den
  /\ phase' = IF room = 1 THEN ratio.den ELSE phase + ratio.num
  /\ room' = room - 1 /\ pulled' = pulled + 1 /\ produced' = produced + 1
  /\ UNCHANGED <<pipe, doing, wanted, got, need, adapter, valid, answers, entered, consumed, delivered, dropped, lost>>

Emit ==
  /\ doing = "convert" /\ room > 0 /\ phase < ratio.den
  /\ phase' = phase + ratio.num
  /\ room' = room - 1 /\ pulled' = pulled + 1 /\ produced' = produced + 1
  /\ UNCHANGED <<pipe, doing, wanted, got, need, adapter, valid, answers, entered, consumed, delivered, dropped, lost>>

Feed ==
  /\ doing = "convert" /\ room > 0 /\ phase >= ratio.den /\ valid > 0
  /\ phase' = phase - ratio.den
  /\ valid' = valid - 1 /\ consumed' = consumed + 1
  /\ UNCHANGED <<pipe, doing, sink, need, adapter, answers, entered, produced, delivered, dropped, lost>>

Fetch ==
  /\ doing = "convert" /\ room > 0 /\ phase >= ratio.den /\ valid = 0
  /\ doing' = "source" /\ need' = Chunk
  /\ UNCHANGED <<pipe, sink, adapter, resampler, answers, counts>>

Converted ==
  /\ doing = "convert" /\ room = 0
  /\ Pulled(pulled)
  /\ UNCHANGED <<pipe, wanted, room, pulled, need, adapter, resampler, answers, counts>>

-----------------------------------------------------------------------------
(* The source, asked for as many frames as a pull is for.                  *)
Ask == IF Resamples THEN Chunk ELSE room

Supplied(r) ==
  /\ need' = 0
  /\ IF Resamples
       THEN /\ valid' = r
            /\ IF r = 0 THEN Pulled(pulled) ELSE doing' = "convert" /\ UNCHANGED got
            /\ UNCHANGED produced
       ELSE Pulled(r) /\ produced' = produced + r /\ UNCHANGED valid

(* FlowGraphSourceBuffered gives what setData gave it.                     *)
FromBuffer ==
  /\ doing = "source" /\ Buffered
  /\ given' = given - Smaller(need, given)
  /\ Supplied(Smaller(need, given))
  /\ UNCHANGED <<pipe, wanted, room, pulled, block, fresh, phase, answers, entered, consumed, delivered, dropped, lost>>

(* FixedBlockReader::read.                                                 *)
ReadStorage ==
  /\ doing = "source" /\ ~Buffered /\ need > 0 /\ block > 0
  /\ need' = need - Smaller(need, block)
  /\ block' = block - Smaller(need, block)
  /\ UNCHANGED <<pipe, doing, sink, given, fresh, resampler, answers, counts>>

AskForBlock ==
  /\ doing = "source" /\ ~Buffered /\ need > 0 /\ block = 0
  /\ doing' = IF kind = "play" THEN "app" ELSE "device"
  /\ UNCHANGED <<pipe, sink, need, adapter, resampler, answers, counts>>

ReadAll ==
  /\ doing = "source" /\ ~Buffered /\ need = 0
  /\ Supplied(Ask)
  /\ UNCHANGED <<pipe, wanted, room, pulled, adapter, phase, answers, entered, consumed, delivered, dropped, lost>>

(* A whole block is read through, a part of one by way of the storage.     *)
Through == need >= size

Block(b) ==
  /\ entered' = entered + b
  /\ IF Through
       THEN need' = need - b /\ doing' = "source" /\ UNCHANGED <<block, valid, got, produced>>
       ELSE /\ block' = b
            /\ IF b = 0 THEN Supplied(Ask - need)
                        ELSE doing' = "source" /\ UNCHANGED <<need, valid, got, produced>>
  /\ UNCHANGED dropped

(* What was read before goes with the failure.                             *)
NoBlock ==
  /\ dropped' = dropped + (Ask - need)
  /\ Supplied(0)
  /\ UNCHANGED <<block, entered>>

(* AudioSourceCaller: the app is called, or the device read.               *)
CallApp ==
  /\ doing = "app" /\ kind = "play"
  /\ \E result \in {"Continue", "Stop"} :
       /\ said' = result
       /\ IF result = "Continue" THEN Block(size) ELSE NoBlock
  /\ UNCHANGED <<pipe, wanted, room, pulled, given, fresh, phase, heard, enabled, consumed, delivered, lost>>

ReadDevice(j) ==
  /\ doing = "device" /\ kind = "read"
  /\ j =< size
  /\ Block(j)
  /\ UNCHANGED <<pipe, wanted, room, pulled, given, fresh, phase, answers, consumed, delivered, lost>>

ReadFails ==
  /\ doing = "device" /\ kind = "read"
  /\ NoBlock
  /\ UNCHANGED <<pipe, wanted, room, pulled, given, fresh, phase, answers, consumed, delivered, lost>>

-----------------------------------------------------------------------------
(* What becomes of the frames the sink has read.                           *)
(* Variant of EndPlay: the device is told to stop when there is nothing.   *)
EndPlayUnlessEmpty ==
  /\ doing = "done" /\ kind = "play"
  /\ delivered' = delivered + got
  /\ enabled' = (got > 0 /\ heard = "Continue")
  /\ doing' = "idle"
  /\ UNCHANGED <<pipe, sink, need, adapter, resampler, heard, said, entered, consumed, produced, dropped, lost>>

(* onAudioReady, output: too few frames stop the stream.                   *)
EndPlay ==
  /\ doing = "done" /\ kind = "play"
  /\ delivered' = delivered + got
  /\ enabled' = (got = wanted /\ heard = "Continue")
  /\ doing' = "idle"
  /\ UNCHANGED <<pipe, sink, need, adapter, resampler, heard, said, entered, consumed, produced, dropped, lost>>

EndReading ==
  /\ doing = "done" /\ kind = "read"
  /\ delivered' = delivered + got
  /\ doing' = "idle"
  /\ UNCHANGED <<pipe, sink, need, adapter, resampler, answers, entered, consumed, produced, dropped, lost>>

(* write: until the sink has nothing left, the device is given what it     *)
(* read; what it does not take in time is lost.                            *)
EndWriting ==
  /\ doing = "done" /\ kind = "write"
  /\ doing' = IF got = 0 THEN "idle" ELSE "device"
  /\ UNCHANGED <<pipe, sink, need, adapter, resampler, answers, counts>>

WriteDevice(j) ==
  /\ doing = "device" /\ kind = "write"
  /\ j =< got
  /\ delivered' = delivered + j /\ lost' = lost + (got - j)
  /\ got' = 0 /\ doing' = "sink"
  /\ UNCHANGED <<pipe, wanted, room, pulled, need, adapter, resampler, answers, entered, consumed, produced, dropped>>

WriteFails ==
  /\ doing = "device" /\ kind = "write"
  /\ lost' = lost + got
  /\ got' = 0 /\ doing' = "idle"
  /\ UNCHANGED <<pipe, wanted, room, pulled, need, adapter, resampler, answers, entered, consumed, produced, delivered, dropped>>

(* DataConversionFlowGraph::write of an input stream with a callback: the  *)
(* block writer is given chunk after chunk.                                *)
EndRecord ==
  /\ doing = "done" /\ kind = "record"
  /\ IF got = 0
       THEN doing' = "idle" /\ enabled' = (heard = "Continue") /\ UNCHANGED fresh
       ELSE doing' = (IF block > 0 THEN "add" ELSE "store") /\ fresh' = got /\ UNCHANGED enabled
  /\ got' = 0
  /\ UNCHANGED <<pipe, wanted, room, pulled, need, given, block, resampler, heard, said, counts>>

(* Variant of AddToBlock: a block in the storage makes way for a new one.  *)
AddToNewBlock ==
  /\ doing = "add"
  /\ block' = Smaller(fresh, size)
  /\ fresh' = fresh - Smaller(fresh, size)
  /\ doing' = IF block' = size THEN "flush" ELSE "sink"
  /\ UNCHANGED <<pipe, sink, need, given, resampler, answers, counts>>

(* FixedBlockWriter::write.                                                *)
AddToBlock ==
  /\ doing = "add"
  /\ block' = block + Smaller(fresh, size - block)
  /\ fresh' = fresh - Smaller(fresh, size - block)
  /\ doing' = IF block' = size THEN "flush" ELSE "sink"
  /\ UNCHANGED <<pipe, sink, need, given, resampler, answers, counts>>

StoreBlock ==
  /\ doing = "store"
  /\ IF fresh > size
       THEN doing' = "app" /\ UNCHANGED <<block, fresh>>
       ELSE doing' = "sink" /\ block' = fresh /\ fresh' = 0
  /\ UNCHANGED <<pipe, sink, need, given, resampler, answers, counts>>

(* onProcessFixedBlock; the answer is kept for the device.                 *)
GiveApp ==
  /\ \/ doing = "flush" /\ block' = 0 /\ UNCHANGED fresh
     \/ doing = "app" /\ kind = "record" /\ fresh' = fresh - size /\ UNCHANGED block
  /\ heard' \in {"Continue", "Stop"} /\ said' = heard'
  /\ delivered' = delivered + size
  /\ doing' = "store"
  /\ UNCHANGED <<pipe, sink, need, given, resampler, enabled, entered, consumed, produced, dropped, lost>>

-----------------------------------------------------------------------------
Source == FromBuffer \/ ReadStorage \/ AskForBlock \/ ReadAll
Resampler == Emit \/ Feed \/ Fetch \/ Converted
Adapter == AddToBlock \/ StoreBlock
Ends == EndPlay \/ EndReading \/ EndWriting \/ EndRecord
App == CallApp \/ GiveApp
Goes == Pull \/ Source \/ Resampler \/ Adapter \/ Ends \/ App

Answer(j) == ReadDevice(j) \/ WriteDevice(j)
Fails == ReadFails \/ WriteFails
Device == Fails \/ \E j \in 0..MaxEntered : Answer(j)
Brings == \E j \in 1..MaxEntered : ReadDevice(j)

FilterNext == (\E n \in Calls : Call(n)) \/ Restart \/ Goes \/ Device

FilterSpec == FilterInit /\ [][FilterNext]_filter

-----------------------------------------------------------------------------
(* Properties.                                                             *)

(* The resampler does not drift, over any number of calls, chunks and      *)
(* blocks: after p frames it has used those up to the place p is at in the *)
(* source, and no further.                                                 *)
InStep ==
  Resamples =>
    LET behind == ratio.den + ratio.num * produced - ratio.den * consumed
    IN  0 =< behind /\ behind < ratio.den + ratio.num

(* Every frame that came in is still on its way, has gone out, or was with *)
(* a call of the app or device that failed; none is counted twice.         *)
Pulling == doing \in {"convert", "source"} \/ (~Buffered /\ doing \in {"app", "device"})
OnTheWayIn ==
  given + (IF Resamples THEN valid ELSE 0) + (IF kind = "record" THEN 0 ELSE block)
    + (IF Pulling /\ ~Buffered /\ doing # "convert" THEN Ask - need ELSE 0)
Used == IF Resamples THEN consumed ELSE produced
OnTheWayOut ==
  fresh + (IF doing = "idle" THEN 0 ELSE got) + (IF kind = "record" THEN block ELSE 0)
    + (IF Pulling /\ Resamples THEN pulled ELSE 0)

NothingLost ==
  /\ entered = Used + OnTheWayIn + dropped
  /\ produced = delivered + OnTheWayOut + lost

(* The last word of the app reaches the device: after Stop it does not     *)
(* call again, and an output stream goes on until the app says Stop.       *)
AppDecides ==
  doing = "idle" /\ WithCallback =>
    /\ said = "Stop" => ~enabled
    /\ kind = "play" /\ ~enabled => said = "Stop"

(* "callbacks should stop immediately": an app that has said Stop is not   *)
(* called again before it starts the stream.                               *)
StopsImmediately == ~(said = "Stop" /\ doing \in {"app", "flush"})

=============================================================================
