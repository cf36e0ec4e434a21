------------------------------- MODULE OboeData -------------------------------
(***************************************************************************)
(* A stream of Oboe from the call that opens it to the frames that go      *)
(* through it.  Opening decides on the path: a stream of OpenSL ES without *)
(* a callback has a FIFO between the app and the device (Fifo); a          *)
(* FilterAudioStream converts (Conversion), and a blocking one whose child *)
(* is of OpenSL ES writes to the FIFO of the child, or reads from it.      *)
(***************************************************************************)
EXTENDS Fifo, Conversion

CONSTANTS Phones, Rates, FrameCounts, NativeRate, NativeBurst, L, M, O, O_MR1, P, R,
          Asked   \* the builders to look at

VARIABLES path,   \* "opening", then "fifo", "filter" or "filter on fifo"
          \* Opening
          phone, policy, wasEnabled, request, builder, level, step, disabled, stream, child, result

Open == INSTANCE Opening

ASSUME OpeningAssumption ==
  /\ Rates \cup FrameCounts \subseteq Nat
  /\ {NativeRate, NativeBurst} \subseteq Nat \ {0}
  /\ Asked \subseteq Open!Requests

opening == <<phone, policy, wasEnabled, request, builder, level, step, disabled, stream, child, result>>
vars == <<path, opening, fifo, filter>>

NoBuilder == [format |-> "none"]

Init ==
  /\ path = "opening"
  /\ Open!Init(Asked)
  /\ FifoInit /\ output
  /\ AtRest /\ kind = "none" /\ ratio = [num |-> 1, den |-> 1] /\ size = Burst /\ phase = 1

Opens ==
  /\ path = "opening"
  /\ Open!Next
  /\ UNCHANGED <<path, fifo, filter>>

(* The stream is handed out; what was only for opening it is forgotten.    *)
HandOut ==
  /\ path = "opening" /\ step = "over" /\ result = "OK"
  /\ path' = CASE child # Open!NoStream /\ child.api = "OpenSLES" /\ ~request.callback -> "filter on fifo"
               [] child # Open!NoStream -> "filter"
               [] child = Open!NoStream /\ stream.api = "OpenSLES" /\ ~request.callback -> "fifo"
               [] OTHER -> "direct"
  /\ output' = (request.direction = "output")
  /\ IF child # Open!NoStream
       THEN kind' = Open!Kind /\ ratio' = Open!Ratio /\ size' = Open!Size /\ phase' = Open!Ratio.den
       ELSE UNCHANGED <<kind, ratio, size, phase>>
  /\ phone' = [sdk |-> 0, chip |-> "none"] /\ policy' = "never" /\ wasEnabled' = FALSE
  /\ request' = NoBuilder /\ builder' = NoBuilder /\ level' = "parent" /\ step' = "used"
  /\ disabled' = FALSE /\ stream' = Open!NoStream /\ child' = Open!NoStream /\ result' = "OK"
  /\ UNCHANGED <<readCounter, writeCounter, storage, bufferSize, writer, reader, source,
                 transfer, left, time, background, closed,
                 doing, wanted, got, room, pulled, need, given, block, fresh, valid,
                 heard, said, enabled, entered, consumed, produced, delivered, dropped, lost>>

-----------------------------------------------------------------------------
(* A FIFO or a filter on its own.                                          *)
QueueGoes ==
  /\ path = "fifo" /\ FifoNext
  /\ UNCHANGED <<path, opening, filter>>

FilterGoes ==
  /\ path = "filter" /\ FilterNext
  /\ UNCHANGED <<path, opening, fifo>>

(* A filter on a FIFO: its device is the child stream.                     *)
FilterOnFifo ==
  /\ path = "filter on fifo"
  /\ Goes \/ \E n \in Calls : Call(n)
  /\ UNCHANGED <<path, opening, fifo>>

AskedOfChild == IF kind = "write" THEN got ELSE size

CallChild ==
  /\ path = "filter on fifo" /\ doing = "device"
  /\ \E patience \in Patience : Transfer(AskedOfChild, patience)
  /\ UNCHANGED <<path, opening, filter>>

ChildDecides ==
  /\ path = "filter on fifo" /\ Decide
  /\ IF GivesUp THEN Answer(AskedOfChild - left) ELSE UNCHANGED filter
  /\ UNCHANGED <<path, opening>>

ChildGoes ==
  /\ path = "filter on fifo"
  /\ Move \/ Moved \/ Background
  /\ UNCHANGED <<path, opening, filter>>

Next ==
  \/ Opens \/ HandOut
  \/ QueueGoes \/ FilterGoes
  \/ FilterOnFifo \/ CallChild \/ ChildDecides \/ ChildGoes

Spec == Init /\ [][Next]_vars

(* The calls of the app and the callbacks go on.                           *)
FairSpec ==
  /\ Spec
  /\ WF_vars(path = "fifo" /\ CallOfApp /\ UNCHANGED <<path, opening, filter>>)
  /\ WF_vars(path = "filter" /\ (Goes \/ Device) /\ UNCHANGED <<path, opening, fifo>>)
  /\ WF_vars(FilterOnFifo /\ doing # "idle")
  /\ WF_vars(CallChild \/ ChildDecides)
  /\ WF_vars(path = "filter on fifo" /\ (Move \/ Moved) /\ UNCHANGED <<path, opening, filter>>)
  /\ WF_vars(CopyIn /\ UNCHANGED <<path, opening, filter>>)
  /\ WF_vars(CopyOut /\ UNCHANGED <<path, opening, filter>>)
  /\ WF_vars(CallbackReturns /\ UNCHANGED <<path, opening, filter>>)

(* A device that records brings something in the end.                      *)
ChildBrings == (\E n \in Sizes : OnDefaultCallback(n)) /\ writer'.frames > 0

RecordingSpec ==
  /\ FairSpec
  /\ SF_vars(path = "filter" /\ Brings /\ UNCHANGED <<path, opening, fifo>>)
  /\ SF_vars(path = "filter on fifo" /\ ChildBrings /\ UNCHANGED <<path, opening, filter>>)

-----------------------------------------------------------------------------
(* Properties of the parts, for the streams that are really opened.        *)

(* See Opening. *)
OpensOrFails == path = "opening" => Open!OpensOrFails
MMapOnlyWhereSafe == path = "opening" => Open!MMapOnlyWhereSafe

(* A call of a converted stream comes to its end while the stream is open  *)
(* and, if it records, brings frames.                                      *)
CallsEnd == doing # "idle" ~> (doing = "idle" \/ closed)

(* "If timeoutNanoseconds is zero then this call will not wait", and with  *)
(* another timeout it ends when it runs out of time.                       *)
ReadsTimeOut == doing # "idle" /\ kind = "read" ~> doing = "idle"

-----------------------------------------------------------------------------
(***************************************************************************)
(* The phones and builders to look at: every kind of quirk, and requests   *)
(* that differ in what decides on the path.                                *)
(***************************************************************************)
On(version, about) == [sdk |-> version, chip |-> about]
MCPhones ==
  {On(20, "generic"), On(22, "vivo"), On(26, "generic"), On(27, "generic"),
   On(28, "sm8150"), On(30, "exynos9810"), On(31, "exynos850"), On(31, "exynos990")}

MCAsked ==
  {b \in Open!Requests :
     /\ b.format # "I24"
     /\ b.preset # "VoiceRecognition" => b.direction = "input" /\ b.lowLatency /\ b.api # "OpenSLES" /\ b.rate = 0
     /\ ~b.callback => b.frames = 0
     /\ b.preset = "Camcorder" => b.channels = 1
     /\ (b.channels = 0) = (b.format = "Unspecified")
     /\ b.api # "Unspecified" => b.channels # 1 /\ b.lowLatency
     /\ b.format \in {"Invalid", "IEC61937"} => b.rate = 2 /\ b.channels = 2 /\ ~b.callback
     /\ b.converts = b.resamples \/ b.format = "Float"}

MCRatios == {[num |-> 1, den |-> 1], [num |-> 2, den |-> 3], [num |-> 3, den |-> 2]}
=============================================================================
