------------------------------- MODULE Opening -------------------------------
(***************************************************************************)
(* AudioStreamBuilder::openStreamInternal, and what it asks of             *)
(* QuirksManager, of the open of a stream of either API, and of the flow   *)
(* graph of a FilterAudioStream.  A builder is a record; the workarounds   *)
(* are enabled.                                                            *)
(***************************************************************************)
EXTENDS Naturals

CONSTANTS Phones,       \* [sdk |-> version of Android, chip |-> what the quirks are about]
          Rates,        \* sample rates an app asks for
          FrameCounts,  \* sizes of a callback an app asks for
          NativeRate, NativeBurst,
          L, M, O, O_MR1, P, R \* __ANDROID_API_*__

Unspecified == 0
NoStream == [api |-> "none"]

VARIABLES phone, policy,   \* the policy of AAudio for MMAP: "never", "auto" or "always"
          wasEnabled,      \* whether it was enabled when the app called
          request,         \* the builder of the app
          builder,         \* the builder at work, which may be childBuilder
          level,           \* "parent", or "child" in the call for the child
          step,
          disabled,        \* wasMMapTemporarilyDisabled
          stream,          \* the stream under way or handed out
          child,           \* the stream below a FilterAudioStream
          result

vars == <<phone, policy, wasEnabled, request, builder, level, step, disabled, stream, child, result>>

Formats == {"Unspecified", "Float", "I16", "I24", "IEC61937", "Invalid"}
Presets == {"VoiceRecognition", "VoiceCommunication", "Camcorder"}

Requests ==
  [direction : {"output", "input"}, api : {"Unspecified", "AAudio", "OpenSLES"},
   lowLatency : BOOLEAN, callback : BOOLEAN, frames : FrameCounts, format : Formats,
   channels : 0..2, rate : Rates, converts : BOOLEAN, resamples : BOOLEAN, preset : Presets]

Init(requests) ==
  /\ phone \in Phones /\ request \in requests
  /\ policy \in (IF phone.sdk < O_MR1 THEN {"never"} ELSE {"never", "auto", "always"})
  /\ wasEnabled = (policy # "never")
  /\ builder = request
  /\ level = "parent" /\ step = "called"
  /\ disabled = FALSE
  /\ stream = NoStream /\ child = NoStream
  /\ result = "pending"

-----------------------------------------------------------------------------
(* Which API.                                                              *)
AAudioSupported == phone.sdk >= O
AAudioRecommended == phone.sdk >= O_MR1 /\ AAudioSupported

WillUseAAudio(b) ==
  \/ b.api = "AAudio" /\ AAudioSupported
  \/ b.api = "Unspecified" /\ AAudioRecommended

UsesAAudio(b) ==
  \/ AAudioRecommended /\ b.api # "OpenSLES"
  \/ AAudioSupported /\ b.api = "AAudio"

-----------------------------------------------------------------------------
(* QuirksManager::isConversionNeeded, one attribute after the other.       *)
Input(b) == b.direction = "input"

CallbackSizeUnsafe(b) ==
  WillUseAAudio(b) /\ b.callback /\ b.frames # Unspecified /\ phone.sdk =< R

RateLeftToDevice(b) == b.rate # Unspecified /\ b.resamples /\ b.lowLatency

FloatUnsafe(b) ==
  /\ b.format = "Float" /\ b.converts
  /\ IF Input(b)
       THEN b.lowLatency /\ (~WillUseAAudio(b) \/ phone.sdk < P)
       ELSE phone.sdk < L \/ (phone.chip = "vivo" /\ phone.sdk < M)

StereoUnsafe(b) ==
  b.converts /\ b.channels = 2 /\ Input(b) /\ b.lowLatency /\ ~WillUseAAudio(b) /\ phone.sdk = O

(* isAAudioMMapPossible.                                                   *)
Exynos == {"exynos9810", "exynos990", "exynos850"}

MMapPossible(b) ==
  /\ b.lowLatency
  /\ b.rate \in {Unspecified, NativeRate} \/ b.resamples
  /\ phone.chip \in Exynos => b.preset # "Camcorder"

MonoUnsafe(b) ==
  /\ b.channels = 1 /\ Input(b) /\ phone.chip \in {"exynos9810", "exynos850"}
  /\ WillUseAAudio(b) /\ MMapPossible(b)

(* Variant of ChildBuilder: the callback keeps its size. *)
ChildKeepsFrames(b) ==
  IF b.format = "IEC61937" THEN b
  ELSE [b EXCEPT !.rate = IF RateLeftToDevice(b) THEN Unspecified ELSE @,
                 !.format = IF FloatUnsafe(b) THEN "I16" ELSE @,
                 !.channels = IF StereoUnsafe(b) THEN 1 ELSE IF MonoUnsafe(b) THEN 2 ELSE @]

ChildBuilder(b) ==
  IF b.format = "IEC61937" THEN b
  ELSE [b EXCEPT !.frames = IF CallbackSizeUnsafe(b) THEN Unspecified ELSE @,
                 !.rate = IF RateLeftToDevice(b) THEN Unspecified ELSE @,
                 !.format = IF FloatUnsafe(b) THEN "I16" ELSE @,
                 !.channels = IF StereoUnsafe(b) THEN 1 ELSE IF MonoUnsafe(b) THEN 2 ELSE @]

ConversionNeeded(b) ==
  /\ b.format # "IEC61937"
  /\ CallbackSizeUnsafe(b) \/ RateLeftToDevice(b) \/ FloatUnsafe(b) \/ StereoUnsafe(b) \/ MonoUnsafe(b)

(* An Exynos chip here is one with a build that records badly.             *)
MMapSafe(b) ==
  /\ Input(b) /\ phone.chip = "exynos9810" => b.preset = "VoiceCommunication"
  /\ Input(b) => phone.chip # "exynos990"
  /\ phone.chip = "sm8150" => phone.sdk > P

-----------------------------------------------------------------------------
(* openStreamInternal.  A wrong builder is refused; one that needs a       *)
(* conversion has a child opened first, by the same function.              *)
Plan ==
  /\ step = "called"
  /\ IF builder.format = "Invalid"
       THEN step' = "over" /\ result' = "error" /\ UNCHANGED <<builder, level>>
       ELSE /\ builder' = ChildBuilder(builder)
            /\ IF ConversionNeeded(builder)
                 THEN /\ step' = IF level = "parent" THEN "called" ELSE "nested"
                      /\ level' = "child"
                 ELSE step' = "policy" /\ UNCHANGED level
            /\ UNCHANGED result
  /\ UNCHANGED <<phone, policy, wasEnabled, request, disabled, stream, child>>

Enabled == policy # "never"

(* Variant of DisableMMap: MMAP is disabled for the child only. *)
DisableForChild ==
  /\ step = "policy"
  /\ disabled' = (Enabled /\ ~MMapSafe(builder) /\ level = "child")
  /\ policy' = IF disabled' THEN "never" ELSE policy
  /\ step' = "open"
  /\ UNCHANGED <<phone, wasEnabled, request, builder, level, stream, child, result>>

DisableMMap ==
  /\ step = "policy"
  /\ disabled' = (Enabled /\ ~MMapSafe(builder))
  /\ policy' = IF disabled' THEN "never" ELSE policy
  /\ step' = "open"
  /\ UNCHANGED <<phone, wasEnabled, request, builder, level, stream, child, result>>

Or(specified, otherwise) == IF specified = Unspecified THEN otherwise ELSE specified

(* AudioStreamAAudio::open: what was specified is so, or the open fails;   *)
(* the rest is chosen by AAudio and queried.                               *)
OpenedByAAudio(b, format) ==
  /\ format = (IF b.format = "Unspecified" THEN format ELSE b.format)
  /\ stream' = [api |-> "AAudio", format |-> format, channels |-> Or(b.channels, 2),
                rate |-> Or(b.rate, NativeRate), frames |-> b.frames, mmap |-> Enabled]

(* AudioStreamOpenSLES::open with those of the two directions.             *)
DefaultFormat(b) == IF phone.sdk < (IF Input(b) THEN M ELSE L) THEN "I16" ELSE "Float"

OpenedByOpenSL(b) ==
  LET format == IF b.format = "Unspecified" THEN DefaultFormat(b) ELSE b.format
  IN  /\ format \in {"I16", "Float"}
      /\ format = "Float" => DefaultFormat(b) = "Float"
      /\ stream' = [api |-> "OpenSLES", format |-> format, channels |-> Or(b.channels, 2),
                    rate |-> Or(b.rate, NativeRate), frames |-> Or(b.frames, NativeBurst), mmap |-> FALSE]

(* build and open.  A failure deletes the stream.                          *)
OpenNative ==
  /\ step = "open" /\ child = NoStream
  /\ \/ /\ UsesAAudio(builder) /\ \E format \in {"I16", "Float", "I24", "IEC61937"} : OpenedByAAudio(builder, format)
        /\ result' = "OK"
     \/ ~UsesAAudio(builder) /\ OpenedByOpenSL(builder) /\ result' = "OK"
     \/ stream' = NoStream /\ result' = "error"
  /\ step' = "restore"
  /\ UNCHANGED <<phone, policy, wasEnabled, request, builder, level, disabled, child>>

(* A FilterAudioStream has nothing of its own to open.                     *)
OpenFilter ==
  /\ step = "open" /\ child # NoStream
  /\ result' = "OK" /\ step' = "restore"
  /\ UNCHANGED <<phone, policy, wasEnabled, request, builder, level, disabled, stream, child>>

(* What was disabled here is enabled again.                                *)
RestoreMMap ==
  /\ step = "restore"
  /\ policy' = IF disabled THEN "auto" ELSE policy
  /\ disabled' = FALSE
  /\ step' = IF level = "child" /\ result = "OK" THEN "compare" ELSE "over"
  /\ UNCHANGED <<phone, wasEnabled, request, builder, level, stream, child, result>>

-----------------------------------------------------------------------------
Meets(specified, actual) == specified \in {Unspecified, actual}

(* Variant of Compatible: the size of the callback is not compared. *)
CompatibleButFrames ==
  /\ Meets(request.rate, stream.rate) /\ Meets(request.channels, stream.channels)
  /\ request.format \in {"Unspecified", stream.format}

(* isCompatible.                                                           *)
Compatible ==
  /\ Meets(request.rate, stream.rate) /\ Meets(request.channels, stream.channels)
  /\ Meets(request.frames, stream.frames)
  /\ request.format \in {"Unspecified", stream.format}

(* The formats DataConversionFlowGraph::configure has a node for.          *)
Converted == {"Float", "I16", "I24"}

Attributes(parent, below) ==
  [below EXCEPT !.format = IF parent.format = "Unspecified" THEN @ ELSE parent.format,
                !.channels = Or(parent.channels, @),
                !.rate = Or(parent.rate, @),
                !.frames = Or(parent.frames, @)]

(* The child is handed out if it will do, else a filter is put on it.      *)
(* Where that cannot be configured it is closed, and the child with it,    *)
(* and the stream is opened as it was asked for.                           *)
Compare ==
  /\ step = "compare" /\ level = "child"
  /\ level' = "parent"
  /\ \/ Compatible /\ step' = "over" /\ UNCHANGED <<stream, child, builder>>
     \/ /\ ~Compatible
        /\ step' = "policy"
        /\ IF {Attributes(request, stream).format, stream.format} \subseteq Converted
             THEN child' = stream /\ stream' = Attributes(request, stream) /\ UNCHANGED builder
             ELSE stream' = NoStream /\ builder' = request /\ UNCHANGED child
  /\ UNCHANGED <<phone, policy, wasEnabled, request, disabled, result>>

Next == Plan \/ DisableMMap \/ OpenNative \/ OpenFilter \/ RestoreMMap \/ Compare

Over == step = "over"

-----------------------------------------------------------------------------
(* What DataConversionFlowGraph::configure makes of the two streams: which *)
(* way the data goes, the ratio of the rates, and the size of a block.     *)
Kind ==
  IF request.callback THEN (IF Input(request) THEN "record" ELSE "play")
  ELSE (IF Input(request) THEN "read" ELSE "write")

Ratio ==
  LET source == IF Input(request) THEN child.rate ELSE stream.rate
      target == IF Input(request) THEN stream.rate ELSE child.rate
  IN  IF source = target THEN [num |-> 1, den |-> 1] ELSE [num |-> source, den |-> target]

Size == IF Kind = "read" THEN Or(child.frames, NativeBurst) ELSE Or(stream.frames, NativeBurst)

-----------------------------------------------------------------------------
(* Properties.                                                             *)

(* A stream that is opened has what its app has specified, whatever had    *)
(* to be done about the device; who has no stream to show for it has left  *)
(* none open, and a child stream needs no conversion of its own.           *)
OpensOrFails ==
  /\ step # "nested"
  /\ Over =>
       /\ (stream = NoStream) = (result # "OK")
       /\ result # "OK" => child = NoStream
       /\ result = "OK" =>
            /\ Meets(request.rate, stream.rate) /\ Meets(request.channels, stream.channels)
            /\ request.format \in {"Unspecified", stream.format}
            /\ request.callback => Meets(request.frames, stream.frames)

(* No stream is opened with MMAP where that is known not to work, and the  *)
(* app finds MMAP enabled as it was.                                       *)
MMapOnlyWhereSafe ==
  /\ stream # NoStream /\ stream.mmap => MMapSafe(request)
  /\ Over => Enabled = wasEnabled
=============================================================================
