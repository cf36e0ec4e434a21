----------------------------- MODULE OboeClients -----------------------------
(***************************************************************************)
(* What stands beside and inside a stream of Oboe, one part at a time: two *)
(* streams that run as one, the tuner of a stream's latency, the position  *)
(* of a stream of OpenSL ES, the performance hints of one of AAudio, a     *)
(* callback of even length, the resampler of a filter, the graph its       *)
(* frames are pulled through and what its nodes do to samples, and the     *)
(* loader of AAudio.  The parts have no state in common; those that do not *)
(* run rest.                                                               *)
(***************************************************************************)
EXTENDS Integers, Sequences

CONSTANTS Parts, \* of {"duplex", "tuner", "place", "hint", "even", "resampler", "samples", "graph", "ramp", "loader"}
          CallbacksToDrain, CallbacksToDiscard, Cushions, Minimums, InputCapacity, Jitter, MaxStarts,
          IdleCount, MinimumSizes, Maximum, Capacity, Increment, MaxRequests,
          Width, QueueSize, MaxMillis, MaxLooks,
          MaxClosings,
          Period, PartToUse, Lateness, Works, Breaks, MaxCalls,
          Rates, TapCounts, Primes, MaxCoefficients, MaxFrames,
          Bits, Mantissa, Paths, Frames, Memory,
          Graphs, Buffer, Largest, MaxReads,
          Full, Lengths, MaxPull, MaxTargets,
          Threads, P, Q, R, S, S_V2, U, Levels, Workarounds

ASSUME CountsAssumption ==
  {CallbacksToDrain, CallbacksToDiscard, InputCapacity, Jitter, IdleCount, Increment} \subseteq Nat \ {0}
ASSUME DuplexAssumption == Cushions \subseteq Nat /\ Minimums \subseteq Nat
ASSUME PeriodAssumption ==
  /\ Period \in Nat \ {0} /\ {PartToUse, Lateness} \subseteq Nat
  /\ Works \subseteq Nat /\ Breaks \subseteq Nat
ASSUME WidthAssumption == Width \in Nat \ {0} /\ Width % 2 = 0 /\ QueueSize \in Nat
ASSUME SizesAssumption == MinimumSizes \subseteq 1 .. Maximum
ASSUME BitsAssumption == Bits["I16"] < Bits["I24"] /\ Bits["I24"] = Mantissa /\ Mantissa < Bits["I32"]
ASSUME LevelsAssumption == Levels \subseteq Nat \ {0} /\ {P, Q, R, S, S_V2, U} \subseteq Nat
ASSUME GraphsAssumption ==
  /\ Graphs \subseteq Seq(Seq(Nat)) \ {<<>>}
  /\ \A g \in Graphs : \A n \in DOMAIN g : \A i \in DOMAIN g[n] : g[n][i] \in {0} \cup DOMAIN g
  /\ Buffer \in Nat

VARIABLES part,
          cushion, minimum, drain, fill, discard, input, output, available, old, ahead, heard, called, starts,
          state, idle, pending, minimumSize, size, underran, counted, open, need, requests,
          direction, play, position, counter64, counter32, frames, queued, passed, flushed, unseen, paused, restarted, changes,
          enabled, attempted, session, lost, cb, app, closings,
          frameCount, epoch, now, due, slot, deadline, doing, calls,
          way, taps, numerator, denominator, phase, cursor, coefficient, x, written,
          path, node, block, first, outcome, trip,
          graph, lastCall, lastFrames, left, stack, answer, wanted, processed, reads, put, given,
          target, length, remaining, scaler, levelTo, used, ui, audio, ramping, after, level, jump, targets, spoilt,
          sdk, library, handle, linked, pc, at, asks, fault

duplex == <<cushion, minimum, drain, fill, discard, input, output, available, old, ahead, heard, called, starts>>
tuner == <<state, idle, pending, minimumSize, size, underran, counted, open, need, requests>>
place == <<direction, play, position, counter64, counter32, frames, queued, passed, flushed, unseen, paused, restarted, changes>>
hint == <<enabled, attempted, session, lost, cb, app, closings>>
even == <<frameCount, epoch, now, due, slot, deadline, doing, calls>>
resampler == <<way, taps, numerator, denominator, phase, cursor, coefficient, x, written>>
samples == <<path, node, block, first, outcome, trip>>
flow == <<graph, lastCall, lastFrames, left, stack, answer, wanted, processed, reads, put, given>>
ramp == <<target, length, remaining, scaler, levelTo, used, ui, audio, ramping, after, level, jump, targets, spoilt>>
loader == <<sdk, library, handle, linked, pc, at, asks, fault>>
vars == <<part, duplex, tuner, place, hint, even, resampler, samples, flow, ramp, loader>>

Duplex == INSTANCE FullDuplex
Tuner == INSTANCE LatencyTuner
Place == INSTANCE ServicePosition
Hint == INSTANCE PerformanceHint
Even == INSTANCE Stabilized WITH Jitter <- Lateness
Filter == INSTANCE Resampler
Blocks == INSTANCE Samples
Flow == INSTANCE FlowGraph
Level == INSTANCE Ramp
Loader == INSTANCE AAudioLoader

(* Rates stay positive when they are reduced, and the table of the sinc    *)
(* has a row besides the one that guards.                                  *)
ASSUME RatesAssumption ==
  /\ \A ratio \in Rates : Filter!Reduced(ratio) \in [in : Nat \ {0}, out : Nat \ {0}]
  /\ TapCounts \subseteq Nat \ {0} /\ MaxCoefficients \in Nat
  /\ \A t \in TapCounts : 2 * t =< MaxCoefficients

(* Variables that are of no part that runs.                                *)
NoDuplex ==
  /\ cushion = 0 /\ minimum = 0 /\ drain = 0 /\ fill = 0 /\ discard = 0 /\ input = 0 /\ output = 0
  /\ available = 0 /\ old = 0 /\ ahead = 0 /\ heard = 0 /\ called = 0 /\ starts = 0
NoTuner ==
  /\ state = 0 /\ idle = 0 /\ pending = 0 /\ minimumSize = 0 /\ size = 0 /\ underran = 0
  /\ counted = 0 /\ open = 0 /\ need = 0 /\ requests = 0
NoPlace ==
  /\ direction = 0 /\ play = 0 /\ position = 0 /\ counter64 = 0 /\ counter32 = 0 /\ frames = 0
  /\ queued = 0 /\ passed = 0 /\ flushed = 0 /\ unseen = 0 /\ paused = 0 /\ restarted = 0 /\ changes = 0
NoHint ==
  /\ enabled = 0 /\ attempted = 0 /\ session = 0 /\ lost = 0 /\ cb = 0 /\ app = 0 /\ closings = 0
NoEven ==
  /\ frameCount = 0 /\ epoch = 0 /\ now = 0 /\ due = 0 /\ slot = 0 /\ deadline = 0
  /\ doing = "idle" /\ calls = 0
NoResampler ==
  /\ way = 0 /\ taps = 0 /\ numerator = 0 /\ denominator = 0 /\ phase = 0 /\ cursor = 0
  /\ coefficient = 0 /\ x = 0 /\ written = 0
NoSamples == path = 0 /\ node = "none" /\ block = 0 /\ first = 0 /\ outcome = 0 /\ trip = 0
NoFlow ==
  /\ graph = <<>> /\ lastCall = 0 /\ lastFrames = 0 /\ left = 0 /\ stack = 0 /\ answer = 0 /\ wanted = 0
  /\ processed = 0 /\ reads = 0 /\ put = 0 /\ given = 0
NoRamp ==
  /\ target = 0 /\ length = 0 /\ remaining = 0 /\ scaler = 0 /\ levelTo = 0 /\ used = FALSE /\ ui = "none"
  /\ audio = "none" /\ ramping = 0 /\ after = 0 /\ level = 0 /\ jump = 0 /\ targets = 0 /\ spoilt = FALSE
NoLoader ==
  /\ sdk = 0 /\ library = 0 /\ handle = FALSE /\ linked = 0 /\ pc = 0 /\ at = 0 /\ asks = 0 /\ fault = FALSE

Init ==
  /\ part \in Parts
  /\ IF part = "duplex" THEN Duplex!Init ELSE NoDuplex
  /\ IF part = "tuner" THEN Tuner!Init ELSE NoTuner
  /\ IF part = "place" THEN Place!Init ELSE NoPlace
  /\ IF part = "hint" THEN Hint!Init ELSE NoHint
  /\ IF part = "even" THEN Even!Init ELSE NoEven
  /\ IF part = "resampler" THEN Filter!Init ELSE NoResampler
  /\ IF part = "samples" THEN Blocks!Init ELSE NoSamples
  /\ IF part = "graph" THEN Flow!Init ELSE NoFlow
  /\ IF part = "ramp" THEN Level!Init ELSE NoRamp
  /\ IF part = "loader" THEN Loader!Init ELSE NoLoader

Next ==
  \/ part = "duplex" /\ Duplex!Next
     /\ UNCHANGED <<part, tuner, place, hint, even, resampler, samples, flow, ramp, loader>>
  \/ part = "tuner" /\ Tuner!Next
     /\ UNCHANGED <<part, duplex, place, hint, even, resampler, samples, flow, ramp, loader>>
  \/ part = "place" /\ Place!Next
     /\ UNCHANGED <<part, duplex, tuner, hint, even, resampler, samples, flow, ramp, loader>>
  \/ part = "hint" /\ Hint!Next
     /\ UNCHANGED <<part, duplex, tuner, place, even, resampler, samples, flow, ramp, loader>>
  \/ part = "even" /\ Even!Next
     /\ UNCHANGED <<part, duplex, tuner, place, hint, resampler, samples, flow, ramp, loader>>
  \/ part = "resampler" /\ Filter!Next
     /\ UNCHANGED <<part, duplex, tuner, place, hint, even, samples, flow, ramp, loader>>
  \/ part = "samples" /\ Blocks!Next
     /\ UNCHANGED <<part, duplex, tuner, place, hint, even, resampler, flow, ramp, loader>>
  \/ part = "graph" /\ Flow!Next
     /\ UNCHANGED <<part, duplex, tuner, place, hint, even, resampler, samples, ramp, loader>>
  \/ part = "ramp" /\ Level!Next
     /\ UNCHANGED <<part, duplex, tuner, place, hint, even, resampler, samples, flow, loader>>
  \/ part = "loader" /\ Loader!Next
     /\ UNCHANGED <<part, duplex, tuner, place, hint, even, resampler, samples, flow, ramp>>

Spec == Init /\ [][Next]_vars

InTuner(action) ==
  part = "tuner" /\ action /\ UNCHANGED <<part, duplex, place, hint, even, resampler, samples, flow, ramp, loader>>

(* The app's callback, which tunes, goes on, and so do underruns of a      *)
(* buffer that is too small.                                               *)
FairSpec == Spec /\ WF_vars(InTuner(Tuner!Tune)) /\ WF_vars(InTuner(Tuner!Underrun))

-----------------------------------------------------------------------------
(* Properties of the parts.                                                *)

(* A full-duplex app is given nothing recorded before it started, and no   *)
(* latency builds up between its two streams.                              *)
FreshInput == part = "duplex" => Duplex!NothingOldHeard /\ Duplex!Equilibrium

(* The tuner ends the glitches that a larger buffer can end.               *)
GlitchesEnd == <>[](part = "tuner" /\ open /\ counted => size >= need \/ size = Tuner!Smaller(Maximum, Capacity))

(* The frames read follow what is played, over stops, flushes and wraps.   *)
ReadFollowsPlay == part = "place" => Place!ReadFollowsPlay

(* Sessions of ADPF are not piled up: each start and each close leaves one *)
(* open at most.                                                           *)
SessionsBounded == part = "hint" => Hint!SessionsBounded

(* The load of a stabilized callback leaves the device its time.           *)
LoadLeavesTime == part = "even" => Even!LoadLeavesTime

(* The resampler filters the last frames, in the place the phase says.     *)
FilterInPlace == part = "resampler" => Filter!FilterInPlace

(* Samples come through the nodes as they were, as near as formats allow,  *)
(* and a ramp changes their level without a jump.                          *)
SamplesKept ==
  /\ part = "samples" => Blocks!SamplesKept
  /\ part = "ramp" => Level!Smooth

(* A pull runs every node once, on what its inputs made in that pull.      *)
OncePerPull == part = "graph" => Flow!OncePerPull

(* Once one opening has linked AAudio, its functions are called only when  *)
(* they are there.                                                         *)
LinkedBeforeCalled == part = "loader" => Loader!LinkedBeforeCalled

(* "This monotonic counter will never get reset."                          *)
FramesNeverGoBack == [][part = "place" => frames' >= frames]_vars

-----------------------------------------------------------------------------
(***************************************************************************)
(* Pairs of rates for the resampler: up and down, of one step and of many, *)
(* the same after a reduction, and with a common prime the list lacks.     *)
(* Formats for the samples: every pair in mono, and more channels of       *)
(* floats.  Graphs of four nodes, the last of them the sink: chains,       *)
(* branches, cycles, ports that are open and a second source.              *)
(***************************************************************************)
Pair(a, b) == [in |-> a, out |-> b]
MCRates == {Pair(1, 2), Pair(2, 1), Pair(2, 3), Pair(8, 12), Pair(3, 2), Pair(7, 6), Pair(5, 9), Pair(5, 10)}
MCPrimes == <<2, 3>>

Of(format, channels) == [format |-> format, channels |-> channels]
MCBits == [I16 |-> 3, I24 |-> 5, I32 |-> 7]
MCFormats == {"Float", "I16", "Pcm16", "I24", "I32", "I8_24"}
MCPaths ==
  {[from |-> Of(f, 1), to |-> Of(t, 1)] : f, t \in MCFormats}
    \cup {[from |-> Of("Float", a), to |-> Of("Float", b)] : a, b \in 1 .. 3}

Lists(nodes, lengths) == UNION {[1 .. k -> nodes] : k \in lengths}
MCGraphs == {<<<<>>, a, b, <<3>>>> : a \in Lists({0, 1, 3}, 0 .. 2), b \in Lists(1 .. 3, 1 .. 2)}
=============================================================================
