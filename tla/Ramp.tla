-------------------------------- MODULE Ramp --------------------------------
(***************************************************************************)
(* RampLinear, a node that changes the level of its frames step by step:   *)
(* a thread of the app sets a new target, at any time, and the thread of   *)
(* the audio starts a ramp to it from where it is.  A level is a part of   *)
(* Full; Full can be divided by every length, as often as there are ramps. *)
(***************************************************************************)
EXTENDS Integers

CONSTANTS Full, Lengths, MaxPull, MaxTargets

NaN == 100 * Full \* no level is that high
Absolute(n) == IF n < 0 THEN -n ELSE n
Smaller(a, b) == IF a =< b THEN a ELSE b
Steepest == Full \div (CHOOSE l \in Lengths \ {0} : \A k \in Lengths \ {0} : l =< k)

VARIABLES target, length, remaining, scaler, levelTo, \* m...
          used,      \* mLastCallCount is not kInitialCallCount
          ui,        \* where setTarget is
          audio,     \* where onProcess is
          ramping, after, \* frames of this call that are still to be ramped, and those after them
          level,     \* of the last frame
          jump,      \* from the frame before it
          targets,
          spoilt     \* a ramp of no length was started, or of one that just changed
vars == <<target, length, remaining, scaler, levelTo, used, ui, audio, ramping, after, level, jump, targets, spoilt>>

Init ==
  /\ target = Full /\ length \in Lengths
  /\ remaining = 0 /\ scaler = 0 /\ levelTo = 0
  /\ used = FALSE /\ ui = "idle" /\ audio = "idle" /\ ramping = 0 /\ after = 0
  /\ level = NaN /\ jump = 0 /\ targets = 0 /\ spoilt = FALSE

-----------------------------------------------------------------------------
SetLengthInFrames ==
  /\ ui = "idle" /\ length' \in Lengths \ {length}
  /\ UNCHANGED <<target, remaining, scaler, levelTo, used, ui, audio, ramping, after, level, jump, targets, spoilt>>

(* setTarget stores the target, then looks whether the node was used, and  *)
(* then, if it was not, forces the level.                                  *)
SetTarget ==
  /\ ui = "idle" /\ targets < MaxTargets
  /\ target' \in {0, Full} /\ targets' = targets + 1 /\ ui' = "stored"
  /\ UNCHANGED <<length, remaining, scaler, levelTo, used, audio, ramping, after, level, jump, spoilt>>

LookIfUsed ==
  /\ ui = "stored" /\ ui' = IF used THEN "idle" ELSE "unused"
  /\ UNCHANGED <<target, length, remaining, scaler, levelTo, used, audio, ramping, after, level, jump, targets, spoilt>>

ForceCurrent ==
  /\ ui = "unused" /\ ui' = "idle"
  /\ levelTo' = target
  /\ UNCHANGED <<target, length, remaining, scaler, used, audio, ramping, after, level, jump, targets, spoilt>>

-----------------------------------------------------------------------------
InterpolateCurrent ==
  IF scaler = NaN THEN NaN ELSE levelTo - remaining * scaler

(* Variant of LevelFrom: from where the last ramp led. *)
FromTarget == levelTo

LevelFrom == InterpolateCurrent

(* pullData counts the call before onProcess.                              *)
PullData ==
  /\ audio = "idle" /\ audio' = "process" /\ used' = TRUE
  /\ UNCHANGED <<target, length, remaining, scaler, levelTo, ui, ramping, after, level, jump, targets, spoilt>>

(* mLengthInFrames is no atomic, is read twice, and may be set in between. *)
(* A ramp of no length has an infinite scaler, and the next starts nowhere.*)
OnProcess ==
  /\ audio = "process" /\ audio' = "frames"
  /\ IF target # levelTo
       THEN /\ levelTo' = target /\ remaining' = length
            /\ length' \in (IF ui = "idle" THEN Lengths ELSE {length})
            /\ scaler' = IF length' = 0 \/ LevelFrom = NaN THEN NaN ELSE (target - LevelFrom) \div length'
            /\ spoilt' = (spoilt \/ length' = 0 \/ length' # length)
       ELSE UNCHANGED <<levelTo, remaining, length, scaler, spoilt>>
  /\ \E n \in 1 .. MaxPull : ramping' = Smaller(n, remaining') /\ after' = n - ramping'
  /\ UNCHANGED <<target, used, ui, level, jump, targets>>

Heard(current) ==
  /\ level' = current
  /\ jump' = IF NaN \in {level, current} THEN 0 ELSE Absolute(current - level)

RampFrame ==
  /\ audio = "frames" /\ ramping > 0
  /\ Heard(InterpolateCurrent)
  /\ remaining' = remaining - 1 /\ ramping' = ramping - 1
  /\ UNCHANGED <<target, length, scaler, levelTo, used, ui, audio, after, targets, spoilt>>

FrameAfter ==
  /\ audio = "frames" /\ ramping = 0
  /\ IF after > 0 THEN Heard(levelTo) /\ UNCHANGED audio ELSE audio' = "idle" /\ UNCHANGED <<level, jump>>
  /\ after' = IF after > 0 THEN after - 1 ELSE 0
  /\ UNCHANGED <<target, length, remaining, scaler, levelTo, used, ui, ramping, targets, spoilt>>

Next ==
  \/ SetLengthInFrames \/ SetTarget \/ LookIfUsed \/ ForceCurrent
  \/ PullData \/ OnProcess \/ RampFrame \/ FrameAfter

-----------------------------------------------------------------------------
(* Property.                                                               *)

(* However targets and lengths change, also in the middle of a ramp and    *)
(* while the first pull overtakes the first setTarget, the level goes from *)
(* frame to frame by no more than a step of a ramp, within the range.      *)
(* Excepted is a ramp of no length, for the next one is then lost, and one *)
(* whose length is set just while it starts: setTarget "may be safely      *)
(* called by another thread", and setLengthInFrames may not.               *)
Smooth ==
  ~spoilt => jump =< Steepest /\ (level = NaN \/ level \in 0 .. Full)
=============================================================================
