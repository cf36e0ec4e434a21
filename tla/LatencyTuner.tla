----------------------------- MODULE LatencyTuner -----------------------------
(***************************************************************************)
(* LatencyTuner: raises the buffer of an output stream when it underruns,  *)
(* and lowers it again when the user asks for that.  Sizes are in bursts.  *)
(* The app calls tune in every callback, and requestReset anywhere.        *)
(***************************************************************************)
EXTENDS Naturals

CONSTANTS IdleCount,   \* kIdleCount
          MinimumSizes, \* values of mMinimumBufferSize
          Maximum,     \* mMaxBufferSize
          Capacity,    \* what the stream clips its buffer to
          Increment,   \* mBufferSizeIncrement
          MaxRequests  \* the bound on calls of requestReset

VARIABLES state, idle, pending, \* mState, mIdleCountDown, more requests than responses
          minimumSize,          \* mMinimumBufferSize
          size, underran,       \* of the stream: its buffer; more underruns than mPreviousXRuns
          counted, open,        \* whether the stream counts underruns; whether it is open
          need,                 \* the buffer the app's load takes
          requests

vars == <<state, idle, pending, minimumSize, size, underran, counted, open, need, requests>>

Smaller(a, b) == IF a =< b THEN a ELSE b

Init ==
  /\ minimumSize \in MinimumSizes /\ counted \in BOOLEAN /\ need \in 1 .. Capacity + 1
  /\ state = "Idle" /\ idle = IdleCount /\ size = Smaller(minimumSize, Capacity)
  /\ pending = FALSE /\ underran = FALSE /\ open = TRUE /\ requests = 0

(* reset, by tune.  A stream that is closed keeps its buffer as it was.    *)
(* Variant of ResetState: only an idle tuner starts over. *)
ResetUnlessAtMax == IF state = "AtMax" THEN "AtMax" ELSE "Idle"

ResetState == "Idle"
Lowered == IF open THEN Smaller(minimumSize, Capacity) ELSE size

(* The rest of tune, from the state and the buffer it found or reset.      *)
Tuned(was, countdown, old) ==
  LET active == was = "Active" \/ (was = "Idle" /\ countdown =< 1)
      raised == Smaller(Smaller(old + Increment, Maximum), Capacity)
  IN /\ idle' = IF was = "Idle" THEN countdown - 1 ELSE countdown
     /\ IF active /\ (~counted \/ ~open) THEN state' = "Unsupported" /\ size' = old /\ UNCHANGED underran
        ELSE IF active /\ underran
          THEN /\ underran' = FALSE /\ size' = raised
               /\ state' = IF raised = old THEN "AtMax" ELSE "Active"
        ELSE state' = (IF active THEN "Active" ELSE was) /\ size' = old /\ UNCHANGED underran

Tune ==
  /\ state # "Unsupported"
  /\ pending' = FALSE
  /\ IF pending THEN Tuned(ResetState, IdleCount, Lowered) ELSE Tuned(state, idle, size)
  /\ UNCHANGED <<minimumSize, counted, open, need, requests>>

RequestReset ==
  /\ state # "Unsupported" /\ requests < MaxRequests
  /\ requests' = requests + 1
  /\ pending' = TRUE
  /\ UNCHANGED <<state, idle, minimumSize, size, underran, counted, open, need>>

SetMinimumBufferSize ==
  /\ requests < MaxRequests
  /\ minimumSize' \in MinimumSizes \ {minimumSize}
  /\ requests' = requests + 1
  /\ UNCHANGED <<state, idle, pending, size, underran, counted, open, need>>

(* The stream, which underruns again and again while its buffer is less    *)
(* than the load takes, and may be closed.                                 *)
Underrun ==
  /\ open /\ size < need /\ ~underran
  /\ underran' = TRUE
  /\ UNCHANGED <<state, idle, pending, minimumSize, size, counted, open, need, requests>>

LoadChanges ==
  /\ requests < MaxRequests
  /\ requests' = requests + 1
  /\ need' \in 1 .. Capacity + 1 \ {need}
  /\ UNCHANGED <<state, idle, pending, minimumSize, size, underran, counted, open>>

CloseStream ==
  /\ open /\ open' = FALSE
  /\ UNCHANGED <<state, idle, pending, minimumSize, size, underran, counted, need, requests>>

Next == Tune \/ RequestReset \/ SetMinimumBufferSize \/ Underrun \/ LoadChanges \/ CloseStream
Spec == Init /\ [][Next]_vars

-----------------------------------------------------------------------------
(* Properties.                                                             *)

(* "Raise it if an underrun occurs": however resets and underruns fall,    *)
(* the glitches of a stream that counts them end, unless the buffer is as  *)
(* large as it may be.  To be read under weak fairness of Tune and         *)
(* Underrun.                                                               *)
GlitchesEnd ==
  <>[](open /\ counted => size >= need \/ size = Smaller(Maximum, Capacity))
=============================================================================
