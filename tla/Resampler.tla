------------------------------- MODULE Resampler -------------------------------
(***************************************************************************)
(* MultiChannelResampler with its three ways of making a frame: from the   *)
(* last two frames (LinearResampler), by a row of coefficients for each    *)
(* phase (PolyphaseResampler), or between two rows of a table              *)
(* (SincResampler).  A frame is its number, from 1; 0 is silence.  The     *)
(* window and the sinc of a coefficient are left out: a row of             *)
(* coefficients is the phase it is for.                                    *)
(***************************************************************************)
EXTENDS Integers, Sequences, FiniteSetsExt, SequencesExt

CONSTANTS Rates,            \* of input and output
          TapCounts,        \* what the qualities come to
          Primes,           \* kPrimes
          MaxCoefficients,  \* kMaxCoefficients
          MaxFrames         \* the bound on frames written

VARIABLES way, taps,
          numerator, denominator, \* mNumerator, mDenominator
          phase,                  \* mIntegerPhase
          cursor,                 \* mCursor
          coefficient,            \* mCoefficientCursor
          x,                      \* mX; of the linear way <<current, previous>>
          written                 \* frames

filter == <<way, taps, numerator, denominator>>
vars == <<filter, phase, cursor, coefficient, x, written>>

(* IntegerRatio::reduce.                                                   *)
DividedBy(ratio, prime) ==
  LET Power(e) == prime ^ e
      times == Max({e \in 0 .. ratio.in : ratio.in % Power(e) = 0 /\ ratio.out % Power(e) = 0})
  IN  [in |-> ratio.in \div Power(times), out |-> ratio.out \div Power(times)]

Reduced(ratio) == FoldLeft(DividedBy, ratio, Primes)

(* MultiChannelResampler::Builder::build.                                  *)
WayFor(n, den) ==
  CASE n = 2 -> "linear"
    [] n # 2 /\ n * den =< MaxCoefficients -> "polyphase"
    [] OTHER -> "sinc"

Init ==
  /\ \E ratio \in Rates :
       numerator = Reduced(ratio).in /\ denominator = Reduced(ratio).out
  /\ taps \in TapCounts
  /\ way = WayFor(taps, denominator)
  /\ phase = denominator   \* so that it starts with a write
  /\ cursor = 0 /\ coefficient = 0 /\ written = 0
  /\ x = [i \in 0 .. 2 * taps - 1 |-> 0]

-----------------------------------------------------------------------------
IsWriteNeeded == phase >= denominator

(* Variant of Delayed: the first copy only. *)
DelayedOnce(at, frame) == [x EXCEPT ![at] = frame]

(* writeFrame: twice, so that a read need not wrap.                        *)
Delayed(at, frame) == [x EXCEPT ![at] = frame, ![at + taps] = frame]

WriteFrame ==
  /\ way # "linear"
  /\ cursor' = IF cursor = 0 THEN taps - 1 ELSE cursor - 1
  /\ x' = Delayed(cursor', written')

LinearWrite ==
  /\ way = "linear"
  /\ x' = [x EXCEPT ![0] = written', ![1] = x[0]]
  /\ UNCHANGED cursor

WriteNextFrame ==
  /\ IsWriteNeeded /\ written < MaxFrames
  /\ written' = written + 1
  /\ WriteFrame \/ LinearWrite
  /\ phase' = phase - denominator
  /\ UNCHANGED <<filter, coefficient>>

(* The coefficients of a polyphase filter are taken row after row.         *)
AdvanceRow ==
  /\ way = "polyphase"
  /\ coefficient' = (coefficient + taps) % (taps * denominator)

ReadNextFrame ==
  /\ ~IsWriteNeeded
  /\ AdvanceRow \/ (way # "polyphase" /\ UNCHANGED coefficient)
  /\ phase' = phase + numerator
  /\ UNCHANGED <<filter, cursor, x, written>>

Next == WriteNextFrame \/ ReadNextFrame

Spec == Init /\ [][Next]_vars

-----------------------------------------------------------------------------
(* generateCoefficients: the phase a row is for, in units of 1/denominator *)
(* for the polyphase filter and 1/(rows - 1) for the table of the sinc.    *)
RowPhase(row) == (row * numerator) % denominator
Rows == MaxCoefficients \div taps   \* the last one guards

(* What readFrame would read, the newest frame first.                      *)
Window == [t \in 1..taps |-> x[cursor + t - 1]]

(* SincResampler::readFrame: the rows to interpolate between.              *)
IndexLow == (phase * (Rows - 1)) \div denominator
IndexHigh == IndexLow + 1

LastWritten(t) == IF written < t THEN 0 ELSE written - t + 1

(* Whenever a frame can be read it is made of the last frames written, in  *)
(* their order, with the coefficients of the very phase it is for.         *)
FilterInPlace ==
  ~IsWriteNeeded =>
    /\ Window = [t \in 1..taps |-> LastWritten(t)]
    /\ way = "polyphase" => RowPhase(coefficient \div taps) = phase
    /\ way = "sinc" =>
         /\ IndexHigh < Rows
         /\ IndexLow * denominator =< phase * (Rows - 1)
         /\ phase * (Rows - 1) < IndexHigh * denominator
=============================================================================
