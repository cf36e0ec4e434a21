------------------------------- MODULE Output -------------------------------
(***************************************************************************)
(* What a driver promises: blocks are heard in the order they were mixed,  *)
(* each once, and never more than a bound of them wait to be heard (the    *)
(* latency).  Blocks are lost only when the device fails or is away.       *)
(***************************************************************************)
EXTENDS Integers, Sequences

CONSTANT Ids        \* blocks are numbered modulo Ids

VARIABLES next,     \* the block that is mixed next
          waiting,  \* the blocks mixed and not yet heard
          bound,    \* how many may wait
          failures, \* counts the failures of the device
          away      \* there is no device

vars == <<next, waiting, bound, failures, away>>

Init == next = 0 /\ waiting = <<>>

Mix ==
  \E k \in 1 .. Ids - 1 :
    /\ Len(waiting) + k =< bound
    /\ next' = (next + k) % Ids
    /\ waiting' = waiting \o [i \in 1 .. k |-> (next + i - 1) % Ids]

Hear ==
  /\ \E k \in 1 .. Len(waiting) : waiting' = SubSeq(waiting, k + 1, Len(waiting))
  /\ UNCHANGED next

(* The device takes everything it holds with it, or what was mixed for it  *)
(* cannot be handed over: what remains is a part without holes.            *)
Lose ==
  /\ failures' # failures \/ away
  /\ \E first \in 1 .. Len(waiting) + 1, last \in 0 .. Len(waiting) :
       waiting' = SubSeq(waiting, first, last)
  /\ \E k \in 0 .. Ids - 1 : next' = (next + k) % Ids

Next == Mix \/ Hear \/ Lose

Spec == Init /\ [][Next]_<<next, waiting>>
=============================================================================
