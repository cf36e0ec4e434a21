------------------------------- MODULE Mixer -------------------------------
(***************************************************************************)
(* readBufferAndAdd (audio/mux.go) sample by sample: which sample of the   *)
(* sound each sample of the buffer is taken from, and with which one it is *)
(* crossfaded.  Slots.Mixed says only what state the function leaves; this *)
(* module follows its loop and shows that the two agree, for one slot that *)
(* is started, looped, faded out, sought and mixed into buffers of any of  *)
(* the lengths BufLens.                                                    *)
(***************************************************************************)
EXTENDS Slots, Sequences

CONSTANTS BufLens, CrossFades, FadeOuts, SeekTargets

VARIABLES ps,     \* the slot
          read,   \* the indices the last buffer was filled from
          follows \* does the next buffer continue the last one?

vars == <<ps, read, follows>>

-----------------------------------------------------------------------------
(* Variant: a second jump in the same buffer replaces the first one.       *)
LoopStateOneJump(slot, n) ==
  LET state[i \in 0 .. n] ==
        IF i = 0 THEN [adjustment |-> 0, loopedOnce |-> slot.loopedOnce]
        ELSE LET before == state[i - 1]
                 di == (slot.pos + (i - 1) + before.adjustment) % slot.endAt
             IN  IF slot.loop /\ di = slot.fadeOutStartsAt
                 THEN [adjustment |-> slot.endAt - slot.fadeOutStartsAt,
                       loopedOnce |-> TRUE]
                 ELSE before
  IN  state

(* The loop over the samples of a buffer.  Before the i-th sample:         *)
(* loopAdjustment and loopedOnce.                                          *)
LoopState(slot, n) ==
  LET state[i \in 0 .. n] ==
        IF i = 0 THEN [adjustment |-> 0, loopedOnce |-> slot.loopedOnce]
        ELSE LET before == state[i - 1]
                 di == (slot.pos + (i - 1) + before.adjustment) % slot.endAt
             IN  IF slot.loop /\ di = slot.fadeOutStartsAt
                 THEN [adjustment |-> before.adjustment
                                        + slot.endAt - slot.fadeOutStartsAt,
                       loopedOnce |-> TRUE]
                 ELSE before
  IN  state

(* di of every sample, after the jump to the start if there is one at it.  *)
ReadIndex(slot, n) ==
  LET state == LoopState(slot, n)
  IN  [i \in 1 .. n |-> (slot.pos + (i - 1) + state[i].adjustment) % slot.endAt]

(* The samples mixed in: the end of the sound while its start fades in.    *)
CrossIndices(slot, n) ==
  LET state == LoopState(slot, n)
      di == ReadIndex(slot, n)
  IN  {di[i] + slot.fadeOutStartsAt :
         i \in {j \in 1 .. n : di[j] < slot.fadeInEndsAt /\ state[j].loopedOnce}}

IndexPanics(slot, n) ==
  \/ n > 0 /\ slot.endAt = 0
  \/ /\ slot.endAt > 0
     /\ ~({ReadIndex(slot, n)[i] : i \in 1 .. n} \cup CrossIndices(slot, n)
            \subseteq 0 .. DataLen[slot.sound] - 1)

-----------------------------------------------------------------------------
Init ==
  /\ ps = ZeroSlot
  /\ read = <<>>
  /\ follows = FALSE

Restarted(slot) ==
  /\ ps' = slot
  /\ read' = <<>>
  /\ follows' = FALSE

Play(s) == IsFree(ps) /\ Restarted(Started(ps, s))
PlayLoop(s, fade) == IsFree(ps) /\ Restarted(Looping(ps, s, fade))

StopFadeOut(fade) ==
  /\ ~IsFree(ps)
  /\ ps' = FadingOut(ps, fade)
  /\ UNCHANGED <<read, follows>>

Seek(target) ==
  /\ ~IsFree(ps)
  /\ ps' = Sought(ps, target)
  /\ UNCHANGED <<read, follows>>

(* The mixer's pass over the slot with a buffer of length len. *)
ReadBuffer(len) ==
  LET slot == SeekApplied(ps)
  IN  /\ ~IsFree(slot)
      /\ ~IndexPanics(slot, Taken(slot, len))
      /\ ps' = Mixed(slot, len)
      /\ read' = ReadIndex(slot, Taken(slot, len))
      /\ follows' = TRUE

Next ==
  \/ \E s \in Sound : Play(s) \/ \E fade \in CrossFades : PlayLoop(s, fade)
  \/ \E fade \in FadeOuts : StopFadeOut(fade)
  \/ \E target \in SeekTargets : Seek(target)
  \/ \E len \in BufLens : ReadBuffer(len)

Spec == Init /\ [][Next]_vars

-----------------------------------------------------------------------------
(* Properties.                                                             *)

(* The state readBufferAndAdd leaves, and whether it panics, is what the   *)
(* closed form of module Slots says, whatever slot and buffer it is given. *)
ClosedFormExact ==
  \A len \in BufLens :
    LET slot == SeekApplied(ps)
        n == Taken(slot, len)
    IN  ~IsFree(slot) =>
          /\ IndexPanics(slot, n) <=> Panics(slot, len)
          /\ ~IndexPanics(slot, n) =>
               Mixed(slot, len).loopedOnce = LoopState(slot, n)[n].loopedOnce

(* A loop with a crossfade plays up to fadeOutStartsAt and goes on at the  *)
(* start, into which the rest of the sound is faded.                       *)
Successor(slot, di) ==
  IF slot.loop /\ di + 1 = slot.fadeOutStartsAt THEN 0
                                                ELSE (di + 1) % DataLen[slot.sound]

BufferRead == \E len \in BufLens : ReadBuffer(len)

(* A sample follows the one before it: within a buffer, where the jump of  *)
(* a crossfaded loop is the only one, however often the buffer goes round; *)
(* and from one buffer to the next until such a jump was made.  After it   *)
(* the code loses its place: the jump is local to readBufferAndAdd and pos *)
(* moves by the samples taken, so that the next buffer goes back to the    *)
(* end of the sound, which was faded out already.                          *)
Followed ==
  BufferRead =>
    /\ \A i \in 2 .. Len(read') : read'[i] = Successor(ps, read'[i - 1])
    /\ follows /\ ps.seekTo = NoSeek /\ ~ps.loopedOnce
         => read'[1] = Successor(ps, read[Len(read)])
=============================================================================
