------------------------------- MODULE Slots -------------------------------
(***************************************************************************)
(* One slot of the sound pool (type PlayingSound, audio/playing_sound.go)  *)
(* and what every operation of the package does to it.  A slot is a value  *)
(* here; the modules that own pools of slots decide who calls what when.   *)
(*                                                                         *)
(* Positions and lengths count float32 samples, as in the code: a sound is *)
(* a sequence of frames of ChannelCount samples.  The data themselves are  *)
(* abstracted to their length.  A seek target, a float32 share of the      *)
(* length in the code, is a number of SeekScale-ths.                       *)
(***************************************************************************)
EXTENDS Integers

CONSTANTS Sound,       \* the loaded sounds
          NoSound,     \* the nil *Sound of a slot that was never used
          DataLen,     \* DataLen[s]: len(s.data)
          Callback,    \* functions that can be registered with OnEndCallback
          NoCallback,  \* nil
          SeekScale    \* a seek to k is a seek to the share k / SeekScale

ASSUME SoundAssumption == /\ NoSound \notin Sound
                          /\ DataLen \in [Sound -> Nat]
                          /\ \A s \in Sound : DataLen[s] % 2 = 0  \* whole frames
ASSUME CallbackAssumption == NoCallback \notin Callback
ASSUME SeekScaleAssumption == SeekScale \in Nat \ {0}

ChannelCount == 2

NoSeek == -1

SlotType ==
  [sound           : Sound \cup {NoSound},
   loop            : BOOLEAN,
   loopedOnce      : BOOLEAN,
   pos             : Nat,
   seekTo          : Nat \cup {NoSeek},
   fadeInEndsAt    : Nat,
   fadeOutStartsAt : Int,
   endAt           : Nat,
   onEnd           : Callback \cup {NoCallback}]

(* make([]PlayingSound, n) gives Go's zero values: seekTo is 0, not -1. *)
ZeroSlot ==
  [sound |-> NoSound, loop |-> FALSE, loopedOnce |-> FALSE, pos |-> 0,
   seekTo |-> 0, fadeInEndsAt |-> 0, fadeOutStartsAt |-> 0, endAt |-> 0,
   onEnd |-> NoCallback]

IsPlaying(ps) == ps.pos < ps.endAt
IsFree(ps) == ps.pos >= ps.endAt /\ ~ps.loop

Smaller(a, b) == IF a =< b THEN a ELSE b

-----------------------------------------------------------------------------
(* Allocation.  getFreePlayingSound resets every field but onEndCallback.  *)
Started(ps, s) ==
  [sound |-> s, loop |-> FALSE, loopedOnce |-> FALSE, pos |-> 0,
   seekTo |-> NoSeek, fadeInEndsAt |-> 0, fadeOutStartsAt |-> DataLen[s],
   endAt |-> DataLen[s], onEnd |-> ps.onEnd]

(* PlayLoop and PlayFadeIn on top of it; fade is int(rate * duration). *)
Looping(ps, s, fade) ==
  [Started(ps, s) EXCEPT !.loop = TRUE, !.fadeInEndsAt = fade,
                         !.fadeOutStartsAt = DataLen[s] - fade]

FadingIn(ps, s, fade) == [Started(ps, s) EXCEPT !.fadeInEndsAt = fade]

-----------------------------------------------------------------------------
(* The methods of a handle. *)
Registered(ps, cb) == [ps EXCEPT !.onEnd = cb]

Sought(ps, target) == [ps EXCEPT !.seekTo = target]

(* Variants: a Stop that leaves the callback, or the loop. *)
StoppedStillArmed(ps) ==
  [ps EXCEPT !.endAt = ps.pos, !.loop = FALSE, !.seekTo = NoSeek]
StoppedStillLooping(ps) ==
  [ps EXCEPT !.endAt = ps.pos, !.onEnd = NoCallback, !.seekTo = NoSeek]

Stopped(ps) ==
  [ps EXCEPT !.endAt = ps.pos, !.loop = FALSE, !.onEnd = NoCallback,
             !.seekTo = NoSeek]

(* StopFadeOut clears what Stop clears and plays on for at most the fade.   *)
FadingOut(ps, fade) ==
  [Stopped(ps) EXCEPT !.endAt = Smaller(ps.endAt, ps.pos + fade),
                      !.fadeOutStartsAt = ps.pos]

-----------------------------------------------------------------------------
(* Variant: a seek that is not aligned to a frame. *)
NotAligned(p) == p

(* The mixer's pass over a slot: a pending seek first, aligned to a frame. *)
Aligned(p) == p - (p % ChannelCount)

SeekApplied(ps) ==
  IF ps.seekTo = NoSeek THEN ps
  ELSE [ps EXCEPT !.pos = Aligned((ps.seekTo * ps.endAt) \div SeekScale),
                  !.seekTo = NoSeek]

(* How many samples a buffer of length len takes from the slot. *)
Taken(ps, len) == IF ps.loop THEN len ELSE Smaller(len, ps.endAt - ps.pos)

(* Variant: one sample past those taken is looked at. *)
ReachesFadeOutLate(ps, n) ==
  ps.loop /\ \E i \in 0 .. n : (ps.pos + i) % ps.endAt = ps.fadeOutStartsAt

(* A looping slot reads its samples modulo endAt; on the sample at          *)
(* fadeOutStartsAt it jumps to the start and remembers that it did.         *)
ReachesFadeOut(ps, n) ==
  ps.loop /\ \E i \in 0 .. n - 1 : (ps.pos + i) % ps.endAt = ps.fadeOutStartsAt

(* readBufferAndAdd: the state it leaves (its effect on the buffer is in    *)
(* module Mixer).  pos moves by the samples taken, jump or no jump.         *)
Mixed(ps, len) ==
  LET n == Taken(ps, len)
      p == ps.pos + n
  IN  [ps EXCEPT !.pos = IF ps.loop THEN p % ps.endAt ELSE p,
                 !.loopedOnce = @ \/ ReachesFadeOut(ps, n)]

(* The ways readBufferAndAdd panics: an integer division by zero, an index  *)
(* past the data, and the index of the sample it crossfades with.           *)
DividesByZero(ps) == ps.endAt = 0

ReadsPastData(ps, n) ==
  /\ ps.endAt > 0
  /\ \E i \in 0 .. n - 1 : (ps.pos + i) % ps.endAt >= DataLen[ps.sound]

CrossfadesOutside(ps, n) ==
  /\ ps.loopedOnce
  /\ \E di \in ps.pos .. ps.pos + n - 1 :
        /\ di < ps.fadeInEndsAt
        /\ di + ps.fadeOutStartsAt \notin 0 .. DataLen[ps.sound] - 1

Panics(ps, len) ==
  /\ Taken(ps, len) > 0
  /\ \/ DividesByZero(ps)
     \/ ReadsPastData(ps, Taken(ps, len))
     \/ CrossfadesOutside(ps, Taken(ps, len))
=============================================================================
