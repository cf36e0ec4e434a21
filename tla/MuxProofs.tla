----------------------------- MODULE MuxProofs -----------------------------
(***************************************************************************)
(* Theorems about the pool of playing sounds, for pools of any size and    *)
(* any sounds, buffers and fades.  The first part is about what each       *)
(* operation does to one slot; the second lifts it to the steps of Mux,    *)
(* and the last shows that the pool implements the voices of Voices.       *)
(***************************************************************************)
EXTENDS Mux, TLAPS

-----------------------------------------------------------------------------
(* Arithmetic the slot operations rely on. *)

(* A position aligned to a frame is even and not past the one it came from *)
(* (mux.go: ps.pos - ps.pos % channelCount). *)
LEMMA AlignedFact ==
  ASSUME NEW p \in Nat
  PROVE  /\ Aligned(p) \in Nat
         /\ Aligned(p) =< p
         /\ Aligned(p) % 2 = 0
BY DEF Aligned, ChannelCount

(* A seek lands inside 0 .. endAt (seekTo * endAt, truncated), and before  *)
(* the end when it asks for less than the whole. *)
LEMMA SeekFact ==
  ASSUME NEW k \in Nat, NEW e \in Nat
  PROVE  /\ (k * e) \div SeekScale \in Nat
         /\ k < SeekScale /\ e > 0 => (k * e) \div SeekScale < e
<1> DEFINE q == (k * e) \div SeekScale
<1>1. SeekScale \in Nat /\ SeekScale > 0
  BY SeekScaleAssumption
<1>2. k * e \in Nat
  OBVIOUS
<1>3. q \in Nat /\ SeekScale * q =< k * e
  BY <1>1, <1>2
<1>4. ASSUME k < SeekScale, e > 0, q >= e PROVE FALSE
  <2>1. k * e < SeekScale * e
    BY <1>1, <1>4
  <2>2. SeekScale * e =< SeekScale * q
    BY <1>1, <1>3, <1>4
  <2> QED
    BY <1>1, <1>2, <1>3, <2>1, <2>2
<1> QED
  BY <1>3, <1>4

(* Wrapping an even position at an even end leaves it even (the loop's     *)
(* pos %= endAt). *)
LEMMA EvenMod ==
  ASSUME NEW a \in Nat, NEW e \in Nat, e > 0, a % 2 = 0, e % 2 = 0
  PROVE  /\ a % e \in Nat
         /\ a % e < e
         /\ (a % e) % 2 = 0
<1> DEFINE q == a \div e
<1>1. q \in Nat /\ a % e \in Nat /\ a % e < e /\ a = e * q + (a % e)
  OBVIOUS
<1>2. PICK h \in Nat : e = 2 * h
  <2>1. e = 2 * (e \div 2)
    OBVIOUS
  <2> QED
    BY <2>1
<1>3. PICK g \in Nat : a = 2 * g
  <2>1. a = 2 * (a \div 2)
    OBVIOUS
  <2> QED
    BY <2>1
<1>4. h * q \in Nat /\ e * q = 2 * (h * q)
  BY <1>1, <1>2
<1>5. a % e = 2 * (g - h * q)
  BY <1>1, <1>3, <1>4
<1>6. (2 * (g - h * q)) % 2 = 0
  BY <1>4
<1> QED
  BY <1>1, <1>5, <1>6

-----------------------------------------------------------------------------
(* Types. *)

(* Allocation fills the slot with fields in range. *)
LEMMA StartsTyped ==
  ASSUME NEW ps \in SlotType, NEW s \in Sound, NEW fade \in Nat
  PROVE  /\ Started(ps, s) \in SlotType
         /\ Looping(ps, s, fade) \in SlotType
         /\ FadingIn(ps, s, fade) \in SlotType
<1>1. DataLen[s] \in Nat /\ DataLen[s] - fade \in Int
  BY SoundAssumption
<1>2. Started(ps, s) \in SlotType
  BY <1>1 DEF SlotType, Started, NoSeek
<1>3. Looping(ps, s, fade) \in SlotType
  BY <1>1, <1>2 DEF SlotType, Looping
<1>4. FadingIn(ps, s, fade) \in SlotType
  BY <1>2 DEF SlotType, FadingIn
<1> QED
  BY <1>2, <1>3, <1>4

(* The methods of a handle keep the slot's fields in range. *)
LEMMA HandlesTyped ==
  ASSUME NEW ps \in SlotType, NEW fade \in Nat,
         NEW cb \in Callback \cup {NoCallback}, NEW target \in Nat
  PROVE  /\ Registered(ps, cb) \in SlotType
         /\ Sought(ps, target) \in SlotType
         /\ Stopped(ps) \in SlotType
         /\ FadingOut(ps, fade) \in SlotType
<1>1. /\ Registered(ps, cb) \in SlotType
      /\ Sought(ps, target) \in SlotType
      /\ Stopped(ps) \in SlotType
  BY DEF SlotType, Registered, Sought, Stopped, NoSeek
<1>2. Smaller(ps.endAt, ps.pos + fade) \in Nat /\ ps.pos \in Int
  BY DEF SlotType, Smaller
<1>3. FadingOut(ps, fade) \in SlotType
  BY <1>1, <1>2 DEF SlotType, FadingOut
<1> QED
  BY <1>1, <1>3

(* A pending seek leaves a typed slot, at the start of a frame. *)
LEMMA SeekAppliedTyped ==
  ASSUME NEW ps \in SlotType
  PROVE  /\ SeekApplied(ps) \in SlotType
         /\ ps.seekTo # NoSeek =>
              /\ SeekApplied(ps).pos =< (ps.seekTo * ps.endAt) \div SeekScale
              /\ SeekApplied(ps).pos % 2 = 0
<1>1. CASE ps.seekTo = NoSeek
  BY <1>1 DEF SeekApplied
<1>2. CASE ps.seekTo # NoSeek
  <2> DEFINE p == (ps.seekTo * ps.endAt) \div SeekScale
  <2>1. ps.seekTo \in Nat /\ ps.endAt \in Nat
    BY <1>2 DEF SlotType
  <2>2. p \in Nat
    BY <2>1, SeekFact
  <2>3. Aligned(p) \in Nat /\ Aligned(p) =< p /\ Aligned(p) % 2 = 0
    BY <2>2, AlignedFact
  <2>4. SeekApplied(ps) = [ps EXCEPT !.pos = Aligned(p), !.seekTo = NoSeek]
    BY <1>2 DEF SeekApplied
  <2> QED
    BY <2>3, <2>4 DEF SlotType
<1> QED
  BY <1>1, <1>2

(* Mixing a slot that sounds and does not panic advances it by the samples *)
(* taken, modulo the end when it loops. *)
LEMMA MixedFact ==
  ASSUME NEW ps \in SlotType, NEW len \in Nat, len > 0,
         ~IsFree(ps), ~Panics(ps, len)
  PROVE  /\ Mixed(ps, len) \in SlotType
         /\ Taken(ps, len) \in Nat \ {0}
         /\ ps.endAt > 0
         /\ ps.loop => /\ Mixed(ps, len).pos = (ps.pos + len) % ps.endAt
                       /\ Mixed(ps, len).pos < ps.endAt
         /\ ~ps.loop => /\ Mixed(ps, len).pos = ps.pos + Taken(ps, len)
                        /\ Mixed(ps, len).pos =< ps.endAt
                        /\ Taken(ps, len) = len \/ Mixed(ps, len).pos = ps.endAt
<1> DEFINE n == Taken(ps, len)
<1>1. ps.pos \in Nat /\ ps.endAt \in Nat /\ ps.loop \in BOOLEAN
  BY DEF SlotType
<1>2. n \in Nat /\ n > 0
  BY <1>1 DEF Taken, Smaller, IsFree
<1>3. ps.endAt > 0
  BY <1>1, <1>2 DEF Panics, DividesByZero
<1>4. /\ Mixed(ps, len) \in SlotType
      /\ Mixed(ps, len).pos = IF ps.loop THEN (ps.pos + n) % ps.endAt
                                         ELSE ps.pos + n
  <2> DEFINE q == IF ps.loop THEN (ps.pos + n) % ps.endAt ELSE ps.pos + n
             o == ps.loopedOnce \/ ReachesFadeOut(ps, n)
  <2>1. q \in Nat
    BY <1>1, <1>2, <1>3
  <2>2. o \in BOOLEAN
    BY DEF ReachesFadeOut
  <2>3. Mixed(ps, len) = [ps EXCEPT !.pos = q, !.loopedOnce = o]
    BY DEF Mixed
  <2> HIDE DEF q, o
  <2>4. Mixed(ps, len) \in SlotType /\ Mixed(ps, len).pos = q
    BY <2>1, <2>2, <2>3 DEF SlotType
  <2> QED
    BY <2>4 DEF q
<1>5. CASE ps.loop
  BY <1>1, <1>2, <1>3, <1>4, <1>5 DEF Taken
<1>6. CASE ~ps.loop
  BY <1>1, <1>2, <1>3, <1>4, <1>6 DEF Taken, Smaller
<1> QED
  BY <1>2, <1>3, <1>4, <1>5, <1>6

-----------------------------------------------------------------------------
(* What one step can do to one slot.  An invariant about single slots is   *)
(* preserved by Next when it is preserved by SlotStep. *)

CallOn(ps, new) ==
  \/ \E s \in Sound : IsFree(ps) /\ new = Started(ps, s)
  \/ \E s \in Sound : \E fade \in CrossFades[s] :
       IsFree(ps) /\ new = Looping(ps, s, fade)
  \/ \E s \in Sound : \E fade \in FadeIns :
       IsFree(ps) /\ new = FadingIn(ps, s, fade)
  \/ \E cb \in Callback :
       (LateCalls \/ ~IsFree(ps)) /\ new = Registered(ps, cb)
  \/ \E target \in SeekTargets :
       (LateCalls \/ ~IsFree(ps)) /\ new = Sought(ps, target)
  \/ new = Stopped(ps)
  \/ \E fade \in FadeOuts : new = FadingOut(ps, fade)

MixOn(ps, new) ==
  \E len \in BufLens : /\ ~IsFree(SeekApplied(ps))
                       /\ ~Panics(SeekApplied(ps), len)
                       /\ new = Mixed(SeekApplied(ps), len)

SlotStep(ps, new) ==
  \/ CallOn(ps, new)
  \/ new = SeekApplied(ps)
  \/ MixOn(ps, new)
  \/ new = Registered(ps, NoCallback)

(* While the audio thread works it has a buffer, and in a callback a slot. *)
AtWork ==
  /\ pc \in {"mixing", "callback"} => bufLen \in BufLens
  /\ pc = "callback" => cursor \in Slot

TypeInv == TypeOK /\ AtWork

(* Every call of the game is a CallOn on one slot. *)
LEMMA GameSteps ==
  ASSUME TypeInv, GameStep
  PROVE  /\ UNCHANGED <<pc, cursor, bufLen>>
         /\ \/ slot' = slot /\ paused' \in SUBSET Channel
            \/ /\ paused' = paused
               /\ \E i \in Slot : \E new : /\ slot' = [slot EXCEPT ![i] = new]
                                           /\ CallOn(slot[i], new)
<1>1. CASE \E c \in Channel : Pause(c) \/ Resume(c)
  BY <1>1 DEF Pause, Resume, SetPaused, TypeInv, TypeOK
<1>2. ASSUME NEW i \in Slot, NEW s \in Sound,
             Play(i, s) \/ PlayLoop(i, s) \/ PlayFadeIn(i, s)
      PROVE  /\ UNCHANGED <<pc, cursor, bufLen, paused>>
             /\ \E new : /\ slot' = [slot EXCEPT ![i] = new]
                         /\ CallOn(slot[i], new)
  BY <1>2 DEF Play, PlayLoop, PlayFadeIn, FirstFree, SetSlot, CallOn
<1>3. ASSUME NEW i \in Slot, NEW cb \in Callback, OnEndCallback(i, cb)
      PROVE  /\ UNCHANGED <<pc, cursor, bufLen, paused>>
             /\ \E new : /\ slot' = [slot EXCEPT ![i] = new]
                         /\ CallOn(slot[i], new)
  BY <1>3 DEF OnEndCallback, SetSlot, CallOn
<1>4. ASSUME NEW i \in Slot, NEW target \in SeekTargets, Seek(i, target)
      PROVE  /\ UNCHANGED <<pc, cursor, bufLen, paused>>
             /\ \E new : /\ slot' = [slot EXCEPT ![i] = new]
                         /\ CallOn(slot[i], new)
  BY <1>4 DEF Seek, SetSlot, CallOn
<1>5. ASSUME NEW i \in Slot, Stop(i) \/ StopFadeOut(i)
      PROVE  /\ UNCHANGED <<pc, cursor, bufLen, paused>>
             /\ \E new : /\ slot' = [slot EXCEPT ![i] = new]
                         /\ CallOn(slot[i], new)
  BY <1>5 DEF Stop, StopFadeOut, SetSlot, CallOn
<1> QED
  BY <1>1, <1>2, <1>3, <1>4, <1>5 DEF GameStep

(* Every step leaves all slots alone but one, which takes a SlotStep. *)
LEMMA StepsBySlot ==
  ASSUME TypeInv, [Next]_vars
  PROVE  \/ slot' = slot
         \/ \E i \in Slot : \E new : /\ slot' = [slot EXCEPT ![i] = new]
                                     /\ SlotStep(slot[i], new)
<1>1. CASE GameStep
  BY <1>1, GameSteps DEF SlotStep
<1>2. CASE SkipSlot
  <2>1. cursor \in Slot
    BY <1>2, PoolSizeAssumption DEF SkipSlot, AtSlot, TypeInv, TypeOK, Slot
  <2> QED
    BY <1>2, <2>1 DEF SkipSlot, Current, SlotStep
<1>3. CASE MixSlot
  <2>1. cursor \in Slot /\ bufLen \in BufLens
    BY <1>3, PoolSizeAssumption DEF MixSlot, AtSlot, TypeInv, TypeOK, AtWork, Slot
  <2>2. slot' = [slot EXCEPT ![cursor] = Played]
    BY <1>3 DEF MixSlot
  <2>3. CASE IsPaused(Current)
    <3>1. Played = SeekApplied(slot[cursor])
      BY <2>3 DEF Played, Current
    <3> QED
      BY <2>1, <2>2, <3>1 DEF SlotStep
  <2>4. CASE ~IsPaused(Current)
    <3>1. MixOn(slot[cursor], Played)
      BY <1>3, <2>1, <2>4 DEF MixSlot, Crashes, Played, Current, MixOn
    <3> QED
      BY <2>1, <2>2, <3>1 DEF SlotStep
  <2> QED
    BY <2>3, <2>4
<1>4. CASE ReturnFromCallback
  <2>1. cursor \in Slot
    BY <1>4 DEF ReturnFromCallback, TypeInv, AtWork
  <2>2. slot' = [slot EXCEPT ![cursor] = Registered(slot[cursor], NoCallback)]
    BY <1>4, <2>1 DEF ReturnFromCallback, TypeInv, TypeOK
  <2> QED
    BY <2>1, <2>2 DEF SlotStep
<1>5. CASE BeginPass \/ Panic \/ EndPass \/ UNCHANGED vars
  BY <1>5 DEF BeginPass, Panic, EndPass, vars
<1> QED
  BY <1>1, <1>2, <1>3, <1>4, <1>5 DEF Next, AudioStep

(* SlotStep keeps a slot typed. *)
LEMMA SlotStepTyped ==
  ASSUME NEW ps \in SlotType, NEW new, SlotStep(ps, new)
  PROVE  new \in SlotType
<1>1. CASE CallOn(ps, new)
  <2>1. ASSUME NEW s \in Sound, new = Started(ps, s) PROVE new \in SlotType
    BY <2>1, StartsTyped
  <2>2. ASSUME NEW s \in Sound, NEW fade \in CrossFades[s],
               new = Looping(ps, s, fade)
        PROVE  new \in SlotType
    BY <2>2, StartsTyped, FadesAssumption
  <2>3. ASSUME NEW s \in Sound, NEW fade \in FadeIns, new = FadingIn(ps, s, fade)
        PROVE  new \in SlotType
    BY <2>3, StartsTyped, FadesAssumption
  <2>4. ASSUME NEW cb \in Callback, new = Registered(ps, cb)
        PROVE  new \in SlotType
    BY <2>4, HandlesTyped
  <2>5. ASSUME NEW target \in SeekTargets, new = Sought(ps, target)
        PROVE  new \in SlotType
    BY <2>5, HandlesTyped, SeekTargetsAssumption
  <2>6. CASE new = Stopped(ps)
    BY <2>6, HandlesTyped
  <2>7. ASSUME NEW fade \in FadeOuts, new = FadingOut(ps, fade)
        PROVE  new \in SlotType
    BY <2>7, HandlesTyped, FadesAssumption
  <2> QED
    BY <1>1, <2>1, <2>2, <2>3, <2>4, <2>5, <2>6, <2>7 DEF CallOn
<1>2. CASE new = SeekApplied(ps)
  BY <1>2, SeekAppliedTyped
<1>3. CASE MixOn(ps, new)
  <2>1. PICK len \in BufLens : /\ ~IsFree(SeekApplied(ps))
                               /\ ~Panics(SeekApplied(ps), len)
                               /\ new = Mixed(SeekApplied(ps), len)
    BY <1>3 DEF MixOn
  <2>2. len \in Nat /\ len > 0 /\ SeekApplied(ps) \in SlotType
    BY SeekAppliedTyped, BufLensAssumption
  <2> QED
    BY <2>1, <2>2, MixedFact
<1>4. CASE new = Registered(ps, NoCallback)
  BY <1>4, HandlesTyped
<1> QED
  BY <1>1, <1>2, <1>3, <1>4 DEF SlotStep

-----------------------------------------------------------------------------
(* Type correctness is inductive: the fields of every slot stay in range   *)
(* (in particular pos and endAt never go negative), cursor stays within    *)
(* the pool and the audio thread works on a buffer some driver asked for.  *)
LEMMA TypeStep ==
  ASSUME TypeInv, [Next]_vars
  PROVE  TypeInv'
<1>1. slot' \in [Slot -> SlotType]
  BY StepsBySlot, SlotStepTyped DEF TypeInv, TypeOK
<1>2. CASE GameStep
  BY <1>1, <1>2, GameSteps DEF TypeInv, TypeOK, AtWork
<1>3. CASE BeginPass
  BY <1>1, <1>3, PoolSizeAssumption DEF BeginPass, TypeInv, TypeOK, AtWork
<1>4. CASE SkipSlot
  BY <1>1, <1>4, PoolSizeAssumption DEF SkipSlot, AtSlot, TypeInv, TypeOK, AtWork
<1>5. CASE MixSlot
  BY <1>1, <1>5, PoolSizeAssumption
  DEF MixSlot, AtSlot, TypeInv, TypeOK, AtWork, Slot
<1>6. CASE ReturnFromCallback
  BY <1>1, <1>6, PoolSizeAssumption
  DEF ReturnFromCallback, TypeInv, TypeOK, AtWork, Slot
<1>7. CASE Panic
  BY <1>1, <1>7 DEF Panic, TypeInv, TypeOK, AtWork
<1>8. CASE EndPass
  BY <1>1, <1>8, PoolSizeAssumption DEF EndPass, TypeInv, TypeOK, AtWork
<1>9. CASE UNCHANGED vars
  BY <1>9 DEF vars, TypeInv, TypeOK, AtWork
<1> QED
  BY <1>2, <1>3, <1>4, <1>5, <1>6, <1>7, <1>8, <1>9 DEF Next, AudioStep

LEMMA TypeInit == Init => TypeInv
<1>1. ZeroSlot \in SlotType
  BY DEF ZeroSlot, SlotType
<1> QED
  BY <1>1, PoolSizeAssumption DEF Init, TypeInv, TypeOK, AtWork, Slot

(* So it holds in every behaviour of the pool.                             *)
THEOREM TypeInvariant == Spec => []TypeInv
BY TypeInit, TypeStep, PTL DEF Spec

(* The fields of slots, the cursor and the buffer keep their types.        *)
COROLLARY TypeCorrect == Spec => []TypeOK
BY TypeInvariant, PTL DEF TypeInv

-----------------------------------------------------------------------------
(* Whole frames.  pos is even while the slot sounds; for a loop, whose pos *)
(* wraps at endAt, this needs an even endAt. *)
FrameOK(ps) ==
  /\ ~IsFree(ps) => ps.pos % 2 = 0
  /\ ps.loop => ps.endAt % 2 = 0

(* The fields of a slot after a call of the game that starts a sound, that *)
(* registers or seeks, or that stops or fades out. *)
Allocated(ps, new) ==
  /\ IsFree(ps)
  /\ new.sound \in Sound
  /\ new.pos = 0
  /\ new.endAt = DataLen[new.sound]
  /\ new.seekTo = NoSeek
  /\ new.onEnd = ps.onEnd
  /\ new.loopedOnce = FALSE
  /\ new.loop \in BOOLEAN
  /\ new.loop => /\ new.fadeInEndsAt \in CrossFades[new.sound]
                 /\ new.fadeOutStartsAt = new.endAt - new.fadeInEndsAt

Handled(ps, new) ==
  /\ LateCalls \/ ~IsFree(ps)
  /\ \/ \E cb \in Callback : new = Registered(ps, cb)
     \/ \E target \in SeekTargets : new = Sought(ps, target)

Silenced(ps, new) ==
  /\ new.sound = ps.sound
  /\ new.pos = ps.pos
  /\ new.endAt \in Nat
  /\ new.endAt =< ps.endAt \/ new.endAt = ps.pos
  /\ new.endAt >= ps.pos \/ new.endAt = ps.endAt
  /\ new.seekTo = NoSeek
  /\ new.onEnd = NoCallback
  /\ new.loop = FALSE
  /\ new.loopedOnce = ps.loopedOnce
  /\ new.fadeInEndsAt = ps.fadeInEndsAt
  /\ new.fadeOutStartsAt \in {ps.pos, ps.fadeOutStartsAt}
  /\ IsFree(new) \/ (~IsFree(ps) /\ new.fadeOutStartsAt = ps.pos)

LEMMA CallFields ==
  ASSUME NEW ps \in SlotType, NEW new, CallOn(ps, new)
  PROVE  Allocated(ps, new) \/ Handled(ps, new) \/ Silenced(ps, new)
<1>1. ASSUME NEW s \in Sound, IsFree(ps), new = Started(ps, s)
      PROVE  Allocated(ps, new)
  BY <1>1 DEF Started, Allocated
<1>2. ASSUME NEW s \in Sound, NEW fade \in CrossFades[s], IsFree(ps),
             new = Looping(ps, s, fade)
      PROVE  Allocated(ps, new)
  BY <1>2 DEF Started, Looping, Allocated
<1>3. ASSUME NEW s \in Sound, NEW fade \in FadeIns, IsFree(ps),
             new = FadingIn(ps, s, fade)
      PROVE  Allocated(ps, new)
  BY <1>3 DEF Started, FadingIn, Allocated
<1>4. Stopped(ps) = [ps EXCEPT !.endAt = ps.pos, !.loop = FALSE,
                               !.onEnd = NoCallback, !.seekTo = NoSeek]
  BY DEF Stopped
<1>5. ps.pos \in Nat /\ ps.endAt \in Nat
  BY DEF SlotType
<1>6. /\ Stopped(ps).sound = ps.sound
      /\ Stopped(ps).pos = ps.pos
      /\ Stopped(ps).endAt = ps.pos
      /\ Stopped(ps).seekTo = NoSeek
      /\ Stopped(ps).onEnd = NoCallback
      /\ Stopped(ps).loop = FALSE
      /\ Stopped(ps).loopedOnce = ps.loopedOnce
      /\ Stopped(ps).fadeInEndsAt = ps.fadeInEndsAt
      /\ Stopped(ps).fadeOutStartsAt = ps.fadeOutStartsAt
      /\ Stopped(ps) \in SlotType
  BY <1>4, <1>5 DEF SlotType, NoSeek
<1>7. ASSUME new = Stopped(ps) PROVE Silenced(ps, new)
  BY <1>5, <1>6, <1>7 DEF Silenced, IsFree
<1>8. ASSUME NEW fade \in FadeOuts, new = FadingOut(ps, fade)
      PROVE  /\ new.sound = ps.sound /\ new.pos = ps.pos
             /\ new.endAt = Smaller(ps.endAt, ps.pos + fade)
             /\ new.seekTo = NoSeek /\ new.onEnd = NoCallback
             /\ new.loop = FALSE /\ new.loopedOnce = ps.loopedOnce
             /\ new.fadeInEndsAt = ps.fadeInEndsAt
             /\ new.fadeOutStartsAt = ps.pos
  <2>1. new = [Stopped(ps) EXCEPT !.endAt = Smaller(ps.endAt, ps.pos + fade),
                                  !.fadeOutStartsAt = ps.pos]
    BY <1>8 DEF FadingOut
  <2> QED
    BY <1>6, <2>1 DEF SlotType
<1>9. ASSUME NEW fade \in FadeOuts, new = FadingOut(ps, fade)
      PROVE  /\ new.endAt \in Nat
             /\ new.endAt =< ps.endAt
             /\ new.endAt >= ps.pos \/ new.endAt = ps.endAt
             /\ IsFree(new) \/ (~IsFree(ps) /\ new.fadeOutStartsAt = ps.pos)
  <2>1. fade \in Nat
    BY FadesAssumption
  <2>2. /\ new.pos = ps.pos /\ new.loop = FALSE
        /\ new.endAt = Smaller(ps.endAt, ps.pos + fade)
        /\ new.fadeOutStartsAt = ps.pos
    BY <1>8, <1>9
  <2>3. /\ new.endAt \in Nat /\ new.endAt =< ps.endAt
        /\ new.endAt >= ps.pos \/ new.endAt = ps.endAt
    BY <1>5, <2>1, <2>2 DEF Smaller
  <2>4. IsFree(new) \/ ~IsFree(ps)
    BY <1>5, <2>2, <2>3 DEF IsFree
  <2> QED
    BY <2>2, <2>3, <2>4
<1>10. ASSUME NEW fade \in FadeOuts, new = FadingOut(ps, fade)
       PROVE  Silenced(ps, new)
  BY <1>8, <1>9, <1>10 DEF Silenced
<1> QED
  BY <1>1, <1>2, <1>3, <1>7, <1>10 DEF CallOn, Handled

(* Registering and seeking touch one field each. *)
LEMMA HandleFields ==
  ASSUME NEW ps \in SlotType, NEW cb, NEW target
  PROVE  /\ \A f \in {Registered(ps, cb), Sought(ps, target)} :
              /\ f.sound = ps.sound
              /\ f.pos = ps.pos
              /\ f.endAt = ps.endAt
              /\ f.loop = ps.loop
              /\ f.loopedOnce = ps.loopedOnce
              /\ f.fadeInEndsAt = ps.fadeInEndsAt
              /\ f.fadeOutStartsAt = ps.fadeOutStartsAt
         /\ Registered(ps, cb).onEnd = cb
         /\ Registered(ps, cb).seekTo = ps.seekTo
         /\ Sought(ps, target).onEnd = ps.onEnd
         /\ Sought(ps, target).seekTo = target
BY DEF SlotType, Registered, Sought

(* A pending seek changes pos and itself only. *)
LEMMA SeekFields ==
  ASSUME NEW ps \in SlotType
  PROVE  LET new == SeekApplied(ps) IN
         /\ new.sound = ps.sound
         /\ new.endAt = ps.endAt
         /\ new.loop = ps.loop
         /\ new.loopedOnce = ps.loopedOnce
         /\ new.fadeInEndsAt = ps.fadeInEndsAt
         /\ new.fadeOutStartsAt = ps.fadeOutStartsAt
         /\ new.onEnd = ps.onEnd
         /\ new.seekTo = NoSeek
         /\ ps.seekTo = NoSeek => new = ps
<1>1. CASE ps.seekTo = NoSeek
  BY <1>1 DEF SeekApplied
<1>2. CASE ps.seekTo # NoSeek
  <2> DEFINE p == Aligned((ps.seekTo * ps.endAt) \div SeekScale)
  <2>1. SeekApplied(ps) = [ps EXCEPT !.pos = p, !.seekTo = NoSeek]
    BY <1>2 DEF SeekApplied
  <2> HIDE DEF p
  <2> QED
    BY <1>2, <2>1 DEF SlotType
<1> QED
  BY <1>1, <1>2

(* MixOn changes pos and loopedOnce only. *)
LEMMA MixedFields ==
  ASSUME NEW ps \in SlotType, NEW len
  PROVE  LET new == Mixed(ps, len) IN
         /\ new.sound = ps.sound
         /\ new.endAt = ps.endAt
         /\ new.loop = ps.loop
         /\ new.fadeInEndsAt = ps.fadeInEndsAt
         /\ new.fadeOutStartsAt = ps.fadeOutStartsAt
         /\ new.onEnd = ps.onEnd
         /\ new.seekTo = ps.seekTo
         /\ new.loopedOnce = (ps.loopedOnce \/ ReachesFadeOut(ps, Taken(ps, len)))
<1> DEFINE n == Taken(ps, len)
           q == IF ps.loop THEN (ps.pos + n) % ps.endAt ELSE ps.pos + n
           o == ps.loopedOnce \/ ReachesFadeOut(ps, n)
<1>1. Mixed(ps, len) = [ps EXCEPT !.pos = q, !.loopedOnce = o]
  BY DEF Mixed
<1> HIDE DEF q, o
<1>2. /\ Mixed(ps, len).loopedOnce = o
      /\ Mixed(ps, len).sound = ps.sound
      /\ Mixed(ps, len).endAt = ps.endAt
      /\ Mixed(ps, len).loop = ps.loop
      /\ Mixed(ps, len).fadeInEndsAt = ps.fadeInEndsAt
      /\ Mixed(ps, len).fadeOutStartsAt = ps.fadeOutStartsAt
      /\ Mixed(ps, len).onEnd = ps.onEnd
      /\ Mixed(ps, len).seekTo = ps.seekTo
  BY <1>1 DEF SlotType
<1> QED
  BY <1>2 DEF o

-----------------------------------------------------------------------------
(* A step on one slot keeps a sounding slot at the start of a frame. *)
LEMMA FrameStep ==
  ASSUME NEW ps \in SlotType, NEW new, FrameOK(ps), SlotStep(ps, new)
  PROVE  FrameOK(new)
<1>1. ps.pos \in Nat /\ ps.endAt \in Nat /\ ps.loop \in BOOLEAN
  BY DEF SlotType
<1>2. CASE CallOn(ps, new)
  <2>1. CASE Allocated(ps, new)
    BY <2>1, SoundAssumption DEF Allocated, FrameOK
  <2>2. CASE Handled(ps, new)
    BY <2>2, HandleFields DEF Handled, FrameOK, IsFree
  <2>3. CASE Silenced(ps, new)
    BY <1>1, <2>3 DEF Silenced, FrameOK, IsFree
  <2> QED
    BY <1>2, <2>1, <2>2, <2>3, CallFields
<1>3. FrameOK(SeekApplied(ps))
  <2>1. CASE ps.seekTo = NoSeek
    BY <2>1, SeekFields
  <2>2. CASE ps.seekTo # NoSeek
    BY <2>2, SeekFields, SeekAppliedTyped DEF FrameOK
  <2> QED
    BY <2>1, <2>2
<1>4. CASE MixOn(ps, new)
  <2> DEFINE sk == SeekApplied(ps)
  <2>1. PICK len \in BufLens : /\ ~IsFree(sk) /\ ~Panics(sk, len)
                               /\ new = Mixed(sk, len)
    BY <1>4 DEF MixOn
  <2>2. sk \in SlotType /\ len \in Nat /\ len > 0 /\ len % 2 = 0
    BY SeekAppliedTyped, BufLensAssumption
  <2>3. /\ sk.pos \in Nat /\ sk.endAt \in Nat /\ sk.loop \in BOOLEAN
        /\ sk.pos % 2 = 0
    BY <1>3, <2>1, <2>2 DEF SlotType, FrameOK
  <2>4. new.endAt = sk.endAt /\ new.loop = sk.loop
    BY <2>1, <2>2, MixedFields
  <2> HIDE DEF sk
  <2>5. CASE sk.loop
    <3>1. sk.endAt > 0 /\ sk.endAt % 2 = 0 /\ new.pos = (sk.pos + len) % sk.endAt
      BY <1>3, <2>1, <2>2, <2>5, MixedFact DEF FrameOK, sk
    <3>2. sk.pos + len \in Nat /\ (sk.pos + len) % 2 = 0
      BY <2>2, <2>3
    <3>3. new.pos % 2 = 0
      BY <2>3, <3>1, <3>2, EvenMod
    <3> QED
      BY <2>4, <3>1, <3>3 DEF FrameOK
  <2>6. CASE ~sk.loop
    <3>1. /\ Taken(sk, len) = len \/ new.pos = sk.endAt
          /\ new.pos = sk.pos + Taken(sk, len)
      BY <2>1, <2>2, <2>6, MixedFact
    <3> QED
      BY <2>2, <2>3, <2>4, <2>6, <3>1 DEF FrameOK, IsFree
  <2> QED
    BY <2>5, <2>6
<1>5. CASE new = Registered(ps, NoCallback)
  BY <1>5, HandleFields DEF FrameOK, IsFree
<1> QED
  BY <1>2, <1>3, <1>4, <1>5 DEF SlotStep

FrameInv == \A i \in Slot : FrameOK(slot[i])

(* The mixer never reads from the middle of a frame, so left and right are *)
(* never swapped by a seek, a fade of odd length or the end of a loop. *)
THEOREM FramesStayAligned == Spec => []FramesAligned
<1>1. Init => FrameInv
  BY DEF Init, FrameInv, FrameOK, ZeroSlot, IsFree
<1>2. TypeInv /\ FrameInv /\ [Next]_vars => FrameInv'
  <2> SUFFICES ASSUME TypeInv, FrameInv, [Next]_vars PROVE FrameInv'
    OBVIOUS
  <2>1. CASE slot' = slot
    BY <2>1 DEF FrameInv
  <2>2. ASSUME NEW i \in Slot, NEW new, slot' = [slot EXCEPT ![i] = new],
               SlotStep(slot[i], new)
        PROVE  FrameInv'
    BY <2>2, FrameStep DEF FrameInv, TypeInv, TypeOK
  <2> QED
    BY <2>1, <2>2, StepsBySlot
<1>3. FrameInv => FramesAligned
  BY DEF FrameInv, FrameOK, FramesAligned, ChannelCount
<1> QED
  BY <1>1, <1>2, <1>3, TypeInvariant, PTL DEF Spec

-----------------------------------------------------------------------------
(* Games that use a handle only while its sound plays, and never seek to   *)
(* the very end. *)
Disciplined == LateCalls = FALSE /\ \A target \in SeekTargets : target < SeekScale

(* A seek is pending only on a slot that sounds (or was never used, whose  *)
(* zero seekTo is harmless), and it is one that stays before the end. *)
SeekOK(ps) ==
  ps.seekTo # NoSeek => /\ ps.seekTo < SeekScale
                        /\ IsFree(ps) => ps.endAt = 0

LEMMA SeekStep ==
  ASSUME Disciplined, NEW ps \in SlotType, NEW new, SeekOK(ps), SlotStep(ps, new)
  PROVE  SeekOK(new)
<1>1. CASE CallOn(ps, new)
  <2>1. CASE Allocated(ps, new) \/ Silenced(ps, new)
    BY <2>1 DEF Allocated, Silenced, SeekOK
  <2>2. ASSUME NEW cb, new = Registered(ps, cb) PROVE SeekOK(new)
    BY <2>2, HandleFields DEF SeekOK, IsFree
  <2>3. ASSUME NEW target \in SeekTargets, ~IsFree(ps), new = Sought(ps, target)
        PROVE  SeekOK(new)
    BY <2>3, HandleFields DEF SeekOK, IsFree, Disciplined
  <2> QED
    BY <1>1, <2>1, <2>2, <2>3, CallFields DEF Handled, Disciplined
<1>2. CASE new = SeekApplied(ps)
  BY <1>2, SeekFields DEF SeekOK
<1>3. CASE MixOn(ps, new)
  <2>1. PICK len \in BufLens : new = Mixed(SeekApplied(ps), len)
    BY <1>3 DEF MixOn
  <2> QED
    BY <2>1, SeekFields, SeekAppliedTyped, MixedFields DEF SeekOK
<1>4. CASE new = Registered(ps, NoCallback)
  BY <1>4, HandleFields DEF SeekOK, IsFree
<1> QED
  BY <1>1, <1>2, <1>3, <1>4 DEF SlotStep

(* Then a pending seek neither revives a slot nor ends it. *)
LEMMA SeekKeepsFree ==
  ASSUME NEW ps \in SlotType, SeekOK(ps)
  PROVE  IsFree(SeekApplied(ps)) <=> IsFree(ps)
<1>1. CASE ps.seekTo = NoSeek
  BY <1>1, SeekFields
<1>2. CASE ps.seekTo # NoSeek
  <2> DEFINE new == SeekApplied(ps)
             p == (ps.seekTo * ps.endAt) \div SeekScale
  <2>1. /\ ps.seekTo \in Nat /\ ps.endAt \in Nat /\ ps.pos \in Nat
        /\ ps.loop \in BOOLEAN /\ ps.seekTo < SeekScale
    BY <1>2 DEF SlotType, SeekOK
  <2>2. p \in Nat /\ (ps.endAt > 0 => p < ps.endAt)
    BY <2>1, SeekFact
  <2>3. new.pos \in Nat /\ new.pos =< p /\ new.endAt = ps.endAt /\ new.loop = ps.loop
    BY <1>2, SeekAppliedTyped, SeekFields DEF SlotType
  <2>4. CASE ps.endAt = 0
    BY <2>1, <2>3, <2>4 DEF IsFree
  <2>5. CASE ps.endAt > 0
    <3>1. new.pos < ps.endAt
      BY <2>1, <2>2, <2>3, <2>5
    <3>2. ~IsFree(new)
      BY <2>1, <2>3, <3>1 DEF IsFree
    <3>3. ~IsFree(ps)
      BY <1>2, <2>5 DEF SeekOK
    <3> QED
      BY <3>2, <3>3
  <2> QED
    BY <2>1, <2>4, <2>5
<1> QED
  BY <1>1, <1>2

SeekInv == \A i \in Slot : SeekOK(slot[i])

LEMMA SeekInvariant ==
  ASSUME Disciplined
  PROVE  Spec => [](TypeInv /\ SeekInv)
<1>1. Init => SeekInv
  BY SeekScaleAssumption DEF Init, SeekInv, SeekOK, ZeroSlot
<1>2. TypeInv /\ SeekInv /\ [Next]_vars => SeekInv'
  <2> SUFFICES ASSUME TypeInv, SeekInv, [Next]_vars PROVE SeekInv'
    OBVIOUS
  <2>1. CASE slot' = slot
    BY <2>1 DEF SeekInv
  <2>2. ASSUME NEW i \in Slot, NEW new, slot' = [slot EXCEPT ![i] = new],
               SlotStep(slot[i], new)
        PROVE  SeekInv'
    BY <2>2, SeekStep DEF SeekInv, TypeInv, TypeOK
  <2> QED
    BY <2>1, <2>2, StepsBySlot
<1> QED
  BY <1>1, <1>2, TypeInvariant, PTL DEF Spec

-----------------------------------------------------------------------------
(* A free slot carries no callback into its next use, although allocation  *)
(* never resets it: the steps that end a sound clear it or call it. *)
THEOREM NoCallbackGoesStale ==
  ASSUME Disciplined
  PROVE  Spec => []NoStaleCallback
<1>1. Init => NoStaleCallback
  BY DEF Init, NoStaleCallback, ZeroSlot
<1>2. TypeInv /\ SeekInv /\ NoStaleCallback /\ [Next]_vars => NoStaleCallback'
  <2> SUFFICES ASSUME TypeInv, SeekInv, NoStaleCallback, [Next]_vars
               PROVE  NoStaleCallback'
    OBVIOUS
  <2>0. slot \in [Slot -> SlotType]
    BY DEF TypeInv, TypeOK
  <2>1. CASE GameStep
    <3>1. CASE slot' = slot
      BY <2>1, <3>1, GameSteps DEF NoStaleCallback
    <3>2. ASSUME NEW i \in Slot, NEW new, slot' = [slot EXCEPT ![i] = new],
                 CallOn(slot[i], new)
          PROVE  NoStaleCallback'
      <4>1. IsFree(new) /\ new.onEnd # NoCallback
              => IsFree(slot[i]) /\ slot[i].onEnd # NoCallback
        <5>1. CASE Allocated(slot[i], new) \/ Silenced(slot[i], new)
          BY <5>1 DEF Allocated, Silenced
        <5>2. CASE Handled(slot[i], new)
          BY <2>0, <5>2, HandleFields DEF Handled, Disciplined, IsFree
        <5> QED
          BY <2>0, <3>2, <5>1, <5>2, CallFields
      <4> QED
        BY <2>0, <2>1, <3>2, <4>1, GameSteps DEF NoStaleCallback
    <3> QED
      BY <2>1, <3>1, <3>2, GameSteps
  <2>2. CASE SkipSlot
    <3>1. cursor \in Slot /\ pc = "mixing" /\ IsFree(Current)
      BY <2>2, PoolSizeAssumption DEF SkipSlot, AtSlot, TypeInv, TypeOK, Slot
    <3>2. IsFree(slot[cursor]) /\ Current.onEnd = slot[cursor].onEnd
      BY <2>0, <3>1, SeekKeepsFree, SeekFields DEF SeekInv, Current
    <3>3. Current.onEnd = NoCallback
      BY <3>1, <3>2 DEF NoStaleCallback
    <3> QED
      BY <2>0, <2>2, <3>1, <3>3 DEF SkipSlot, NoStaleCallback
  <2>3. CASE MixSlot
    <3>1. cursor \in Slot /\ pc = "mixing"
      BY <2>3, PoolSizeAssumption DEF MixSlot, AtSlot, TypeInv, TypeOK, Slot
    <3>2. slot' = [slot EXCEPT ![cursor] = Played]
      BY <2>3 DEF MixSlot
    <3>3. \/ pc' = "callback" /\ cursor' = cursor
          \/ IsPlaying(Played) \/ Played.onEnd = NoCallback
      BY <2>3 DEF MixSlot
    <3>4. Played \in SlotType
      <4>1. slot' \in [Slot -> SlotType]
        BY <2>0, StepsBySlot, SlotStepTyped
      <4> QED
        BY <2>0, <3>1, <3>2, <4>1
    <3>5. IsPlaying(Played) => ~IsFree(Played)
      BY <3>4 DEF IsPlaying, IsFree, SlotType
    <3> QED
      BY <2>0, <3>1, <3>2, <3>3, <3>5 DEF NoStaleCallback
  <2>4. CASE ReturnFromCallback
    <3>1. cursor \in Slot
      BY <2>4 DEF ReturnFromCallback, TypeInv, AtWork
    <3> QED
      BY <2>0, <2>4, <3>1, HandleFields DEF ReturnFromCallback, NoStaleCallback
  <2>5. CASE BeginPass \/ Panic \/ EndPass \/ UNCHANGED vars
    BY <2>5 DEF BeginPass, Panic, EndPass, AtSlot, vars, NoStaleCallback
  <2> QED
    BY <2>1, <2>2, <2>3, <2>4, <2>5 DEF Next, AudioStep
<1> QED
  BY <1>1, <1>2, SeekInvariant, PTL DEF Spec

-----------------------------------------------------------------------------
(* Games that seek within the sound (a percentage of at most 100). *)
SeeksWithin == \A target \in SeekTargets : target =< SeekScale

(* What bounds every index the mixer uses, in a slot that may be free: the *)
(* position and the end are within the data; while the slot loops, its     *)
(* fades meet at the end (fadeInEndsAt + fadeOutStartsAt = endAt); and it  *)
(* has gone round only if it passed fadeOutStartsAt, which is then no      *)
(* negative position. *)
MixOK(ps) ==
  /\ ps.seekTo =< SeekScale
  /\ ps.pos =< ps.endAt
  /\ IF ps.sound = NoSound THEN ps.endAt = 0 ELSE ps.endAt =< DataLen[ps.sound]
  /\ ps.loop => /\ ps.sound \in Sound
                /\ ps.endAt = DataLen[ps.sound]
                /\ ps.fadeOutStartsAt = ps.endAt - ps.fadeInEndsAt
  /\ ps.loopedOnce => ps.fadeOutStartsAt >= 0

(* A seek within the sound lands at its end or before it. *)
LEMMA SeekWithin ==
  ASSUME NEW k \in Nat, NEW e \in Nat, k =< SeekScale
  PROVE  (k * e) \div SeekScale =< e
<1> DEFINE q == (k * e) \div SeekScale
<1>1. SeekScale \in Nat /\ SeekScale > 0
  BY SeekScaleAssumption
<1>2. k * e \in Nat /\ k * e =< SeekScale * e
  BY <1>1
<1>3. q \in Nat /\ SeekScale * q =< k * e
  BY <1>1, <1>2
<1>4. ASSUME q >= e + 1 PROVE FALSE
  <2>1. SeekScale * (e + 1) =< SeekScale * q
    BY <1>1, <1>3, <1>4
  <2>2. SeekScale * (e + 1) = SeekScale * e + SeekScale
    BY <1>1
  <2> QED
    BY <1>1, <1>2, <1>3, <2>1, <2>2
<1> QED
  BY <1>3, <1>4

LEMMA MixStep ==
  ASSUME SeeksWithin, NEW ps \in SlotType, NEW new, new \in SlotType,
         MixOK(ps), SlotStep(ps, new)
  PROVE  MixOK(new)
<1>0. /\ ps.pos \in Nat /\ ps.endAt \in Nat /\ ps.loop \in BOOLEAN
      /\ ps.fadeInEndsAt \in Nat /\ ps.fadeOutStartsAt \in Int
      /\ ps.loopedOnce \in BOOLEAN /\ ps.sound \in Sound \cup {NoSound}
      /\ \A s \in Sound : DataLen[s] \in Nat /\ s # NoSound
      /\ SeekScale \in Nat \ {0}
  BY SoundAssumption, SeekScaleAssumption DEF SlotType
<1>1. CASE Allocated(ps, new)
  BY <1>0, <1>1 DEF Allocated, MixOK, NoSeek
<1>2. ASSUME NEW cb, new = Registered(ps, cb) PROVE MixOK(new)
  BY <1>2, HandleFields DEF MixOK
<1>3. ASSUME NEW target \in SeekTargets, new = Sought(ps, target)
      PROVE  MixOK(new)
  BY <1>3, HandleFields DEF MixOK, SeeksWithin
<1>4. CASE Silenced(ps, new)
  <2>1. /\ new.sound = ps.sound /\ new.pos = ps.pos /\ new.loop = FALSE
        /\ new.seekTo = NoSeek /\ new.loopedOnce = ps.loopedOnce
        /\ new.pos =< new.endAt /\ new.endAt =< ps.endAt /\ new.endAt \in Nat
        /\ new.fadeOutStartsAt \in {ps.pos, ps.fadeOutStartsAt}
    BY <1>0, <1>4 DEF Silenced, MixOK
  <2> QED
    BY <1>0, <2>1 DEF MixOK, NoSeek
<1>5. CASE CallOn(ps, new)
  BY <1>1, <1>2, <1>3, <1>4, <1>5, CallFields DEF Handled
<1>6. MixOK(SeekApplied(ps))
  <2>1. CASE ps.seekTo = NoSeek
    BY <2>1, SeekFields
  <2>2. CASE ps.seekTo # NoSeek
    <3>1. ps.seekTo \in Nat /\ ps.seekTo =< SeekScale
      BY <2>2 DEF SlotType, MixOK
    <3>2. /\ SeekApplied(ps).pos =< (ps.seekTo * ps.endAt) \div SeekScale
          /\ SeekApplied(ps).pos \in Nat
      BY <2>2, SeekAppliedTyped DEF SlotType
    <3>3. /\ (ps.seekTo * ps.endAt) \div SeekScale =< ps.endAt
          /\ (ps.seekTo * ps.endAt) \div SeekScale \in Nat
      BY <1>0, <3>1, SeekWithin, SeekFact
    <3>4. SeekApplied(ps).pos =< ps.endAt
      BY <1>0, <3>2, <3>3
    <3> QED
      BY <1>0, <3>4, SeekFields DEF MixOK, NoSeek
  <2> QED
    BY <2>1, <2>2
<1>7. CASE MixOn(ps, new)
  <2> DEFINE sk == SeekApplied(ps)
  <2>1. PICK len \in BufLens : /\ ~IsFree(sk) /\ ~Panics(sk, len)
                               /\ new = Mixed(sk, len)
    BY <1>7 DEF MixOn
  <2>2. len \in Nat /\ len > 0 /\ sk \in SlotType /\ MixOK(sk)
    BY <1>6, BufLensAssumption, SeekAppliedTyped
  <2> HIDE DEF sk
  <2>3. /\ new.sound = sk.sound /\ new.endAt = sk.endAt /\ new.loop = sk.loop
        /\ new.fadeInEndsAt = sk.fadeInEndsAt
        /\ new.fadeOutStartsAt = sk.fadeOutStartsAt /\ new.seekTo = sk.seekTo
        /\ new.loopedOnce = (sk.loopedOnce \/ ReachesFadeOut(sk, Taken(sk, len)))
    BY <2>1, <2>2, MixedFields
  <2>4. new.pos =< sk.endAt /\ sk.endAt > 0 /\ Taken(sk, len) \in Nat
    BY <2>1, <2>2, MixedFact DEF SlotType
  <2>5. sk.pos \in Nat /\ sk.endAt \in Nat /\ sk.fadeOutStartsAt \in Int
    BY <2>2 DEF SlotType
  <2>6. ReachesFadeOut(sk, Taken(sk, len)) => sk.fadeOutStartsAt >= 0
    <3> SUFFICES ASSUME NEW i \in 0 .. Taken(sk, len) - 1,
                        (sk.pos + i) % sk.endAt = sk.fadeOutStartsAt
                 PROVE  sk.fadeOutStartsAt >= 0
      BY DEF ReachesFadeOut
    <3>1. sk.pos + i \in Nat
      BY <2>4, <2>5
    <3> QED
      BY <2>4, <2>5, <3>1
  <2>7. new.loopedOnce => new.fadeOutStartsAt >= 0
    BY <2>2, <2>3, <2>6 DEF MixOK
  <2> QED
    BY <2>2, <2>3, <2>4, <2>7 DEF MixOK
<1>8. CASE new = Registered(ps, NoCallback)
  BY <1>2, <1>8
<1> QED
  BY <1>5, <1>6, <1>7, <1>8 DEF SlotStep

(* The cases in which mixing a slot can panic. *)
AtRisk(ps) ==
  \/ ps.loop /\ DataLen[ps.sound] = 0
  \/ /\ ~ps.loop /\ ps.loopedOnce
     /\ 2 * ps.fadeInEndsAt > DataLen[ps.sound] \/ ps.pos < ps.fadeOutStartsAt

(* In no other case does it.  A loop crossfades with samples up to its     *)
(* end.  A loop that is faded out after it has gone round keeps            *)
(* crossfading while pos is before fadeInEndsAt, now with the samples      *)
(* after the point where the fade out began: pos is past that point, so    *)
(* both are before fadeInEndsAt and their sum is within the data. *)
LEMMA SafeMixing ==
  ASSUME NEW ps \in SlotType, MixOK(ps), ~IsFree(ps), ~AtRisk(ps),
         NEW len \in Nat, len > 0
  PROVE  ~Panics(ps, len)
<1> DEFINE n == Taken(ps, len)
           L == DataLen[ps.sound]
<1>0. /\ ps.pos \in Nat /\ ps.endAt \in Nat /\ ps.loop \in BOOLEAN
      /\ ps.fadeInEndsAt \in Nat /\ ps.fadeOutStartsAt \in Int
      /\ ps.loopedOnce \in BOOLEAN /\ ps.sound \in Sound \cup {NoSound}
  BY DEF SlotType
<1>1. ps.sound \in Sound /\ L \in Nat /\ ps.endAt =< L
  <2>1. ps.sound # NoSound
    BY <1>0, SoundAssumption DEF MixOK, IsFree
  <2> QED
    BY <1>0, <2>1, SoundAssumption DEF MixOK
<1>2. ps.endAt > 0
  BY <1>0, <1>1 DEF MixOK, IsFree, AtRisk
<1>3. n \in Nat
  BY <1>0, <1>2 DEF Taken, Smaller, IsFree
<1>4. ~ReadsPastData(ps, n)
  <2>1. ASSUME NEW i \in 0 .. n - 1
        PROVE  (ps.pos + i) % ps.endAt < L /\ (ps.pos + i) % ps.endAt \in Int
    <3>1. ps.pos + i \in Nat
      BY <1>0
    <3>2. (ps.pos + i) % ps.endAt < ps.endAt /\ (ps.pos + i) % ps.endAt \in Int
      BY <1>0, <1>2, <3>1
    <3> QED
      BY <1>0, <1>1, <3>2
  <2> QED
    BY <1>1, <2>1 DEF ReadsPastData
<1>5. ~CrossfadesOutside(ps, n)
  <2> SUFFICES ASSUME ps.loopedOnce, NEW di \in ps.pos .. ps.pos + n - 1,
                      di < ps.fadeInEndsAt
               PROVE  di + ps.fadeOutStartsAt \in 0 .. L - 1
    BY DEF CrossfadesOutside
  <2>1. ps.fadeOutStartsAt >= 0 /\ di \in Nat /\ di >= ps.pos
    BY <1>0, <1>3 DEF MixOK
  <2>2. CASE ps.loop
    BY <1>0, <1>1, <2>1, <2>2 DEF MixOK
  <2>3. CASE ~ps.loop
    <3>1. 2 * ps.fadeInEndsAt =< L /\ ps.pos >= ps.fadeOutStartsAt
      BY <1>0, <1>1, <2>3 DEF AtRisk
    <3> QED
      BY <1>0, <1>1, <2>1, <3>1
  <2> QED
    BY <1>0, <2>2, <2>3
<1> QED
  BY <1>0, <1>2, <1>4, <1>5 DEF Panics, DividesByZero

MixInv == \A i \in Slot : MixOK(slot[i])

(* Whatever is played, looped, faded, sought, stopped, paused and          *)
(* registered, with sounds and crossfades of any length, during callbacks  *)
(* or after the sound has ended: the mixer divides by zero or indexes      *)
(* outside the data only for a loop without data, and for a loop that has  *)
(* gone round, is faded out, and was given a crossfade longer than half of *)
(* it or sought to before the point where the fade out began. *)
THEOREM MixingIsSafe ==
  ASSUME SeeksWithin
  PROVE  Spec => []OnlyLoopsPanic
<1> DEFINE I == TypeInv /\ MixInv /\ OnlyLoopsPanic
<1>1. Init => MixInv /\ OnlyLoopsPanic
  BY SoundAssumption, SeekScaleAssumption DEF Init, MixInv, MixOK, ZeroSlot, OnlyLoopsPanic
<1>2. TypeInv /\ MixInv /\ [Next]_vars => MixInv'
  <2> SUFFICES ASSUME TypeInv, MixInv, [Next]_vars PROVE MixInv'
    OBVIOUS
  <2>1. CASE slot' = slot
    BY <2>1 DEF MixInv
  <2>2. ASSUME NEW i \in Slot, NEW new, slot' = [slot EXCEPT ![i] = new],
               SlotStep(slot[i], new)
        PROVE  MixInv'
    BY <2>2, MixStep, SlotStepTyped DEF MixInv, TypeInv, TypeOK
  <2> QED
    BY <2>1, <2>2, StepsBySlot
<1>3. TypeInv /\ MixInv /\ OnlyLoopsPanic /\ [Next]_vars => OnlyLoopsPanic'
  <2> SUFFICES ASSUME TypeInv, MixInv, OnlyLoopsPanic, [Next]_vars, pc' = "panicked"
               PROVE  AtRisk(Current)'
    BY DEF OnlyLoopsPanic, AtRisk
  <2>1. CASE Panic
    <3>1. cursor \in Slot /\ bufLen \in BufLens /\ slot[cursor] \in SlotType
      BY <2>1, PoolSizeAssumption DEF Panic, AtSlot, TypeInv, TypeOK, AtWork, Slot
    <3>2. bufLen \in Nat /\ bufLen > 0
      BY <3>1, BufLensAssumption
    <3>3. ~IsFree(Current) /\ Panics(Current, bufLen)
      BY <2>1 DEF Panic, Crashes
    <3>4. Current \in SlotType /\ MixOK(Current)
      <4>1. Current \in SlotType
        BY <3>1, SeekAppliedTyped DEF Current
      <4>2. SlotStep(slot[cursor], Current)
        BY DEF SlotStep, Current
      <4> QED
        BY <3>1, <4>1, <4>2, MixStep DEF MixInv
    <3>5. AtRisk(Current)
      BY <3>2, <3>3, <3>4, SafeMixing
    <3>6. Current' = Current
      BY <2>1 DEF Panic, Current
    <3> QED
      BY <3>5, <3>6 DEF AtRisk
  <2>2. CASE GameStep
    <3>1. pc # "panicked"
      BY <2>2 DEF GameStep, Play, PlayLoop, PlayFadeIn, OnEndCallback, Seek, Stop,
                  StopFadeOut, Pause, Resume, SetPaused, SetSlot, CanCall
    <3> QED
      BY <2>2, <3>1, GameSteps
  <2>3. CASE BeginPass \/ SkipSlot \/ MixSlot \/ ReturnFromCallback \/ EndPass
    BY <2>3 DEF BeginPass, SkipSlot, MixSlot, AtSlot, ReturnFromCallback, EndPass
  <2>4. CASE UNCHANGED vars
    BY <2>4 DEF vars, OnlyLoopsPanic, AtRisk, Current
  <2> QED
    BY <2>1, <2>2, <2>3, <2>4 DEF Next, AudioStep
<1> QED
  BY <1>1, <1>2, <1>3, TypeInvariant, PTL DEF Spec

-----------------------------------------------------------------------------
(* The pool of slots implements the abstract voices of module Voices, for  *)
(* any pool, sounds, fades and buffers, calls made while a callback runs   *)
(* included, in games that use handles only of sounds that play, and loop  *)
(* only sounds that have data.  Each assumption is needed: without it a    *)
(* callback is called for the wrong sound, a sound that has ended sounds   *)
(* again, or the mixer panics.                                             *)
LoopsHaveData ==
  \A s \in Sound : CrossFades[s] # {} => DataLen[s] > 0

Careful == Disciplined /\ LoopsHaveData

(* A sounding slot has a sound, and a loop is never at its end. *)
VoiceOK(ps) ==
  /\ ~IsFree(ps) => ps.sound \in Sound
  /\ ps.loop => ps.pos < ps.endAt

LEMMA VoiceStep ==
  ASSUME Careful, NEW ps \in SlotType, NEW new, SeekOK(ps), VoiceOK(ps),
         SlotStep(ps, new)
  PROVE  VoiceOK(new)
<1>0. ps.pos \in Nat /\ ps.endAt \in Nat /\ ps.loop \in BOOLEAN
  BY DEF SlotType
<1>1. CASE CallOn(ps, new)
  <2>1. CASE Allocated(ps, new)
    <3>1. new.loop => DataLen[new.sound] > 0
      BY <2>1 DEF Allocated, Careful, LoopsHaveData
    <3> QED
      BY <2>1, <3>1, SoundAssumption DEF Allocated, VoiceOK
  <2>2. CASE Handled(ps, new)
    BY <2>2, HandleFields DEF Handled, VoiceOK, IsFree
  <2>3. CASE Silenced(ps, new)
    BY <1>0, <2>3 DEF Silenced, VoiceOK
  <2> QED
    BY <1>1, <2>1, <2>2, <2>3, CallFields
<1>2. VoiceOK(SeekApplied(ps))
  <2>1. CASE ps.seekTo = NoSeek
    BY <2>1, SeekFields
  <2>2. CASE ps.seekTo # NoSeek
    <3> DEFINE p == (ps.seekTo * ps.endAt) \div SeekScale
    <3>1. ps.seekTo \in Nat /\ ps.seekTo < SeekScale
      BY <2>2 DEF SlotType, SeekOK
    <3>2. p \in Nat /\ (ps.endAt > 0 => p < ps.endAt)
      BY <1>0, <3>1, SeekFact
    <3>3. SeekApplied(ps).pos =< p /\ SeekApplied(ps).pos \in Nat
      BY <2>2, SeekAppliedTyped DEF SlotType
    <3>4. ps.loop => SeekApplied(ps).pos < ps.endAt
      BY <1>0, <3>2, <3>3 DEF VoiceOK
    <3>5. ~IsFree(SeekApplied(ps)) => ps.sound \in Sound
      BY SeekKeepsFree DEF VoiceOK
    <3> QED
      BY <3>4, <3>5, SeekFields DEF VoiceOK
  <2> QED
    BY <2>1, <2>2
<1>3. CASE MixOn(ps, new)
  <2> DEFINE sk == SeekApplied(ps)
  <2>1. PICK len \in BufLens : ~IsFree(sk) /\ ~Panics(sk, len) /\ new = Mixed(sk, len)
    BY <1>3 DEF MixOn
  <2>2. sk \in SlotType /\ len \in Nat /\ len > 0
    BY SeekAppliedTyped, BufLensAssumption
  <2> HIDE DEF sk
  <2>3. new.sound = sk.sound /\ new.loop = sk.loop /\ new.endAt = sk.endAt
    BY <2>1, <2>2, MixedFields
  <2>4. sk.loop => new.pos < sk.endAt
    BY <2>1, <2>2, MixedFact
  <2>5. sk.sound \in Sound
    BY <1>2, <2>1 DEF VoiceOK, sk
  <2> QED
    BY <2>3, <2>4, <2>5 DEF VoiceOK
<1>4. CASE new = Registered(ps, NoCallback)
  BY <1>4, HandleFields DEF VoiceOK, IsFree
<1> QED
  BY <1>1, <1>2, <1>3, <1>4 DEF SlotStep

RefinementInv ==
  /\ TypeInv
  /\ SeekInv
  /\ NoStaleCallback
  /\ \A i \in Slot : VoiceOK(slot[i])

LEMMA RefinementInvariant ==
  ASSUME Careful
  PROVE  Spec => []RefinementInv
<1> DEFINE VoiceInv == \A i \in Slot : VoiceOK(slot[i])
<1>0. Disciplined
  BY DEF Careful
<1>1. Init => VoiceInv
  BY DEF Init, VoiceOK, ZeroSlot, IsFree
<1>2. TypeInv /\ SeekInv /\ VoiceInv /\ [Next]_vars => VoiceInv'
  <2> SUFFICES ASSUME TypeInv, SeekInv, VoiceInv, [Next]_vars PROVE VoiceInv'
    OBVIOUS
  <2>1. CASE slot' = slot
    BY <2>1
  <2>2. ASSUME NEW i \in Slot, NEW new, slot' = [slot EXCEPT ![i] = new],
               SlotStep(slot[i], new)
        PROVE  VoiceInv'
    BY <2>2, VoiceStep DEF SeekInv, TypeInv, TypeOK
  <2> QED
    BY <2>1, <2>2, StepsBySlot
<1>3. Spec => [](TypeInv /\ SeekInv) /\ []NoStaleCallback
  BY <1>0, SeekInvariant, NoCallbackGoesStale, PTL
<1>4. VoiceInv /\ TypeInv /\ SeekInv /\ NoStaleCallback => RefinementInv
  BY DEF RefinementInv
<1> HIDE DEF VoiceInv
<1> QED
  BY <1>1, <1>2, <1>3, <1>4, PTL DEF Spec

-----------------------------------------------------------------------------
(* The slots that hold a callback for the sound they play; the callback of *)
(* the voice that is being called is on its way out. *)
Armed == {i \in Slot : ~IsFree(slot[i]) /\ slot[i].onEnd # NoCallback}

LEMMA OwedIsArmed == VoiceOwed = Armed \ {VoiceCalling}
BY DEF VoiceOwed, Armed

(* What a change of one slot is, seen as voices: nothing, or a change of   *)
(* that voice. *)
LEMMA SameVoices ==
  ASSUME slot \in [Slot -> SlotType], NEW i \in Slot, NEW new,
         slot' = [slot EXCEPT ![i] = new],
         IsFree(new) <=> IsFree(slot[i]),
         ~IsFree(new) => /\ new.sound = slot[i].sound
                         /\ new.onEnd = slot[i].onEnd,
         new.loop = slot[i].loop
  PROVE  UNCHANGED <<VoicePlaying, VoiceLooping, Armed>>
<1>1. \A j \in Slot : /\ IsFree(slot'[j]) <=> IsFree(slot[j])
                      /\ ~IsFree(slot'[j]) => /\ slot'[j].sound = slot[j].sound
                                              /\ slot'[j].onEnd = slot[j].onEnd
                      /\ slot'[j].loop = slot[j].loop
  OBVIOUS
<1>2. VoicePlaying' = VoicePlaying
  BY <1>1 DEF VoicePlaying
<1>3. VoiceLooping' = VoiceLooping
  BY <1>1 DEF VoiceLooping
<1>4. Armed' = Armed
  BY <1>1 DEF Armed
<1> QED
  BY <1>2, <1>3, <1>4

(* A slot that falls silent takes its voice out of every set. *)
LEMMA SilentVoice ==
  ASSUME slot \in [Slot -> SlotType], NEW i \in Slot, NEW new,
         slot' = [slot EXCEPT ![i] = new],
         IsFree(new), new.loop = FALSE
  PROVE  /\ VoicePlaying' = [VoicePlaying EXCEPT ![i] = NoSound]
         /\ VoiceLooping' = VoiceLooping \ {i}
         /\ Armed' = Armed \ {i}
<1>1. slot'[i] = new /\ \A j \in Slot : j # i => slot'[j] = slot[j]
  OBVIOUS
<1>2. VoicePlaying' = [VoicePlaying EXCEPT ![i] = NoSound]
  BY <1>1 DEF VoicePlaying
<1>3. VoiceLooping' = VoiceLooping \ {i}
  BY <1>1 DEF VoiceLooping
<1>4. Armed' = Armed \ {i}
  BY <1>1 DEF Armed
<1> QED
  BY <1>2, <1>3, <1>4

(* A slot that sounds, with the sound it now has. *)
LEMMA SoundingVoice ==
  ASSUME slot \in [Slot -> SlotType], NEW i \in Slot, NEW new,
         slot' = [slot EXCEPT ![i] = new], ~IsFree(new), new.loop \in BOOLEAN
  PROVE  /\ VoicePlaying' = [VoicePlaying EXCEPT ![i] = new.sound]
         /\ VoiceLooping' = IF new.loop THEN VoiceLooping \cup {i}
                                        ELSE VoiceLooping \ {i}
         /\ Armed' = IF new.onEnd # NoCallback THEN Armed \cup {i}
                                                   ELSE Armed \ {i}
<1>1. slot'[i] = new /\ \A j \in Slot : j # i => slot'[j] = slot[j]
  OBVIOUS
<1>2. VoicePlaying' = [VoicePlaying EXCEPT ![i] = new.sound]
  BY <1>1 DEF VoicePlaying
<1>3. VoiceLooping' = IF new.loop THEN VoiceLooping \cup {i} ELSE VoiceLooping \ {i}
  BY <1>1 DEF VoiceLooping
<1>4. Armed' = IF new.onEnd # NoCallback THEN Armed \cup {i}
                                             ELSE Armed \ {i}
  BY <1>1 DEF Armed
<1> QED
  BY <1>2, <1>3, <1>4

(* The call of a game is one call on the voices, or none. *)
LEMMA CallsRefine ==
  ASSUME Careful, RefinementInv, GameStep
  PROVE  [V!Next]_V!vars
<1>0. /\ slot \in [Slot -> SlotType]
      /\ VoiceCalling' = VoiceCalling
      /\ VoiceOwed = Armed \ {VoiceCalling}
      /\ VoiceOwed' = Armed' \ {VoiceCalling}
  <2>1. pc' = pc /\ cursor' = cursor
    BY GameSteps DEF RefinementInv
  <2>2. VoiceCalling' = VoiceCalling
    BY <2>1 DEF VoiceCalling
  <2>3. VoiceOwed = Armed \ {VoiceCalling} /\ (VoiceOwed = Armed \ {VoiceCalling})'
    BY OwedIsArmed, PTL
  <2> QED
    BY <2>2, <2>3 DEF RefinementInv, TypeInv, TypeOK
<1>1. CASE slot' = slot /\ paused' \in SUBSET Channel
  <2>1. UNCHANGED <<VoicePlaying, VoiceLooping, VoiceOwed>>
    BY <1>0, <1>1 DEF VoicePlaying, VoiceLooping, Armed
  <2> QED
    BY <1>0, <1>1, <2>1 DEF V!Next, V!PauseOrResume
<1>2. ASSUME paused' = paused, NEW i \in Slot, NEW new,
             slot' = [slot EXCEPT ![i] = new], CallOn(slot[i], new)
      PROVE  [V!Next]_V!vars
  <2> DEFINE ps == slot[i]
  <2>0. ps \in SlotType /\ VoiceOK(ps) /\ new \in SlotType
    BY <1>0, <1>2, SlotStepTyped DEF RefinementInv, SlotStep
  <2>1. VoiceOK(new)
    BY <1>2, <2>0, VoiceStep DEF RefinementInv, SeekInv, SlotStep
  <2>2. /\ new.loop \in BOOLEAN /\ ps.loop \in BOOLEAN
        /\ IsFree(new) => new.loop = FALSE
        /\ IsFree(ps) => /\ ps.loop = FALSE
                         /\ ps.onEnd = NoCallback \/ i = VoiceCalling
                         /\ VoicePlaying[i] = NoSound
                         /\ i \notin VoiceLooping /\ i \notin VoiceOwed
        /\ ~IsFree(ps) => VoicePlaying[i] = ps.sound /\ ps.sound # NoSound
    <3>1. /\ new.loop \in BOOLEAN /\ ps.loop \in BOOLEAN
          /\ IsFree(new) => new.loop = FALSE
          /\ IsFree(ps) => ps.loop = FALSE
      BY <2>0 DEF SlotType, IsFree
    <3>2. IsFree(ps) => ps.onEnd = NoCallback \/ i = VoiceCalling
      BY <1>0 DEF RefinementInv, NoStaleCallback, VoiceCalling
    <3>3. IsFree(ps) => /\ VoicePlaying[i] = NoSound
                        /\ i \notin VoiceLooping /\ i \notin VoiceOwed
      BY <3>1 DEF VoicePlaying, VoiceLooping, VoiceOwed
    <3>4. ~IsFree(ps) => VoicePlaying[i] = ps.sound /\ ps.sound # NoSound
      BY <2>0, SoundAssumption DEF VoicePlaying, VoiceOK
    <3> QED
      BY <3>1, <3>2, <3>3, <3>4
  <2> HIDE DEF ps
  <2>3. CASE Allocated(ps, new)
    <3>1. CASE IsFree(new)
      <4>1. UNCHANGED <<VoicePlaying, VoiceLooping, VoiceOwed>>
        BY <1>0, <1>2, <2>2, <2>3, <3>1, SameVoices DEF Allocated, ps
      <4> QED
        BY <1>0, <1>2, <4>1 DEF V!vars
    <3>2. CASE ~IsFree(new)
      <4>1. /\ VoicePlaying' = [VoicePlaying EXCEPT ![i] = new.sound]
            /\ VoiceLooping' \in {VoiceLooping, VoiceLooping \cup {i}}
            /\ VoiceOwed' = VoiceOwed
        <5>1. IsFree(ps) /\ (new.onEnd = NoCallback \/ i = VoiceCalling)
          BY <2>2, <2>3 DEF Allocated
        <5>2. i \notin VoiceLooping /\ i \notin Armed
          BY <2>2, <5>1 DEF Armed, ps
        <5>3. /\ VoicePlaying' = [VoicePlaying EXCEPT ![i] = new.sound]
              /\ VoiceLooping' = IF new.loop THEN VoiceLooping \cup {i}
                                             ELSE VoiceLooping \ {i}
              /\ Armed' = IF new.onEnd # NoCallback THEN Armed \cup {i}
                                                    ELSE Armed \ {i}
          BY <1>0, <1>2, <2>2, <3>2, <5>1, SoundingVoice
        <5> QED
          BY <1>0, <5>1, <5>2, <5>3
      <4>2. V!Start(i, new.sound)
        BY <1>0, <1>2, <2>2, <2>3, <4>1 DEF V!Start, V!Sounds, Allocated
      <4> QED
        BY <2>3, <4>2 DEF V!Next, Allocated
    <3> QED
      BY <3>1, <3>2
  <2>4. ASSUME NEW cb \in Callback, ~IsFree(ps), new = Registered(ps, cb)
        PROVE  [V!Next]_V!vars
    <3>1. /\ ~IsFree(new) /\ new.sound = ps.sound /\ new.loop = ps.loop
          /\ new.onEnd # NoCallback
      BY <2>0, <2>4, HandleFields, CallbackAssumption DEF IsFree
    <3>2. Armed' = Armed \cup {i} /\ UNCHANGED <<VoicePlaying, VoiceLooping>>
      BY <1>0, <1>2, <2>2, <2>4, <3>1, SoundingVoice DEF VoicePlaying, VoiceLooping, ps
    <3>3. V!Register(i)
      BY <1>0, <1>2, <2>2, <2>4, <3>2 DEF V!Register, V!Sounds
    <3> QED
      BY <3>3 DEF V!Next
  <2>5. ASSUME NEW target \in SeekTargets, new = Sought(ps, target)
        PROVE  [V!Next]_V!vars
    <3>0. /\ new.sound = ps.sound /\ new.loop = ps.loop /\ new.onEnd = ps.onEnd
          /\ new.pos = ps.pos /\ new.endAt = ps.endAt
      BY <2>0, <2>5 DEF Sought, SlotType
    <3>1. UNCHANGED <<VoicePlaying, VoiceLooping, VoiceOwed>>
      BY <1>0, <1>2, <3>0, SameVoices DEF IsFree, ps
    <3> QED
      BY <1>0, <1>2, <3>1 DEF V!vars
  <2>6. CASE Silenced(ps, new)
    <3>1. CASE IsFree(ps)
      <4>1. UNCHANGED <<VoicePlaying, VoiceLooping, VoiceOwed>>
        BY <1>0, <1>2, <2>2, <2>6, <3>1, SameVoices DEF Silenced, ps
      <4> QED
        BY <1>0, <1>2, <4>1 DEF V!vars
    <3>2. CASE ~IsFree(ps) /\ IsFree(new)
      <4>1. V!Silence(i)
        <5>1. /\ VoicePlaying' = [VoicePlaying EXCEPT ![i] = NoSound]
              /\ VoiceLooping' = VoiceLooping \ {i}
              /\ VoiceOwed' = VoiceOwed \ {i}
          BY <1>0, <1>2, <2>2, <3>2, SilentVoice
        <5> QED
          BY <1>0, <1>2, <2>2, <3>2, <5>1 DEF V!Silence, V!Sounds
      <4> QED
        BY <4>1 DEF V!Next
    <3>3. CASE ~IsFree(ps) /\ ~IsFree(new)
      <4>1. /\ VoicePlaying' = VoicePlaying
            /\ VoiceLooping' = VoiceLooping \ {i}
            /\ VoiceOwed' = VoiceOwed \ {i}
        BY <1>0, <1>2, <2>2, <2>6, <3>3, SoundingVoice DEF Silenced, VoicePlaying, ps
      <4>2. V!FadeOut(i)
        BY <1>0, <1>2, <2>2, <3>3, <4>1 DEF V!FadeOut, V!Sounds
      <4> QED
        BY <4>2 DEF V!Next
    <3> QED
      BY <3>1, <3>2, <3>3
  <2>7. CallOn(ps, new)
    BY <1>2 DEF ps
  <2> QED
    BY <2>0, <2>3, <2>4, <2>5, <2>6, <2>7, CallFields
    DEF Handled, Careful, Disciplined
<1> QED
  BY <1>1, <1>2, GameSteps DEF RefinementInv

(* A step of the audio thread is the end of one voice, the return of its   *)
(* callback, or nothing the voices can tell. *)
LEMMA AudioRefines ==
  ASSUME Careful, RefinementInv, AudioStep
  PROVE  [V!Next]_V!vars
<1>0. /\ slot \in [Slot -> SlotType]
      /\ VoiceOwed = Armed \ {VoiceCalling}
      /\ VoiceOwed' = Armed' \ {VoiceCalling'}
  <2>1. VoiceOwed = Armed \ {VoiceCalling} /\ (VoiceOwed = Armed \ {VoiceCalling})'
    BY OwedIsArmed, PTL
  <2> QED
    BY <2>1 DEF RefinementInv, TypeInv, TypeOK
<1>a. Armed \subseteq Slot /\ NoVoice \notin Armed /\ NoVoice \notin Armed'
  BY PoolSizeAssumption DEF Armed, NoVoice, Slot
<1>1. CASE BeginPass \/ Panic \/ EndPass
  <2>1. slot' = slot /\ paused' = paused /\ UNCHANGED VoiceCalling
    BY <1>1 DEF BeginPass, Panic, EndPass, AtSlot, VoiceCalling
  <2> QED
    BY <2>1 DEF V!vars, VoicePlaying, VoiceLooping, VoiceOwed
<1>2. CASE SkipSlot
  <2>1. cursor \in Slot /\ slot' = [slot EXCEPT ![cursor] = Current]
    BY <1>2, PoolSizeAssumption
    DEF SkipSlot, AtSlot, RefinementInv, TypeInv, TypeOK, Slot
  <2>2. IsFree(Current) /\ IsFree(slot[cursor]) /\ Current.loop = slot[cursor].loop
    BY <1>0, <1>2, <2>1, SeekKeepsFree, SeekFields
    DEF SkipSlot, Current, RefinementInv, SeekInv
  <2>3. UNCHANGED <<VoicePlaying, VoiceLooping, Armed>>
    BY <1>0, <2>1, <2>2, SameVoices
  <2>4. UNCHANGED <<VoiceCalling, paused>>
    BY <1>2 DEF SkipSlot, AtSlot, VoiceCalling
  <2> QED
    BY <1>0, <2>3, <2>4 DEF V!vars
<1>3. CASE MixSlot
  <2> DEFINE ps == slot[cursor]
  <2>1. /\ cursor \in Slot /\ pc = "mixing" /\ bufLen \in BufLens
        /\ slot' = [slot EXCEPT ![cursor] = Played]
        /\ ~IsFree(Current) /\ ~Crashes /\ paused' = paused
    BY <1>3, PoolSizeAssumption
    DEF MixSlot, AtSlot, RefinementInv, TypeInv, TypeOK, AtWork, Slot
  <2>2. /\ Current \in SlotType /\ Current.sound = ps.sound
        /\ Current.loop = ps.loop /\ Current.onEnd = ps.onEnd
    BY <1>0, <2>1, SeekAppliedTyped, SeekFields DEF Current
  <2>3. ~IsFree(ps) /\ ps.sound \in Sound /\ ps \in SlotType
    BY <1>0, <2>1, SeekKeepsFree DEF RefinementInv, SeekInv, VoiceOK, Current
  <2>4. /\ Played.sound = ps.sound /\ Played.loop = ps.loop
        /\ Played.onEnd = ps.onEnd
    BY <2>2, MixedFields DEF Played
  <2>5. Played \in SlotType /\ VoiceOK(Played)
    <3>1. SlotStep(ps, Played)
      <4>1. CASE IsPaused(Current)
        BY <4>1 DEF Played, Current, SlotStep
      <4>2. CASE ~IsPaused(Current)
        BY <2>1, <4>2 DEF Crashes, Played, Current, MixOn, SlotStep
      <4> QED
        BY <4>1, <4>2
    <3> QED
      BY <2>1, <2>3, <3>1, SlotStepTyped, VoiceStep DEF RefinementInv, SeekInv
  <2>6. IsPlaying(Played) <=> ~IsFree(Played)
    BY <2>5 DEF IsPlaying, IsFree, SlotType, VoiceOK
  <2> HIDE DEF ps
  <2>7. CASE ~IsFree(Played)
    <3>1. UNCHANGED <<VoicePlaying, VoiceLooping, Armed>>
      BY <1>0, <2>1, <2>3, <2>4, <2>7, SameVoices DEF ps
    <3>2. VoiceCalling' = VoiceCalling
      BY <1>3, <2>1, <2>6, <2>7 DEF MixSlot, VoiceCalling
    <3> QED
      BY <1>0, <2>1, <3>1, <3>2 DEF V!vars
  <2>8. CASE IsFree(Played)
    <3>1. ps.loop = FALSE /\ Played.loop = FALSE
      BY <2>4, <2>5, <2>8 DEF IsFree, SlotType
    <3>2. ChannelOf[ps.sound] \notin paused
      BY <2>1, <2>2, <2>3, <2>8, SoundAssumption DEF Played, IsPaused
    <3>3. /\ VoicePlaying' = [VoicePlaying EXCEPT ![cursor] = NoSound]
          /\ VoiceLooping' = VoiceLooping \ {cursor}
          /\ Armed' = Armed \ {cursor}
      BY <1>0, <2>1, <2>8, <3>1, SilentVoice
    <3>4. /\ cursor \notin VoiceLooping
          /\ VoicePlaying[cursor] = ps.sound /\ ps.sound # NoSound
          /\ cursor \in Armed <=> ps.onEnd # NoCallback
      BY <2>1, <2>3, <3>1, SoundAssumption DEF VoiceLooping, VoicePlaying, Armed, ps
    <3>5. VoiceCalling = NoVoice /\ VoiceOwed = Armed
      BY <1>0, <1>a, <2>1 DEF VoiceCalling
    <3>6. VoiceCalling' = IF cursor \in VoiceOwed THEN cursor ELSE NoVoice
      BY <1>3, <2>1, <2>4, <2>6, <2>8, <3>4, <3>5 DEF MixSlot, VoiceCalling
    <3>7. VoiceOwed' = VoiceOwed \ {cursor}
      BY <1>0, <1>a, <3>3, <3>5, <3>6
    <3>8. V!Finish(cursor)
      BY <2>1, <3>2, <3>3, <3>4, <3>5, <3>6, <3>7 DEF V!Finish, V!Sounds
    <3> QED
      BY <2>1, <3>8 DEF V!Next
  <2> QED
    BY <2>7, <2>8
<1>4. CASE ReturnFromCallback
  <2>1. cursor \in Slot /\ pc = "callback" /\ pc' = "mixing" /\ paused' = paused
    BY <1>4 DEF ReturnFromCallback, RefinementInv, TypeInv, AtWork
  <2>2. slot' = [slot EXCEPT ![cursor] = Registered(slot[cursor], NoCallback)]
    BY <1>0, <1>4, <2>1 DEF ReturnFromCallback
  <2>3. slot[cursor] \in SlotType
    BY <1>0, <2>1
  <2> DEFINE new == Registered(slot[cursor], NoCallback)
  <2>4. /\ IsFree(new) <=> IsFree(slot[cursor])
        /\ new.sound = slot[cursor].sound
        /\ new.loop = slot[cursor].loop
        /\ new.onEnd = NoCallback
    BY <2>3, HandleFields DEF IsFree
  <2> HIDE DEF new
  <2>5. /\ slot'[cursor] = new
        /\ \A j \in Slot : j # cursor => slot'[j] = slot[j]
    BY <1>0, <2>1, <2>2 DEF new
  <2>6. UNCHANGED <<VoicePlaying, VoiceLooping>>
    BY <2>4, <2>5 DEF VoicePlaying, VoiceLooping
  <2>7. Armed' = Armed \ {cursor}
    BY <2>4, <2>5 DEF Armed
  <2>8. VoiceCalling = cursor /\ VoiceCalling # NoVoice /\ VoiceCalling' = NoVoice
    BY <2>1, PoolSizeAssumption DEF VoiceCalling, NoVoice, Slot
  <2>9. VoiceOwed' = VoiceOwed
    BY <1>0, <1>a, <2>7, <2>8
  <2>10. V!CallbackReturns
    BY <2>1, <2>6, <2>8, <2>9 DEF V!CallbackReturns
  <2> QED
    BY <2>10 DEF V!Next
<1> QED
  BY <1>1, <1>2, <1>3, <1>4 DEF AudioStep

(* The pool keeps the promise of the package: a sound ends only by playing *)
(* to its end on an unpaused channel or by being stopped; a callback that  *)
(* was registered while it played is called then, once, and not otherwise. *)
THEOREM PoolImplementsVoices ==
  ASSUME Careful
  PROVE  Spec => ImplementsVoices
<1>1. Init => V!Init
  BY DEF Init, V!Init, VoicePlaying, VoiceLooping, VoiceOwed, VoiceCalling, ZeroSlot,
         IsFree
<1>2. RefinementInv /\ [Next]_vars => [V!Next]_V!vars
  <2> SUFFICES ASSUME RefinementInv, [Next]_vars PROVE [V!Next]_V!vars
    OBVIOUS
  <2>1. CASE UNCHANGED vars
    BY <2>1 DEF vars, V!vars, VoicePlaying, VoiceLooping, VoiceOwed, VoiceCalling
  <2> QED
    BY <2>1, CallsRefine, AudioRefines DEF Next
<1> QED
  BY <1>1, <1>2, RefinementInvariant, PTL DEF Spec, ImplementsVoices, V!Spec
=============================================================================
