--------------------------- MODULE PlaylistProofs ---------------------------
(***************************************************************************)
(* Theorems about games whose playlists have one track each, for pools of  *)
(* any size and any lists, tracks and effects: with one goroutine at most  *)
(* one music leads, and, however many goroutines there are, the music is   *)
(* heard until it is stopped.                                              *)
(***************************************************************************)
EXTENDS Playlist, MuxProofs

-----------------------------------------------------------------------------
(* Games the theorems are about.  Tracks have data, no effect is a track,  *)
(* and nothing is sought to its very end.                                  *)
Sensible ==
  /\ \A s \in MusicSound : DataLen[s] > 0
  /\ Effect \cap MusicSound = {}
  /\ \A target \in SeekTargets : target < SeekScale

(* One goroutine calls the package. *)
OneCaller == \A t, u \in GameThread : t = u

(* Tracks are at least as long as two of the crossfades they loop with. *)
LoopsFit == \A s \in MusicSound : \A fade \in CrossFades[s] : 2 * fade =< DataLen[s]

-----------------------------------------------------------------------------
(* What holds in every such game: of a slot (only music loops, a seek is        *)
(* pending only in a loop, or in a slot that was never used), ...          *)
MusicOK(ps) ==
  /\ SeekOK(ps) /\ VoiceOK(ps)
  /\ ~IsFree(ps) => ps.endAt =< DataLen[ps.sound]
  /\ ps.loop => ps.sound \in MusicSound
  /\ ps.seekTo # NoSeek => ps.loop \/ ps.endAt = 0

(* ... of what is kept of the lists, ... *)
HandleType(h) ==
  /\ h = [l \in List |-> h[l]]
  /\ \A l \in List : h[l] \in [DOMAIN Tracks[l] -> Slot \cup {NoSlot}]

ListsTyped ==
  /\ loaded \in Loads
  /\ current \in loaded \cup {NoList}
  /\ track \in [List -> Nat]
  /\ \A l \in List : track[l] \in DOMAIN Tracks[l]
  /\ HandleType(handle)

(* ... of an operation under way, ... *)
OpOK(o) ==
  /\ o \in OpType
  /\ o.at = "idle" => o = Idle
  /\ o.at \in {"stop", "start", "register"} => o.list \in loaded
  /\ o.at = "advance" /\ o.way # 0 => o.list \in loaded
  /\ o.at \in {"stop", "advance"} /\ o.way = 0 => o.wanted \in loaded \cup {UnknownList}
  /\ o.at = "register" => ~Single(o.list) /\ o.k \in DOMAIN Tracks[o.list]

MusicTypeInv ==
  /\ TypeInv /\ ListsTyped
  /\ op \in [Thread -> OpType]
  /\ \A t \in Thread : OpOK(op[t])

(* ... and of games of lists of one track: no callback is ever registered, *)
(* so that the audio thread does nothing but mix.                          *)
ShortLists ==
  /\ ~LongListLoaded
  /\ \A i \in Slot : slot[i].onEnd = NoCallback
  /\ pc # "callback"
  /\ op[AudioThread] = Idle

(* Each handle is that of a loop, and of one only.                         *)
LoopsHeld ==
  \A l \in List : \A k \in DOMAIN Tracks[l] :
    handle[l][k] # NoSlot =>
      /\ slot[handle[l][k]].loop
      /\ \A m \in List : \A j \in DOMAIN Tracks[m] :
           handle[m][j] = handle[l][k] => m = l /\ j = k

PlayersInv ==
  /\ MusicTypeInv
  /\ \A i \in Slot : MusicOK(slot[i])
  /\ ShortLists
  /\ LoopsHeld

-----------------------------------------------------------------------------
(* What holds with one caller.  An operation works on the current list.    *)
OnCurrent(o, c) ==
  /\ o.at \in {"stop", "start"} => o.list = c
  /\ o.at = "advance" /\ o.way # 0 => o.list = c

(* The handle there is, if there is one, is that of the current track, and *)
(* there is none between the end of a track and the start of the next.     *)
OneHandle ==
  \A l \in List : \A k \in DOMAIN Tracks[l] :
    handle[l][k] # NoSlot =>
      /\ l = current /\ k = track[l]
      /\ \A t \in Thread : op[t].at \notin {"advance", "start"}

IsCurrent(i) == current # NoList /\ handle[current][track[current]] = i

OneMusicInv ==
  /\ \A t \in Thread : OnCurrent(op[t], current)
  /\ OneHandle
  /\ \A i \in Slot : Leading(i) => IsCurrent(i)

(* Effects are as they were started, and the mixer finds no index outside  *)
(* the data.                                                               *)
EffectOK(ps) ==
  ps.sound \in Effect /\ ~IsFree(ps) =>
    /\ ~ps.loop /\ ps.seekTo = NoSeek
    /\ ps.endAt = DataLen[ps.sound]

(* What keeps every index inside the data.  While a slot loops its fades   *)
(* meet at the end (fadeInEndsAt + fadeOutStartsAt = endAt).  A loop that  *)
(* is faded out after it has gone round keeps crossfading while pos is     *)
(* before fadeInEndsAt, now with the samples after the point where the     *)
(* fade out began: those exist because the crossfade is at most half of    *)
(* the sound. *)
FitOK(ps) ==
  /\ ps.seekTo # NoSeek => ps.endAt = 0 /\ ps.loop = FALSE
  /\ ~IsFree(ps) => ps.sound \in Sound /\ ps.endAt =< DataLen[ps.sound]
  /\ ps.loop => /\ ps.endAt = DataLen[ps.sound]
                /\ ps.pos < ps.endAt
                /\ 2 * ps.fadeInEndsAt =< ps.endAt
                /\ ps.fadeOutStartsAt = ps.endAt - ps.fadeInEndsAt
  /\ ~IsFree(ps) /\ ~ps.loop /\ ps.loopedOnce =>
       /\ ps.fadeOutStartsAt >= 0
       /\ 2 * ps.fadeInEndsAt =< DataLen[ps.sound]
       /\ \/ ps.pos >= ps.fadeInEndsAt
          \/ ps.fadeOutStartsAt + ps.fadeInEndsAt =< DataLen[ps.sound]

LoopFits(ps) == FitOK([ps EXCEPT !.seekTo = NoSeek])

LoopsInv ==
  /\ \A i \in Slot : EffectOK(slot[i]) /\ LoopFits(slot[i])
  /\ NoCrash

-----------------------------------------------------------------------------
(* Slots.  LeadingSlot is Leading of a slot by itself.                     *)
LeadingSlot(ps) ==
  /\ ps.sound \in MusicSound
  /\ ~IsFree(ps)
  /\ ps.loop \/ ps.fadeOutStartsAt = DataLen[ps.sound]

(* A slot that fits is mixed without a panic. *)
LEMMA FitsNoPanic ==
  ASSUME NEW ps \in SlotType, FitOK(ps), ~IsFree(ps),
         NEW len \in Nat, len > 0
  PROVE  ~Panics(ps, len)
<1> DEFINE n == Taken(ps, len)
           L == DataLen[ps.sound]
<1>0. /\ ps.pos \in Nat /\ ps.endAt \in Nat /\ ps.loop \in BOOLEAN
      /\ ps.fadeInEndsAt \in Nat /\ ps.fadeOutStartsAt \in Int
      /\ ps.loopedOnce \in BOOLEAN
  BY DEF SlotType
<1>1. ps.sound \in Sound /\ L \in Nat /\ ps.endAt =< L
  BY SoundAssumption DEF FitOK
<1>2. ps.endAt > 0
  BY <1>0 DEF FitOK, IsFree
<1>3. n \in Nat
  BY <1>0, <1>2 DEF Taken, Smaller, IsFree
<1>4. ~ReadsPastData(ps, n)
  <2>1. ASSUME NEW i \in 0 .. n - 1 PROVE (ps.pos + i) % ps.endAt < L
    <3>1. ps.pos + i \in Nat
      BY <1>0
    <3>2. (ps.pos + i) % ps.endAt < ps.endAt /\ (ps.pos + i) % ps.endAt \in Int
      BY <1>0, <1>2, <3>1
    <3> QED
      BY <1>0, <1>1, <3>2
  <2>2. ASSUME NEW i \in 0 .. n - 1 PROVE (ps.pos + i) % ps.endAt \in Int
    BY <1>0, <1>2, <1>3
  <2> QED
    BY <1>1, <2>1, <2>2 DEF ReadsPastData
<1>5. ~CrossfadesOutside(ps, n)
  <2> SUFFICES ASSUME ps.loopedOnce, NEW di \in ps.pos .. ps.pos + n - 1,
                      di < ps.fadeInEndsAt
               PROVE  di + ps.fadeOutStartsAt \in 0 .. L - 1
    BY DEF CrossfadesOutside
  <2>1. CASE ps.loop
    BY <1>0, <1>1, <1>3, <2>1 DEF FitOK
  <2>2. CASE ~ps.loop
    BY <1>0, <1>1, <1>3, <2>2 DEF FitOK
  <2> QED
    BY <2>1, <2>2
<1> QED
  BY <1>0, <1>2, <1>4, <1>5 DEF Panics, DividesByZero

LEMMA FieldTypes ==
  ASSUME NEW ps \in SlotType
  PROVE  /\ ps.sound \in Sound \cup {NoSound}
         /\ ps.loop \in BOOLEAN /\ ps.loopedOnce \in BOOLEAN
         /\ ps.pos \in Nat /\ ps.endAt \in Nat
         /\ ps.seekTo \in Nat \cup {NoSeek} /\ NoSeek = -1
         /\ ps.fadeInEndsAt \in Nat /\ ps.fadeOutStartsAt \in Int
         /\ ps.onEnd \in Callback \cup {NoCallback}
BY DEF SlotType, NoSeek

LEMMA TrackSounds ==
  /\ MusicSound \subseteq Sound
  /\ \A l \in List : \A k \in DOMAIN Tracks[l] : Tracks[l][k] \in MusicSound
BY ListAssumption DEF MusicSound

LEMMA ZeroSlotOK ==
  /\ ZeroSlot \in SlotType /\ MusicOK(ZeroSlot) /\ ~LeadingSlot(ZeroSlot)
  /\ EffectOK(ZeroSlot) /\ LoopFits(ZeroSlot) /\ ZeroSlot.onEnd = NoCallback
<1>1. ZeroSlot \in SlotType
  BY DEF ZeroSlot, SlotType
<1>2. IsFree(ZeroSlot) /\ ZeroSlot.onEnd = NoCallback
  BY DEF IsFree, ZeroSlot
<1>3. MusicOK(ZeroSlot)
  BY <1>2, SeekScaleAssumption DEF MusicOK, SeekOK, VoiceOK, ZeroSlot
<1>4. LoopFits(ZeroSlot)
  BY DEF LoopFits, FitOK, ZeroSlot, IsFree
<1>5. QED
  BY <1>1, <1>2, <1>3, <1>4 DEF LeadingSlot, EffectOK

(* Allocation: of a loop, and of an effect.                   *)
LEMMA LoopStarts ==
  ASSUME Sensible, NEW ps \in SlotType, NEW s \in MusicSound, NEW fade \in CrossFades[s]
  PROVE  LET new == Looping(ps, s, fade)
         IN  /\ new \in SlotType /\ MusicOK(new) /\ EffectOK(new)
             /\ new.loop /\ new.onEnd = ps.onEnd
             /\ LoopsFit => LoopFits(new)
<1> DEFINE new == Looping(ps, s, fade)
<1>1. s \in Sound /\ fade \in Nat
  BY TrackSounds, FadesAssumption
<1>2. DataLen[s] \in Nat /\ DataLen[s] > 0
  BY <1>1, SoundAssumption DEF Sensible
<1>3. /\ new.sound = s /\ new.loop = TRUE /\ new.loopedOnce = FALSE /\ new.pos = 0
      /\ new.seekTo = NoSeek /\ new.fadeInEndsAt = fade
      /\ new.fadeOutStartsAt = DataLen[s] - fade /\ new.endAt = DataLen[s]
      /\ new.onEnd = ps.onEnd
  BY DEF Looping, Started
<1>4. new \in SlotType
  BY <1>1, StartsTyped
<1>5. MusicOK(new)
  <2> HIDE DEF new
  <2>1. QED
    BY <1>1, <1>2, <1>3 DEF MusicOK, SeekOK, VoiceOK, IsFree
<1>6. EffectOK(new)
  <2> HIDE DEF new
  <2>1. QED
    BY <1>3 DEF EffectOK, Sensible
<1>7. ASSUME LoopsFit
      PROVE  LoopFits(new)
  <2>1. 2 * fade =< DataLen[s]
    BY <1>7 DEF LoopsFit
  <2>2. [new EXCEPT !.seekTo = NoSeek] = new
    <3> HIDE DEF new
    <3>1. QED
      BY <1>3, <1>4 DEF SlotType
  <2>3. FitOK(new)
    <3> HIDE DEF new
    <3>1. QED
      BY <1>1, <1>2, <1>3, <2>1 DEF FitOK, IsFree
  <2>4. QED
    BY <2>2, <2>3 DEF LoopFits
<1> HIDE DEF new
<1>8. QED
  BY <1>3, <1>4, <1>5, <1>6, <1>7 DEF new

LEMMA EffectStarts ==
  ASSUME Sensible, NEW ps \in SlotType, NEW s \in Effect
  PROVE  LET new == Started(ps, s)
         IN  /\ new \in SlotType /\ MusicOK(new) /\ EffectOK(new) /\ LoopFits(new)
             /\ ~LeadingSlot(new) /\ ~new.loop /\ new.onEnd = ps.onEnd
<1> DEFINE new == Started(ps, s)
<1>1. s \in Sound
  BY EffectAssumption
<1>2. DataLen[s] \in Nat
  BY <1>1, SoundAssumption
<1>3. /\ new.sound = s /\ new.loop = FALSE /\ new.loopedOnce = FALSE /\ new.pos = 0
      /\ new.seekTo = NoSeek /\ new.endAt = DataLen[s] /\ new.onEnd = ps.onEnd
  BY DEF Started
<1>4. new \in SlotType
  BY <1>1, StartsTyped
<1> HIDE DEF new
<1>5. MusicOK(new)
  BY <1>1, <1>2, <1>3 DEF MusicOK, SeekOK, VoiceOK, IsFree
<1>6. EffectOK(new) /\ ~LeadingSlot(new)
  BY <1>3 DEF EffectOK, LeadingSlot, Sensible
<1>7. LoopFits(new)
  <2>1. [new EXCEPT !.seekTo = NoSeek] = new
    BY <1>3, <1>4 DEF SlotType
  <2>2. FitOK(new)
    BY <1>1, <1>2, <1>3 DEF FitOK, IsFree
  <2>3. QED
    BY <2>1, <2>2 DEF LoopFits
<1>8. QED
  BY <1>3, <1>4, <1>5, <1>6, <1>7 DEF new

(* Music that is faded out does not lead any more, and loses its callback. *)
LEMMA MusicFadesOut ==
  ASSUME NEW ps \in SlotType, MusicOK(ps), IsPlaying(ps)
  PROVE  LET new == FadingOut(ps, MusicFade)
         IN  /\ new \in SlotType /\ MusicOK(new) /\ ~LeadingSlot(new)
             /\ ~new.loop /\ new.onEnd = NoCallback /\ new.sound = ps.sound
<1> DEFINE new == FadingOut(ps, MusicFade)
<1>1. /\ ps.pos \in Nat /\ ps.endAt \in Nat /\ MusicFade \in Nat
  BY FieldTypes, MusicFadeAssumption
<1>2. new \in SlotType
  BY HandlesTyped, MusicFadeAssumption, SeekTargetsAssumption
<1>3. /\ new.sound = ps.sound /\ new.loop = FALSE /\ new.pos = ps.pos
      /\ new.seekTo = NoSeek /\ new.onEnd = NoCallback
      /\ new.endAt = Smaller(ps.endAt, ps.pos + MusicFade)
      /\ new.fadeOutStartsAt = ps.pos
  BY DEF FadingOut, Stopped, SlotType
<1> HIDE DEF new
<1>4. new.endAt \in Nat /\ new.endAt =< ps.endAt
  BY <1>1, <1>3 DEF Smaller
<1>5. /\ ~IsFree(ps) /\ ps.pos < ps.endAt
      /\ ps.sound \in Sound /\ ps.endAt =< DataLen[ps.sound] /\ DataLen[ps.sound] \in Nat
  BY <1>1, SoundAssumption DEF IsPlaying, IsFree, MusicOK, VoiceOK
<1>6. MusicOK(new)
  BY <1>1, <1>3, <1>4, <1>5 DEF MusicOK, SeekOK, VoiceOK, IsFree
<1>7. ~LeadingSlot(new)
  BY <1>1, <1>3, <1>5 DEF LeadingSlot
<1>8. QED
  BY <1>2, <1>3, <1>6, <1>7 DEF new

LEMMA LoopSought ==
  ASSUME Sensible, NEW ps \in SlotType, MusicOK(ps), ps.loop, NEW target \in SeekTargets
  PROVE  LET new == Sought(ps, target)
         IN  /\ new \in SlotType /\ MusicOK(new) /\ EffectOK(new)
             /\ LoopFits(ps) => LoopFits(new)
             /\ new.loop /\ LeadingSlot(new) = LeadingSlot(ps)
             /\ IsFree(new) = IsFree(ps) /\ new.onEnd = ps.onEnd
<1> DEFINE new == Sought(ps, target)
<1>1. target \in Nat /\ target < SeekScale /\ target # NoSeek
  BY SeekTargetsAssumption DEF Sensible, NoSeek
<1>2. new \in SlotType
  BY <1>1, HandlesTyped, MusicFadeAssumption
<1>3. /\ new.sound = ps.sound /\ new.pos = ps.pos /\ new.endAt = ps.endAt
      /\ new.loop = ps.loop /\ new.fadeOutStartsAt = ps.fadeOutStartsAt
      /\ new.onEnd = ps.onEnd /\ new.seekTo = target
  BY DEF Sought, SlotType
<1>4. LoopFits(ps) => LoopFits(new)
  <2>1. [new EXCEPT !.seekTo = NoSeek] = [ps EXCEPT !.seekTo = NoSeek]
    BY DEF Sought, SlotType
  <2>2. QED
    BY <2>1 DEF LoopFits
<1> HIDE DEF new
<1>5. MusicOK(new)
  BY <1>1, <1>3 DEF MusicOK, SeekOK, VoiceOK, IsFree
<1>6. EffectOK(new)
  BY <1>3 DEF MusicOK, EffectOK, Sensible
<1>7. LeadingSlot(new) = LeadingSlot(ps) /\ IsFree(new) = IsFree(ps)
  BY <1>3 DEF LeadingSlot, IsFree
<1>8. QED
  BY <1>2, <1>3, <1>4, <1>5, <1>6, <1>7 DEF new

(* A loop that is faded out keeps its indices inside the data.             *)
LEMMA LoopFadesOut ==
  ASSUME Sensible, NEW ps \in SlotType, MusicOK(ps), ps.loop, LoopFits(ps)
  PROVE  LET new == FadingOut(ps, MusicFade)
         IN  EffectOK(new) /\ LoopFits(new)
<1> DEFINE new == FadingOut(ps, MusicFade)
           was == [ps EXCEPT !.seekTo = NoSeek]
<1>1. /\ ps.pos \in Nat /\ ps.endAt \in Nat /\ MusicFade \in Nat
      /\ ps.fadeInEndsAt \in Nat /\ ps.loopedOnce \in BOOLEAN
  BY FieldTypes, MusicFadeAssumption
<1>2. new \in SlotType
  BY HandlesTyped, MusicFadeAssumption, SeekTargetsAssumption
<1>3. /\ new.sound = ps.sound /\ new.loop = FALSE /\ new.loopedOnce = ps.loopedOnce
      /\ new.pos = ps.pos /\ new.seekTo = NoSeek /\ new.fadeInEndsAt = ps.fadeInEndsAt
      /\ new.endAt = Smaller(ps.endAt, ps.pos + MusicFade)
      /\ new.fadeOutStartsAt = ps.pos
  BY DEF FadingOut, Stopped, SlotType
<1>4. /\ was.sound = ps.sound /\ was.loop /\ was.pos = ps.pos /\ was.endAt = ps.endAt
      /\ was.fadeInEndsAt = ps.fadeInEndsAt
  BY DEF SlotType
<1>5. FitOK(was)
  BY DEF LoopFits
<1> HIDE DEF new, was
<1>6. /\ ps.sound \in Sound /\ ps.sound \in MusicSound /\ DataLen[ps.sound] \in Nat
      /\ ps.endAt = DataLen[ps.sound] /\ 2 * ps.fadeInEndsAt =< ps.endAt
      /\ ps.pos < ps.endAt
  BY <1>4, <1>5, TrackSounds, SoundAssumption DEF FitOK, MusicOK
<1>7. new.endAt \in Nat /\ new.endAt =< ps.endAt
  BY <1>1, <1>3 DEF Smaller
<1>8. EffectOK(new)
  BY <1>3, <1>6 DEF EffectOK, Sensible
<1>9. [new EXCEPT !.seekTo = NoSeek] = new
  BY <1>2, <1>3 DEF SlotType
<1>10. FitOK(new)
  BY <1>1, <1>3, <1>6, <1>7 DEF FitOK, IsFree
<1>11. QED
  BY <1>8, <1>9, <1>10 DEF LoopFits, new

(* The mixer, when it does not panic, frees music but makes none lead.     *)
Mixes(ps, new) ==
  /\ new \in SlotType
  /\ new.sound = ps.sound /\ new.loop = ps.loop
  /\ new.onEnd = ps.onEnd
  /\ IsFree(ps) => IsFree(new)
  /\ MusicOK(new)
  /\ LeadingSlot(new) => LeadingSlot(ps)
  /\ EffectOK(ps) => EffectOK(new)
  /\ LoopFits(ps) => LoopFits(new)

LEMMA LoopOnFit ==
  ASSUME NEW ps \in SlotType, ps.seekTo = NoSeek
  PROVE  LoopFits(ps) = FitOK(ps)
<1>1. [ps EXCEPT !.seekTo = NoSeek] = ps
  BY DEF SlotType
<1>2. QED
  BY <1>1 DEF LoopFits

LEMMA SeekMixes ==
  ASSUME NEW ps \in SlotType, MusicOK(ps)
  PROVE  /\ Mixes(ps, SeekApplied(ps)) /\ (IsFree(SeekApplied(ps)) <=> IsFree(ps))
         /\ LoopFits(ps) => FitOK(SeekApplied(ps))
<1> DEFINE new == SeekApplied(ps)
<1>1. /\ new \in SlotType /\ (IsFree(new) <=> IsFree(ps))
      /\ new.seekTo = NoSeek
      /\ new.sound = ps.sound /\ new.endAt = ps.endAt /\ new.loop = ps.loop
      /\ new.loopedOnce = ps.loopedOnce /\ new.fadeInEndsAt = ps.fadeInEndsAt
      /\ new.fadeOutStartsAt = ps.fadeOutStartsAt /\ new.onEnd = ps.onEnd
  BY SeekAppliedTyped, SeekFields, SeekKeepsFree DEF MusicOK
<1>2. /\ new.pos \in Nat /\ new.endAt \in Nat
      /\ ps.pos \in Nat /\ ps.loop \in BOOLEAN /\ ps.loopedOnce \in BOOLEAN
  BY <1>1, FieldTypes
<1>3. ps.seekTo = NoSeek => new = ps
  BY SeekFields
<1>4. new.loop => new.pos < new.endAt
  <2>1. CASE ps.seekTo = NoSeek
    BY <1>3, <2>1 DEF MusicOK, VoiceOK
  <2>2. CASE ps.seekTo # NoSeek /\ ps.loop
    <3>1. ps.seekTo \in Nat /\ ps.seekTo < SeekScale /\ ps.endAt > 0
      BY <1>1, <1>2, <2>2, FieldTypes DEF MusicOK, SeekOK, VoiceOK
    <3>2. /\ (ps.seekTo * ps.endAt) \div SeekScale \in Nat
          /\ (ps.seekTo * ps.endAt) \div SeekScale < ps.endAt
      BY <1>1, <1>2, <3>1, SeekFact
    <3>3. new.pos =< (ps.seekTo * ps.endAt) \div SeekScale
      BY <2>2, SeekAppliedTyped
    <3>4. QED
      BY <1>1, <1>2, <3>2, <3>3
  <2>3. QED
    BY <1>1, <2>1, <2>2
<1>5. ASSUME LoopFits(ps)
      PROVE  FitOK(new)
  <2>1. CASE ps.seekTo = NoSeek
    BY <1>3, <1>5, <2>1, LoopOnFit
  <2>2. CASE ps.seekTo # NoSeek
    <3> DEFINE was == [ps EXCEPT !.seekTo = NoSeek]
    <3>1. /\ FitOK(was) /\ was.sound = ps.sound /\ was.endAt = ps.endAt /\ was.loop = ps.loop
          /\ was.pos = ps.pos /\ was.fadeInEndsAt = ps.fadeInEndsAt
          /\ was.fadeOutStartsAt = ps.fadeOutStartsAt
      BY <1>5 DEF LoopFits, SlotType
    <3> HIDE DEF was, new
    <3>2. CASE ps.loop
      BY <1>1, <1>2, <1>4, <3>1, <3>2 DEF FitOK, IsFree
    <3>3. CASE ~ps.loop
      <4>1. ps.endAt = 0 /\ IsFree(new)
        BY <1>1, <1>2, <2>2, <3>3 DEF MusicOK, IsFree
      <4>2. QED
        BY <1>1, <3>3, <4>1 DEF FitOK
    <3>4. QED
      BY <3>2, <3>3
  <2>3. QED
    BY <2>1, <2>2
<1>6. LoopFits(ps) => LoopFits(new)
  BY <1>1, <1>5, LoopOnFit
<1> HIDE DEF new
<1>7. MusicOK(new)
  BY <1>1, <1>4 DEF MusicOK, SeekOK, VoiceOK
<1>8. LeadingSlot(new) => LeadingSlot(ps)
  BY <1>1 DEF LeadingSlot
<1>9. EffectOK(ps) => EffectOK(new)
  BY <1>1 DEF EffectOK
<1>10. QED
  BY <1>1, <1>5, <1>6, <1>7, <1>8, <1>9 DEF Mixes, new

LEMMA MixingMixes ==
  ASSUME NEW ps \in SlotType, MusicOK(ps), NEW len \in BufLens,
         ~IsFree(SeekApplied(ps)), ~Panics(SeekApplied(ps), len)
  PROVE  Mixes(ps, Mixed(SeekApplied(ps), len))
<1> DEFINE sk == SeekApplied(ps)
           new == Mixed(sk, len)
<1>1. sk \in SlotType /\ Mixes(ps, sk) /\ len \in Nat /\ len > 0
  BY SeekMixes, SeekAppliedTyped, BufLensAssumption
<1>2. sk.seekTo = NoSeek
  BY SeekFields
<1> HIDE DEF sk
<1>3. /\ new.sound = sk.sound /\ new.endAt = sk.endAt /\ new.loop = sk.loop
      /\ new.fadeInEndsAt = sk.fadeInEndsAt /\ new.fadeOutStartsAt = sk.fadeOutStartsAt
      /\ new.onEnd = sk.onEnd /\ new.seekTo = NoSeek
      /\ new.loopedOnce = (sk.loopedOnce \/ ReachesFadeOut(sk, Taken(sk, len)))
  BY <1>1, <1>2, MixedFields
<1>4. ~IsFree(sk) /\ ~Panics(sk, len)
  BY DEF sk
<1>5. /\ new \in SlotType
      /\ sk.loop => new.pos < sk.endAt
      /\ ~sk.loop => new.pos >= sk.pos /\ new.pos =< sk.endAt
  BY <1>1, <1>4, MixedFact, FieldTypes
<1>6. /\ sk.pos \in Nat /\ sk.endAt \in Nat /\ sk.loop \in BOOLEAN /\ sk.loopedOnce \in BOOLEAN
      /\ new.pos \in Nat /\ sk.fadeInEndsAt \in Nat /\ sk.fadeOutStartsAt \in Int
  BY <1>1, <1>5, FieldTypes
<1>7. ~sk.loop => new.loopedOnce = sk.loopedOnce
  BY <1>3, <1>6 DEF ReachesFadeOut
<1>8. FitOK(sk) => FitOK(new)
  <2> HIDE DEF new
  <2>1. CASE sk.loop
    BY <1>2, <1>3, <1>4, <1>5, <1>6, <2>1 DEF FitOK, IsFree
  <2>2. CASE ~sk.loop
    BY <1>2, <1>3, <1>4, <1>5, <1>6, <1>7, <2>2 DEF FitOK
  <2>3. QED
    BY <2>1, <2>2
<1>9. LoopFits(sk) => LoopFits(new)
  BY <1>1, <1>2, <1>3, <1>5, <1>8, LoopOnFit
<1> HIDE DEF new
<1>10. MusicOK(new)
  <2>1. MusicOK(sk)
    BY <1>1 DEF Mixes
  <2>2. QED
    BY <1>3, <1>4, <1>5, <1>6, <2>1 DEF MusicOK, SeekOK, VoiceOK, IsFree
<1>11. LeadingSlot(new) => LeadingSlot(sk)
  BY <1>3, <1>4 DEF LeadingSlot
<1>12. EffectOK(sk) => EffectOK(new)
  BY <1>3, <1>4 DEF EffectOK
<1>13. ~IsFree(ps)
  BY <1>1, <1>4 DEF Mixes
<1>14. QED
  BY <1>1, <1>3, <1>5, <1>9, <1>10, <1>11, <1>12, <1>13 DEF Mixes, sk, new

-----------------------------------------------------------------------------
(* What a step does to the slots, the handles and the operations.          *)
LEMMA SlotSet ==
  ASSUME TypeInv, NEW i \in Slot, NEW new \in SlotType, slot' = [slot EXCEPT ![i] = new],
         UNCHANGED <<paused, pc, cursor, bufLen>>
  PROVE  /\ TypeInv'
         /\ slot'[i] = new /\ \A j \in Slot : j # i => slot'[j] = slot[j]
BY DEF TypeInv, TypeOK, AtWork

PutHandle(l, k, v) == handle' = [handle EXCEPT ![l][k] = v]

LEMMA HandleSet ==
  ASSUME HandleType(handle), NEW l \in List, NEW k \in DOMAIN Tracks[l],
         NEW v \in Slot \cup {NoSlot}, PutHandle(l, k, v)
  PROVE  /\ HandleType(handle') /\ handle'[l][k] = v
         /\ \A m \in List : \A j \in DOMAIN Tracks[m] :
              m # l \/ j # k => handle'[m][j] = handle[m][j]
<1>1. DOMAIN handle = List /\ DOMAIN handle' = List
  BY DEF HandleType, PutHandle
<1>2. handle' = [m \in List |-> handle'[m]]
  BY <1>1 DEF PutHandle
<1>3. handle'[l] = [handle[l] EXCEPT ![k] = v] /\ \A m \in List : m # l => handle'[m] = handle[m]
  BY <1>1 DEF PutHandle
<1>4. handle[l] \in [DOMAIN Tracks[l] -> Slot \cup {NoSlot}]
  BY DEF HandleType
<1>5. handle'[l] \in [DOMAIN Tracks[l] -> Slot \cup {NoSlot}]
  BY <1>3, <1>4
<1>6. \A m \in List : handle'[m] \in [DOMAIN Tracks[m] -> Slot \cup {NoSlot}]
  BY <1>3, <1>5 DEF HandleType
<1>7. HandleType(handle')
  BY <1>2, <1>6 DEF HandleType
<1>8. handle'[l][k] = v /\ \A j \in DOMAIN Tracks[l] : j # k => handle'[l][j] = handle[l][j]
  BY <1>3, <1>4
<1>9. QED
  BY <1>3, <1>7, <1>8

LEMMA OpSet ==
  ASSUME MusicTypeInv, NEW t \in Thread, NEW o, OpOK(o), op' = [op EXCEPT ![t] = o], loaded' = loaded
  PROVE  /\ op' \in [Thread -> OpType]
         /\ (\A u \in Thread : OpOK(op[u]))'
         /\ op'[t] = o /\ \A u \in Thread : u # t => op'[u] = op[u]
<1>1. op \in [Thread -> OpType] /\ o \in OpType
  BY DEF MusicTypeInv, OpOK
<1>2. op' \in [Thread -> OpType] /\ op'[t] = o /\ \A u \in Thread : u # t => op'[u] = op[u]
  BY <1>1
<1>3. \A u \in Thread : OpOK(op'[u])
  BY <1>2 DEF MusicTypeInv
<1>4. (\A u \in Thread : OpOK(op[u]))'
  BY <1>3 DEF OpOK
<1>5. QED
  BY <1>2, <1>4

LEMMA IdleOK == OpOK(Idle)
BY DEF OpOK, Idle, OpType

LEMMA LoadedLists ==
  ASSUME ListsTyped
  PROVE  /\ loaded \subseteq List /\ NoList \notin loaded /\ UnknownList \notin loaded
         /\ \A l \in loaded : ~LongListLoaded => Single(l)
         /\ \A l \in List : /\ Tracks[l] \in Seq(Sound) /\ Len(Tracks[l]) \in Nat \ {0}
                            /\ DOMAIN Tracks[l] = 1 .. Len(Tracks[l])
                            /\ track[l] \in DOMAIN Tracks[l]
<1>1. loaded \subseteq List
  BY LoadsAssumption DEF ListsTyped
<1>2. \A l \in List : /\ Tracks[l] \in Seq(Sound) /\ Len(Tracks[l]) \in Nat \ {0}
                      /\ DOMAIN Tracks[l] = 1 .. Len(Tracks[l])
  BY ListAssumption
<1>3. \A l \in loaded : ~LongListLoaded => Single(l)
  <2> SUFFICES ASSUME NEW l \in loaded, ~LongListLoaded
               PROVE  Single(l)
    OBVIOUS
  <2>1. PICK n : n = Len(Tracks[l])
    OBVIOUS
  <2>2. n \in Nat \ {0} /\ ~(n > 1)
    BY <1>1, <1>2, <2>1 DEF LongListLoaded
  <2>3. n = 1
    BY <2>2
  <2>4. QED
    BY <2>1, <2>3 DEF Single
<1>4. QED
  BY <1>1, <1>2, <1>3, ListAssumption DEF ListsTyped

(* An operation is never the audio thread's.                               *)
LEMMA StaysShort ==
  ASSUME PlayersInv, NEW t \in Thread, op[t] # Idle, NEW o,
         op' = [op EXCEPT ![t] = o], loaded' = loaded, pc' = pc,
         \A i \in Slot : slot'[i].onEnd = NoCallback
  PROVE  ShortLists'
<1>1. t # AudioThread /\ AudioThread \in Thread
  BY DEF PlayersInv, ShortLists, Thread
<1>2. op'[AudioThread] = Idle
  BY <1>1 DEF PlayersInv, ShortLists, MusicTypeInv
<1>3. QED
  BY <1>2 DEF PlayersInv, ShortLists, LongListLoaded

LEMMA PlayersFacts ==
  ASSUME PlayersInv
  PROVE  /\ MusicTypeInv /\ TypeInv /\ ListsTyped /\ HandleType(handle)
         /\ op \in [Thread -> OpType] /\ \A t \in Thread : OpOK(op[t]) /\ op[t] \in OpType
         /\ \A i \in Slot : slot[i] \in SlotType /\ MusicOK(slot[i])
         /\ \A i \in Slot : slot[i].onEnd = NoCallback
         /\ \A l \in loaded : Single(l)
         /\ slot \in [Slot -> SlotType]
         /\ \A l \in List : \A k \in DOMAIN Tracks[l] : handle[l][k] \in Slot \cup {NoSlot}
         /\ \A i \in Slot : i # NoSlot
         /\ NoSlot \notin Slot
<1>1. MusicTypeInv /\ TypeInv /\ ListsTyped /\ HandleType(handle)
  BY DEF PlayersInv, MusicTypeInv, ListsTyped
<1>2. op \in [Thread -> OpType] /\ \A t \in Thread : OpOK(op[t]) /\ op[t] \in OpType
  BY DEF PlayersInv, MusicTypeInv
<1>3. slot \in [Slot -> SlotType]
  BY <1>1 DEF TypeInv, TypeOK
<1>4. \A l \in List : \A k \in DOMAIN Tracks[l] : handle[l][k] \in Slot \cup {NoSlot}
  BY <1>1 DEF HandleType
<1>5. \A i \in Slot : i # NoSlot
  BY DEF Slot, NoSlot
<1>6. \A l \in loaded : Single(l)
  BY <1>1, LoadedLists DEF PlayersInv, ShortLists
<1>7. QED
  BY <1>1, <1>2, <1>3, <1>4, <1>5, <1>6 DEF PlayersInv, ShortLists

-----------------------------------------------------------------------------
(* The steps of an operation keep PlayersInv.                              *)
LEMMA PlayersStop ==
  ASSUME Sensible, PlayersInv, NEW t \in Thread, StopTrack(t)
  PROVE  PlayersInv'
<1> DEFINE l == op[t].list
           k == track[l]
           h == handle[l][k]
           o == [op[t] EXCEPT !.at = "advance"]
<1>1. /\ op[t].at = "stop" /\ op' = [op EXCEPT ![t] = o]
      /\ handle' = [handle EXCEPT ![l][k] = NoSlot]
      /\ \/ Sounds(h) /\ slot' = [slot EXCEPT ![h] = FadingOut(slot[h], MusicFade)]
         \/ ~Sounds(h) /\ slot' = slot
      /\ UNCHANGED <<paused, pc, cursor, bufLen, loaded, current, track>>
  BY DEF StopTrack, SetSlot, vars
<1>2. /\ OpOK(op[t]) /\ op[t] \in OpType /\ l \in loaded /\ l \in List /\ k \in DOMAIN Tracks[l]
      /\ h \in Slot \cup {NoSlot} /\ op[t] # Idle
  <2>1. op[t].at = "stop"
    BY <1>1
  <2>2. op[t] # Idle
    BY <2>1 DEF Idle
  <2>3. OpOK(op[t]) /\ op[t] \in OpType
    BY PlayersFacts
  <2>4. l \in loaded /\ l \in List /\ k \in DOMAIN Tracks[l]
    BY <2>1, <2>3, PlayersFacts, LoadedLists DEF OpOK
  <2> HIDE DEF l, k
  <2>5. h \in Slot \cup {NoSlot}
    BY <2>4, PlayersFacts
  <2>6. QED
    BY <2>2, <2>3, <2>4, <2>5
<1>3. OpOK(o)
  <2>1. /\ o \in OpType /\ o.at = "advance" /\ o.list = l /\ o.way = op[t].way /\ o.wanted = op[t].wanted
    BY <1>2 DEF OpType
  <2> HIDE DEF o, l
  <2>2. QED
    BY <1>1, <1>2, <2>1 DEF OpOK
<1> HIDE DEF o, k, l, h
<1>4. op' \in [Thread -> OpType] /\ (\A u \in Thread : OpOK(op[u]))'
  BY <1>1, <1>3, OpSet, PlayersFacts
<1>5. /\ HandleType(handle') /\ handle'[l][k] = NoSlot
      /\ \A m \in List : \A j \in DOMAIN Tracks[m] :
              m # l \/ j # k => handle'[m][j] = handle[m][j]
  <2>1. HandleType(handle) /\ PutHandle(l, k, NoSlot)
    BY <1>1, PlayersFacts DEF PutHandle
  <2>2. l \in List /\ k \in DOMAIN Tracks[l] /\ NoSlot \in Slot \cup {NoSlot}
    BY <1>2
  <2>3. QED
    BY <2>1, <2>2, HandleSet, Zenon
<1>6. ListsTyped'
  BY <1>1, <1>5, PlayersFacts DEF ListsTyped
<1>7. /\ TypeInv' /\ \A i \in Slot : i # h => slot'[i] = slot[i]
      /\ \A i \in Slot : MusicOK(slot'[i])
      /\ \A i \in Slot : slot'[i].onEnd = NoCallback
  <2>1. CASE ~Sounds(h) /\ slot' = slot
    BY <1>1, <2>1, PlayersFacts DEF TypeInv, TypeOK, AtWork
  <2>2. CASE Sounds(h) /\ slot' = [slot EXCEPT ![h] = FadingOut(slot[h], MusicFade)]
    <3>1. h \in Slot /\ IsPlaying(slot[h]) /\ MusicOK(slot[h]) /\ slot[h] \in SlotType
      BY <1>2, <2>2, PlayersFacts DEF Sounds
    <3> DEFINE new == FadingOut(slot[h], MusicFade)
    <3>2. new \in SlotType /\ MusicOK(new) /\ new.onEnd = NoCallback
      BY <3>1, MusicFadesOut
    <3>3. slot' = [slot EXCEPT ![h] = new]
      BY <2>2
    <3> HIDE DEF new
    <3>4. /\ TypeInv' /\ slot'[h] = new /\ \A i \in Slot : i # h => slot'[i] = slot[i]
      BY <1>1, <3>1, <3>2, <3>3, PlayersFacts, SlotSet
    <3>5. QED
      BY <3>2, <3>4, PlayersFacts
  <2>3. QED
    BY <1>1, <2>1, <2>2
<1>8. ShortLists'
  BY <1>1, <1>2, <1>7, StaysShort
<1>9. LoopsHeld'
  <2> SUFFICES ASSUME NEW m \in List, NEW j \in DOMAIN Tracks[m], handle'[m][j] # NoSlot
               PROVE  /\ slot'[handle'[m][j]].loop
                      /\ \A n \in List : \A i \in DOMAIN Tracks[n] :
                           handle'[n][i] = handle'[m][j] => n = m /\ i = j
    BY DEF LoopsHeld
  <2>2. /\ handle'[m][j] = handle[m][j] /\ (m # l \/ j # k)
    BY <1>5
  <2>3. /\ slot[handle[m][j]].loop
        /\ \A n \in List : \A i \in DOMAIN Tracks[n] :
             handle[n][i] = handle[m][j] => n = m /\ i = j
    BY <2>2 DEF PlayersInv, LoopsHeld
  <2>4. handle[m][j] # h /\ handle[m][j] \in Slot
    BY <1>2, <2>2, <2>3, PlayersFacts DEF h
  <2>5. slot'[handle'[m][j]].loop
    BY <1>7, <2>2, <2>3, <2>4
  <2>6. \A n \in List : \A i \in DOMAIN Tracks[n] :
          handle'[n][i] = handle'[m][j] => n = m /\ i = j
    BY <1>5, <2>2, <2>3
  <2>7. QED
    BY <2>5, <2>6
<1>10. QED
  BY <1>4, <1>6, <1>7, <1>8, <1>9 DEF PlayersInv, MusicTypeInv

(* A step that leaves slots and handles alone.                             *)
LEMMA SilentStep ==
  ASSUME PlayersInv, NEW t \in Thread, op[t] # Idle, NEW o, OpOK(o),
         op' = [op EXCEPT ![t] = o], UNCHANGED <<vars, loaded, handle>>, ListsTyped'
  PROVE  PlayersInv'
<1>1. UNCHANGED <<slot, paused, pc, cursor, bufLen, loaded, handle>>
  BY DEF vars
<1>2. op' \in [Thread -> OpType] /\ (\A u \in Thread : OpOK(op[u]))'
  BY <1>1, OpSet, PlayersFacts
<1>3. TypeInv'
  BY <1>1, PlayersFacts DEF TypeInv, TypeOK, AtWork
<1>4. (\A i \in Slot : MusicOK(slot[i]))'
  BY <1>1, PlayersFacts
<1>5. ShortLists'
  BY <1>1, PlayersFacts, StaysShort
<1>6. LoopsHeld'
  BY <1>1 DEF PlayersInv, LoopsHeld
<1>7. QED
  BY <1>2, <1>3, <1>4, <1>5, <1>6 DEF PlayersInv, MusicTypeInv

LEMMA Modulo ==
  ASSUME NEW k \in Nat, NEW n \in Nat \ {0}, 1 =< k, k =< n, NEW w \in {-1, 0, 1}
  PROVE  ((k - 1 + w + n) % n) + 1 \in 1 .. n
<1>1. k - 1 + w + n \in Nat
  OBVIOUS
<1>2. (k - 1 + w + n) % n \in 0 .. n - 1
  BY <1>1
<1>3. QED
  BY <1>2

LEMMA PlayersAdvance ==
  ASSUME PlayersInv, NEW t \in Thread, AdvanceTrack(t)
  PROVE  PlayersInv'
<1> DEFINE l == op[t].list
           n == Len(Tracks[l])
           o == [op[t] EXCEPT !.at = "start"]
           to == ((track[l] - 1 + op[t].way + n) % n) + 1
<1>1. /\ op[t].at = "advance" /\ op[t].way # 0
      /\ track' = [track EXCEPT ![l] = to]
      /\ op' = [op EXCEPT ![t] = o]
      /\ UNCHANGED <<vars, loaded, current, handle>>
  BY DEF AdvanceTrack
<1>2. /\ OpOK(op[t]) /\ op[t] \in OpType /\ l \in loaded /\ l \in List /\ op[t] # Idle
      /\ op[t].way \in {-1, 0, 1}
  BY <1>1, PlayersFacts, LoadedLists DEF OpOK, Idle, OpType
<1>3. OpOK(o)
  <2>1. o \in OpType /\ o.at = "start" /\ o.list = l
    BY <1>2 DEF OpType
  <2> HIDE DEF o, l
  <2>2. QED
    BY <1>1, <1>2, <2>1 DEF OpOK
<1>4. to \in DOMAIN Tracks[l]
  <2>1. PICK m : m = n
    OBVIOUS
  <2>2. PICK k : k = track[l]
    OBVIOUS
  <2>3. m \in Nat \ {0} /\ k \in 1 .. m /\ DOMAIN Tracks[l] = 1 .. m
    BY <1>2, <2>1, <2>2, PlayersFacts, LoadedLists
  <2>4. k \in Nat /\ 1 =< k /\ k =< m
    BY <2>3
  <2>5. ((k - 1 + op[t].way + m) % m) + 1 \in 1 .. m
    BY <1>2, <2>3, <2>4, Modulo
  <2>6. QED
    BY <2>1, <2>2, <2>3, <2>5
<1> HIDE DEF to, n, o, l
<1>5. ListsTyped'
  <2>1. ListsTyped
    BY PlayersFacts
  <2>2. to \in Nat
    BY <1>2, <1>4, LoadedLists, <2>1
  <2>3. track' \in [List -> Nat] /\ \A m \in List : track'[m] \in DOMAIN Tracks[m]
    BY <1>1, <1>2, <1>4, <2>1, <2>2 DEF ListsTyped
  <2>4. QED
    BY <1>1, <2>1, <2>3 DEF ListsTyped
<1>6. QED
  BY <1>1, <1>2, <1>3, <1>5, SilentStep

LEMMA PlayersSelect ==
  ASSUME PlayersInv, NEW t \in Thread, SelectList(t)
  PROVE  PlayersInv'
<1> DEFINE l == op[t].wanted
           o == [[op[t] EXCEPT !.at = "start"] EXCEPT !.list = l]
<1>1. op[t].at = "advance" /\ op[t].way = 0 /\ UNCHANGED <<vars, loaded, handle>>
  BY DEF SelectList
<1>2. op[t] \in OpType /\ op[t] # Idle /\ l \in loaded \cup {UnknownList} /\ ListsTyped
  BY <1>1, PlayersFacts DEF OpOK, Idle
<1>3. CASE current' = NoList /\ op' = [op EXCEPT ![t] = Idle] /\ UNCHANGED track
  <2>1. ListsTyped'
    BY <1>1, <1>2, <1>3 DEF ListsTyped
  <2>2. QED
    BY <1>1, <1>2, <1>3, <2>1, IdleOK, SilentStep
<1>4. ASSUME NEW k \in DOMAIN Tracks[l], l # UnknownList, current' = l,
             track' = [track EXCEPT ![l] = k], op' = [op EXCEPT ![t] = o]
      PROVE  PlayersInv'
  <2>1. l \in loaded /\ l \in List
    BY <1>2, <1>4, LoadedLists
  <2>2. OpOK(o)
    <3>1. o \in OpType /\ o.at = "start" /\ o.list = l
      BY <1>2, <2>1 DEF OpType
    <3> HIDE DEF o, l
    <3>2. QED
      BY <2>1, <3>1 DEF OpOK
  <2> HIDE DEF l, o
  <2>3. k \in Nat
    BY <1>2, <2>1, LoadedLists, <1>4
  <2>4. track' \in [List -> Nat] /\ \A m \in List : track'[m] \in DOMAIN Tracks[m]
    BY <1>2, <1>4, <2>1, <2>3 DEF ListsTyped
  <2>5. ListsTyped'
    BY <1>1, <1>2, <1>4, <2>1, <2>4 DEF ListsTyped
  <2>6. QED
    BY <1>1, <1>2, <1>4, <2>2, <2>5, SilentStep
<1>5. \/ current' = NoList /\ op' = [op EXCEPT ![t] = Idle] /\ UNCHANGED track
      \/ /\ l # UnknownList /\ current' = l /\ op' = [op EXCEPT ![t] = o]
         /\ \E k \in DOMAIN Tracks[l] : track' = [track EXCEPT ![l] = k]
  BY <1>2 DEF SelectList
<1> HIDE DEF o, l
<1>6. QED
  BY <1>3, <1>4, <1>5

(* A slot is set to a value that suits what is kept of slots.              *)
LEMMA SlotPut ==
  ASSUME PlayersInv, NEW i \in Slot, NEW new \in SlotType, MusicOK(new),
         new.onEnd = NoCallback,
         slot' = [slot EXCEPT ![i] = new], UNCHANGED <<paused, pc, cursor, bufLen>>
  PROVE  /\ TypeInv' /\ (\A j \in Slot : MusicOK(slot[j]))'
         /\ \A j \in Slot : slot'[j].onEnd = NoCallback
         /\ slot'[i] = new /\ \A j \in Slot : j # i => slot'[j] = slot[j]
<1>1. /\ TypeInv' /\ slot'[i] = new /\ \A j \in Slot : j # i => slot'[j] = slot[j]
  BY PlayersFacts, SlotSet
<1>2. \A j \in Slot : MusicOK(slot'[j])
  BY <1>1, PlayersFacts
<1>3. \A j \in Slot : slot'[j].onEnd = NoCallback
  BY <1>1, PlayersFacts
<1>4. QED
  BY <1>1, <1>2, <1>3

LEMMA PlayersStart ==
  ASSUME Sensible, PlayersInv, NEW t \in Thread, StartTrack(t)
  PROVE  PlayersInv'
<1> DEFINE l == op[t].list
           k == track[l]
<1>1. op[t].at = "start" /\ UNCHANGED <<loaded, current, track>>
  BY DEF StartTrack
<1>2. /\ op[t] \in OpType /\ op[t] # Idle /\ l \in loaded /\ l \in List /\ k \in DOMAIN Tracks[l]
      /\ k \in Nat
  BY <1>1, PlayersFacts, LoadedLists DEF OpOK, Idle, ListsTyped
<1>3. Single(l)
  BY <1>2, PlayersFacts
<1>4. CASE op' = [op EXCEPT ![t] = Idle] /\ UNCHANGED <<vars, handle>>
  <2>1. ListsTyped'
    BY <1>1, <1>4, PlayersFacts DEF ListsTyped
  <2>2. QED
    BY <1>1, <1>2, <1>4, <2>1, IdleOK, SilentStep
<1>5. CASE op' = [op EXCEPT ![t] = Idle] /\ AllFull /\ UNCHANGED vars
           /\ handle' = [handle EXCEPT ![l][k] = NoSlot]
  <2> HIDE DEF k, l
  <2>1. op' \in [Thread -> OpType] /\ (\A u \in Thread : OpOK(op[u]))'
    BY <1>1, <1>5, IdleOK, OpSet, PlayersFacts
  <2>2. UNCHANGED <<slot, paused, pc, cursor, bufLen>>
    BY <1>5 DEF vars
  <2>3. /\ HandleType(handle') /\ handle'[l][k] = NoSlot
        /\ \A m \in List : \A j \in DOMAIN Tracks[m] :
             m # l \/ j # k => handle'[m][j] = handle[m][j]
    <3>1. HandleType(handle) /\ PutHandle(l, k, NoSlot)
      BY <1>5, PlayersFacts DEF PutHandle
    <3>2. l \in List /\ k \in DOMAIN Tracks[l] /\ NoSlot \in Slot \cup {NoSlot}
      BY <1>2
    <3>3. QED
      BY <3>1, <3>2, HandleSet, Zenon
  <2>4. ListsTyped'
    BY <1>1, <2>3, PlayersFacts DEF ListsTyped
  <2>5. TypeInv' /\ (\A i \in Slot : MusicOK(slot[i]))'
    BY <2>2, PlayersFacts DEF TypeInv, TypeOK, AtWork
  <2>6. ShortLists'
    BY <1>1, <1>2, <1>5, <2>2, PlayersFacts, StaysShort
  <2>7. LoopsHeld'
    BY <1>1, <2>2, <2>3 DEF PlayersInv, LoopsHeld
  <2>8. QED
    BY <2>1, <2>4, <2>5, <2>6, <2>7 DEF PlayersInv, MusicTypeInv
<1>6. ASSUME NEW i \in Slot, op' = [op EXCEPT ![t] = Idle],
             PlayLoop(i, Tracks[l][k]),
             handle' = [handle EXCEPT ![l][k] = i]
      PROVE  PlayersInv'
  <2> HIDE DEF k, l
  <2>1. op' \in [Thread -> OpType] /\ (\A u \in Thread : OpOK(op[u]))'
    BY <1>1, <1>6, IdleOK, OpSet, PlayersFacts
  <2>2. /\ HandleType(handle') /\ handle'[l][k] = i
        /\ \A m \in List : \A j \in DOMAIN Tracks[m] :
             m # l \/ j # k => handle'[m][j] = handle[m][j]
    <3>1. HandleType(handle) /\ PutHandle(l, k, i)
      BY <1>6, PlayersFacts DEF PutHandle
    <3>2. l \in List /\ k \in DOMAIN Tracks[l] /\ i \in Slot \cup {NoSlot}
      BY <1>2
    <3>3. QED
      BY <3>1, <3>2, HandleSet, Zenon
  <2>3. ListsTyped'
    BY <1>1, <2>2, PlayersFacts DEF ListsTyped
  <2>4. PICK ps \in SlotType :
           /\ slot' = [slot EXCEPT ![i] = ps] /\ UNCHANGED <<paused, pc, cursor, bufLen>>
           /\ MusicOK(ps) /\ ps.onEnd = NoCallback /\ ps.loop
    <3>1. slot[i] \in SlotType /\ Tracks[l][k] \in MusicSound /\ slot[i].onEnd = NoCallback
      BY <1>2, PlayersFacts, TrackSounds
    <3>2. PICK fade \in CrossFades[Tracks[l][k]] :
             SetSlot(i, Looping(slot[i], Tracks[l][k], fade))
      BY <1>6 DEF PlayLoop
    <3>3. QED
      BY <3>1, <3>2, LoopStarts DEF SetSlot
  <2>5. /\ TypeInv' /\ (\A j \in Slot : MusicOK(slot[j]))'
        /\ \A j \in Slot : slot'[j].onEnd = NoCallback
        /\ slot'[i] = ps /\ \A j \in Slot : j # i => slot'[j] = slot[j]
    BY <2>4, SlotPut, PlayersFacts
  <2>6. ShortLists'
    BY <1>1, <1>2, <1>6, <2>4, <2>5, StaysShort
  <2>7. LoopsHeld'
    <3>2. ~slot[i].loop
      BY <1>6 DEF PlayLoop, FirstFree, IsFree
    <3>3. ASSUME NEW m \in List, NEW j \in DOMAIN Tracks[m], m # l \/ j # k
          PROVE  /\ handle'[m][j] # i
                 /\ handle'[m][j] # NoSlot =>
                      /\ slot'[handle'[m][j]].loop
                      /\ \A n \in List : \A g \in DOMAIN Tracks[n] :
                           handle[n][g] = handle'[m][j] => n = m /\ g = j
      <4>1. handle'[m][j] = handle[m][j] /\ handle[m][j] \in Slot \cup {NoSlot} /\ i # NoSlot
        BY <2>2, <3>3, PlayersFacts
      <4>2. CASE handle[m][j] = NoSlot
        BY <4>1, <4>2
      <4>3. CASE handle[m][j] # NoSlot
        <5>1. /\ slot[handle[m][j]].loop
              /\ \A n \in List : \A g \in DOMAIN Tracks[n] :
                   handle[n][g] = handle[m][j] => n = m /\ g = j
          BY <3>3, <4>3 DEF PlayersInv, LoopsHeld
        <5>2. handle[m][j] # i
          BY <3>2, <5>1
        <5>3. QED
          BY <2>5, <4>1, <5>1, <5>2
      <4>4. QED
        BY <4>2, <4>3
    <3>4. slot'[i].loop
      BY <2>4, <2>5
    <3> SUFFICES ASSUME NEW m \in List, NEW j \in DOMAIN Tracks[m], handle'[m][j] # NoSlot
                 PROVE  /\ slot'[handle'[m][j]].loop
                        /\ \A n \in List : \A g \in DOMAIN Tracks[n] :
                             handle'[n][g] = handle'[m][j] => n = m /\ g = j
      BY DEF LoopsHeld
    <3>5. CASE m = l /\ j = k
      BY <2>2, <3>3, <3>4, <3>5
    <3>6. CASE m # l \/ j # k
      BY <1>2, <2>2, <3>3, <3>6
    <3>7. QED
      BY <3>5, <3>6
  <2>8. QED
    BY <2>1, <2>3, <2>5, <2>6, <2>7 DEF PlayersInv, MusicTypeInv
<1>7. QED
  BY <1>3, <1>4, <1>5, <1>6 DEF StartTrack

LEMMA NeverRegisters ==
  ASSUME PlayersInv, NEW t \in Thread
  PROVE  ~RegisterPlayNext(t)
BY PlayersFacts DEF RegisterPlayNext, OpOK

-----------------------------------------------------------------------------
(* The audio thread.  What a step of it does to a slot ...                 *)
Heard(ps, new) == new = ps \/ Mixes(ps, new)

LEMMA HeardFields ==
  ASSUME NEW ps \in SlotType, MusicOK(ps), NEW new, Heard(ps, new)
  PROVE  /\ new \in SlotType /\ MusicOK(new)
         /\ new.loop = ps.loop /\ new.onEnd = ps.onEnd
         /\ LeadingSlot(new) => LeadingSlot(ps)
         /\ EffectOK(ps) => EffectOK(new)
         /\ LoopFits(ps) => LoopFits(new)
BY DEF Heard, Mixes

(* ... and to the pool: there is no callback to call.                      *)
LEMMA AudioFacts ==
  ASSUME PlayersInv, AudioStep
  PROVE  /\ TypeInv' /\ \A j \in Slot : Heard(slot[j], slot'[j])
         /\ pc # "panicked" /\ pc' # "callback"
<1>1. TypeInv /\ TypeInv' /\ pc # "callback"
  BY PlayersFacts, TypeStep DEF Next, PlayersInv, ShortLists
<1>2. /\ slot \in [Slot -> SlotType]
      /\ \A j \in Slot : /\ slot[j] \in SlotType /\ MusicOK(slot[j])
                         /\ slot[j].onEnd = NoCallback
  BY PlayersFacts
<1>3. CASE BeginPass \/ EndPass \/ Panic
  BY <1>1, <1>2, <1>3 DEF BeginPass, EndPass, Panic, AtSlot, Heard
<1>4. ASSUME AtSlot
      PROVE  /\ cursor \in Slot /\ bufLen \in BufLens
             /\ Mixes(slot[cursor], Current)
  <2>1. cursor \in Slot /\ bufLen \in BufLens
    BY <1>1, <1>4, PoolSizeAssumption DEF AtSlot, TypeInv, TypeOK, AtWork, Slot
  <2>2. QED
    BY <1>2, <2>1, SeekMixes DEF Current
<1>5. CASE SkipSlot
  <2>1. AtSlot /\ pc = "mixing" /\ pc' = "mixing"
    BY <1>5 DEF SkipSlot, AtSlot
  <2>2. cursor \in Slot /\ Mixes(slot[cursor], Current)
    BY <1>4, <2>1
  <2>3. slot'[cursor] = Current /\ \A j \in Slot : j # cursor => slot'[j] = slot[j]
    BY <1>2, <1>5, <2>2 DEF SkipSlot
  <2>4. QED
    BY <1>1, <2>1, <2>2, <2>3 DEF Heard
<1>6. CASE MixSlot
  <2>1. AtSlot /\ ~IsFree(Current) /\ ~Crashes /\ pc = "mixing"
    BY <1>6 DEF MixSlot, AtSlot
  <2>2. /\ cursor \in Slot /\ bufLen \in BufLens
        /\ Mixes(slot[cursor], Current)
    BY <1>4, <2>1
  <2>3. Mixes(slot[cursor], Played)
    <3>1. CASE IsPaused(Current)
      BY <2>2, <3>1 DEF Played
    <3>2. CASE ~IsPaused(Current)
      BY <1>2, <2>1, <2>2, <3>2, MixingMixes DEF Played, Crashes, Current
    <3>3. QED
      BY <3>1, <3>2
  <2>4. slot'[cursor] = Played /\ \A j \in Slot : j # cursor => slot'[j] = slot[j]
    BY <1>2, <1>6, <2>2 DEF MixSlot
  <2>5. Played.onEnd = NoCallback
    BY <1>2, <2>2, <2>3 DEF Mixes
  <2>6. pc' # "callback"
    BY <1>1, <1>6, <2>5 DEF MixSlot
  <2>7. QED
    BY <1>1, <2>1, <2>3, <2>4, <2>6 DEF Heard
<1>7. ~ReturnFromCallback
  BY <1>1 DEF ReturnFromCallback
<1>8. QED
  BY <1>3, <1>5, <1>6, <1>7 DEF AudioStep

LEMMA MixingFacts ==
  ASSUME PlayersInv, Mixing
  PROVE  /\ TypeInv' /\ pc # "panicked" /\ pc' # "callback"
         /\ \A j \in Slot : /\ slot'[j] \in SlotType /\ MusicOK(slot'[j])
                            /\ slot'[j].loop = slot[j].loop /\ slot'[j].onEnd = slot[j].onEnd
                            /\ LeadingSlot(slot'[j]) => LeadingSlot(slot[j])
                            /\ EffectOK(slot[j]) => EffectOK(slot'[j])
                            /\ LoopFits(slot[j]) => LoopFits(slot'[j])
         /\ UNCHANGED <<loaded, current, track, handle, op>>
<1>1. TypeInv' /\ pc # "panicked" /\ pc' # "callback" /\ \A j \in Slot : Heard(slot[j], slot'[j])
  BY AudioFacts DEF Mixing
<1>2. \A j \in Slot : slot[j] \in SlotType /\ MusicOK(slot[j])
  BY PlayersFacts
<1>3. UNCHANGED <<loaded, current, track, handle, op>>
  BY <1>1 DEF Mixing
<1>4. QED
  BY <1>1, <1>2, <1>3, HeardFields

LEMMA PlayersMixing ==
  ASSUME PlayersInv, Mixing
  PROVE  PlayersInv'
<1>1. /\ TypeInv' /\ pc' # "callback"
      /\ \A j \in Slot : MusicOK(slot'[j]) /\ slot'[j].loop = slot[j].loop
                         /\ slot'[j].onEnd = slot[j].onEnd
      /\ UNCHANGED <<loaded, current, track, handle, op>>
  BY MixingFacts
<1>2. op' \in [Thread -> OpType] /\ (\A u \in Thread : OpOK(op[u]))'
  BY <1>1, PlayersFacts DEF OpOK
<1>3. ListsTyped'
  BY <1>1, PlayersFacts DEF ListsTyped
<1>4. LoopsHeld'
  <2>1. \A l \in List : \A k \in DOMAIN Tracks[l] :
          handle[l][k] # NoSlot => slot'[handle[l][k]].loop = slot[handle[l][k]].loop
    BY <1>1, PlayersFacts
  <2>2. QED
    BY <1>1, <2>1 DEF PlayersInv, LoopsHeld
<1>5. ShortLists'
  BY <1>1 DEF PlayersInv, ShortLists, LongListLoaded
<1>6. QED
  BY <1>1, <1>2, <1>3, <1>4, <1>5 DEF PlayersInv, MusicTypeInv

-----------------------------------------------------------------------------
(* The calls of the game.                                                  *)
LEMMA CallBegins ==
  ASSUME PlayersInv, NEW t \in GameThread, MayCall(t), NEW o, OpOK(o),
         op' = [op EXCEPT ![t] = o], UNCHANGED <<vars, loaded, current, track, handle>>
  PROVE  PlayersInv'
<1>1. UNCHANGED <<slot, paused, pc, cursor, bufLen, loaded, current, track, handle>>
  BY DEF vars
<1>2. t \in Thread /\ AudioThread \in Thread /\ t # AudioThread
  BY ThreadAssumption DEF Thread
<1>3. op' \in [Thread -> OpType] /\ (\A u \in Thread : OpOK(op[u]))'
      /\ op'[t] = o /\ \A u \in Thread : u # t => op'[u] = op[u]
  BY <1>1, <1>2, OpSet, PlayersFacts
<1>4. TypeInv' /\ (\A i \in Slot : MusicOK(slot[i]))' /\ ListsTyped'
  BY <1>1, PlayersFacts DEF TypeInv, TypeOK, AtWork, ListsTyped
<1>5. LoopsHeld'
  BY <1>1 DEF PlayersInv, LoopsHeld
<1>6. ShortLists'
  BY <1>1, <1>2, <1>3 DEF PlayersInv, ShortLists, LongListLoaded
<1>7. QED
  BY <1>3, <1>4, <1>5, <1>6 DEF PlayersInv, MusicTypeInv

LEMMA CallOnSlot ==
  ASSUME PlayersInv, NEW i \in Slot, NEW new \in SlotType, MusicOK(new),
         new.onEnd = NoCallback, slot[i].loop => new.loop,
         slot' = [slot EXCEPT ![i] = new], UNCHANGED <<paused, pc, cursor, bufLen>>,
         UNCHANGED musicVars
  PROVE  PlayersInv'
<1>1. UNCHANGED <<loaded, current, track, handle, op>>
  BY DEF musicVars
<1>2. /\ TypeInv' /\ (\A j \in Slot : MusicOK(slot[j]))'
      /\ \A j \in Slot : slot'[j].onEnd = NoCallback
      /\ slot'[i] = new /\ \A j \in Slot : j # i => slot'[j] = slot[j]
  BY SlotPut, PlayersFacts
<1>3. ListsTyped'
  BY <1>1, PlayersFacts DEF ListsTyped
<1>4. (\A u \in Thread : OpOK(op[u]))' /\ op' \in [Thread -> OpType]
  BY <1>1, PlayersFacts DEF OpOK
<1>5. LoopsHeld'
  <2>1. \A l \in List : \A k \in DOMAIN Tracks[l] : handle[l][k] \in Slot \cup {NoSlot}
    BY PlayersFacts
  <2>2. \A l \in List : \A k \in DOMAIN Tracks[l] :
          handle[l][k] # NoSlot /\ slot[handle[l][k]].loop => slot'[handle[l][k]].loop
    BY <1>2, <2>1
  <2>3. QED
    BY <1>1, <2>2 DEF PlayersInv, LoopsHeld
<1>6. ShortLists'
  BY <1>1, <1>2 DEF PlayersInv, ShortLists, LongListLoaded
<1>7. QED
  BY <1>2, <1>3, <1>4, <1>5, <1>6 DEF PlayersInv, MusicTypeInv

LEMMA PlayersPlayList ==
  ASSUME PlayersInv, NEW t \in GameThread, NEW l \in loaded \cup {UnknownList}, PlayList(t, l)
  PROVE  PlayersInv'
<1> DEFINE o == [at |-> IF current = NoList THEN "advance" ELSE "stop",
                 list |-> current, way |-> 0, wanted |-> l, k |-> 0]
<1>1. /\ MayCall(t) /\ op' = [op EXCEPT ![t] = o]
      /\ UNCHANGED <<vars, loaded, current, track, handle>>
  BY DEF PlayList
<1>2. current \in loaded \cup {NoList} /\ loaded \subseteq List
  BY PlayersFacts, LoadedLists DEF ListsTyped
<1>3. /\ o \in OpType /\ o.list = current /\ o.way = 0 /\ o.wanted = l
      /\ o.at = (IF current = NoList THEN "advance" ELSE "stop")
  BY <1>2 DEF OpType
<1> HIDE DEF o
<1>4. OpOK(o)
  BY <1>2, <1>3 DEF OpOK
<1>5. QED
  BY <1>1, <1>4, CallBegins

LEMMA PlayersChangeTrack ==
  ASSUME PlayersInv, NEW t \in GameThread, NEW w \in {-1, 1}, ChangeTrack(t, w)
  PROVE  PlayersInv'
<1> DEFINE o == Change(current, w)
<1>1. /\ MayCall(t) /\ op' = [op EXCEPT ![t] = o] /\ current # NoList
      /\ UNCHANGED <<vars, loaded, current, track, handle>>
  BY DEF ChangeTrack
<1>2. current \in loaded /\ loaded \subseteq List
  BY <1>1, PlayersFacts, LoadedLists DEF ListsTyped
<1>3. o \in OpType /\ o.list = current /\ o.way = w /\ o.at = "stop"
  BY <1>2 DEF OpType, Change
<1> HIDE DEF o
<1>4. OpOK(o)
  BY <1>2, <1>3 DEF OpOK
<1>5. QED
  BY <1>1, <1>4, CallBegins

(* A loop is all that is ever sought.                                      *)
LEMMA SoughtLoop ==
  ASSUME PlayersInv, NEW t \in GameThread, NEW target \in SeekTargets, SeekTrack(t, target)
  PROVE  \E i \in Slot :
           /\ slot[i].loop /\ slot' = [slot EXCEPT ![i] = Sought(slot[i], target)]
           /\ UNCHANGED <<paused, pc, cursor, bufLen, musicVars>>
<1> DEFINE h == handle[current][track[current]]
<1>1. /\ current # NoList /\ h # NoSlot
      /\ slot' = [slot EXCEPT ![h] = Sought(slot[h], target)]
      /\ UNCHANGED <<paused, pc, cursor, bufLen, musicVars>>
  BY DEF SeekTrack, SetSlot
<1>2. current \in List /\ track[current] \in DOMAIN Tracks[current]
  BY <1>1, PlayersFacts, LoadedLists DEF ListsTyped
<1>3. h \in Slot /\ slot[h].loop
  BY <1>1, <1>2, PlayersFacts DEF PlayersInv, LoopsHeld
<1>4. QED
  BY <1>1, <1>3

(* An effect is given a slot that was free.                                *)
LEMMA PlayedEffect ==
  ASSUME NEW t \in GameThread, PlayEffect(t)
  PROVE  \E i \in Slot, s \in Effect :
           /\ IsFree(slot[i]) /\ ~slot[i].loop
           /\ slot' = [slot EXCEPT ![i] = Started(slot[i], s)]
           /\ UNCHANGED <<paused, pc, cursor, bufLen, musicVars>>
<1>1. PICK i \in Slot, s \in Effect : Play(i, s) /\ UNCHANGED musicVars
  BY DEF PlayEffect
<1>2. IsFree(slot[i]) /\ ~slot[i].loop
  BY <1>1 DEF Play, FirstFree, IsFree
<1>3. QED
  BY <1>1, <1>2 DEF Play, SetSlot

LEMMA PlayersCall ==
  ASSUME Sensible, PlayersInv, NEW t \in GameThread, GameCall(t)
  PROVE  PlayersInv'
<1>1. ASSUME NEW l \in loaded \cup {UnknownList}, PlayList(t, l) PROVE PlayersInv'
  BY <1>1, PlayersPlayList
<1>2. ASSUME NEW w \in {-1, 1}, ChangeTrack(t, w) PROVE PlayersInv'
  BY <1>2, PlayersChangeTrack
<1>3. ASSUME NEW target \in SeekTargets, SeekTrack(t, target) PROVE PlayersInv'
  <2>1. PICK i \in Slot :
           /\ slot[i].loop /\ slot' = [slot EXCEPT ![i] = Sought(slot[i], target)]
           /\ UNCHANGED <<paused, pc, cursor, bufLen, musicVars>>
    BY <1>3, SoughtLoop
  <2> DEFINE new == Sought(slot[i], target)
  <2>2. new \in SlotType /\ MusicOK(new) /\ new.onEnd = NoCallback /\ new.loop
    BY <2>1, PlayersFacts, LoopSought
  <2>3. slot' = [slot EXCEPT ![i] = new]
    BY <2>1
  <2> HIDE DEF new
  <2>4. QED
    BY <2>1, <2>2, <2>3, CallOnSlot
<1>4. CASE PlayEffect(t)
  <2>1. PICK i \in Slot, s \in Effect :
           /\ IsFree(slot[i]) /\ ~slot[i].loop
           /\ slot' = [slot EXCEPT ![i] = Started(slot[i], s)]
           /\ UNCHANGED <<paused, pc, cursor, bufLen, musicVars>>
    BY <1>4, PlayedEffect
  <2> DEFINE new == Started(slot[i], s)
  <2>2. new \in SlotType /\ MusicOK(new) /\ new.onEnd = NoCallback
    BY <2>1, PlayersFacts, EffectStarts
  <2>3. slot' = [slot EXCEPT ![i] = new]
    BY <2>1
  <2> HIDE DEF new
  <2>4. QED
    BY <2>1, <2>2, <2>3, CallOnSlot
<1>5. ASSUME NEW c \in Channel, Pause(c) \/ Resume(c), UNCHANGED musicVars PROVE PlayersInv'
  <2>1. /\ UNCHANGED <<slot, pc, cursor, bufLen, loaded, current, track, handle, op>>
        /\ TypeInv'
    BY <1>5, PlayersFacts, TypeStep DEF Pause, Resume, SetPaused, musicVars, Next, GameStep
  <2>2. (\A i \in Slot : MusicOK(slot[i]))' /\ ListsTyped' /\ LoopsHeld' /\ ShortLists'
    BY <2>1 DEF PlayersInv, MusicTypeInv, ListsTyped, LoopsHeld, ShortLists, LongListLoaded
  <2>3. (op \in [Thread -> OpType])' /\ (\A u \in Thread : OpOK(op[u]))'
    BY <2>1, PlayersFacts DEF OpOK
  <2>4. QED
    BY <2>1, <2>2, <2>3 DEF PlayersInv, MusicTypeInv
<1>6. QED
  BY <1>1, <1>2, <1>3, <1>4, <1>5 DEF GameCall

-----------------------------------------------------------------------------
LEMMA PlayersInit == MusicInit /\ ~LongListLoaded => PlayersInv
<1> SUFFICES ASSUME MusicInit, ~LongListLoaded PROVE PlayersInv
  OBVIOUS
<1>1. /\ TypeInv /\ loaded \in Loads /\ current = NoList
      /\ track = [l \in List |-> 1] /\ op = [t \in Thread |-> Idle]
      /\ handle = [l \in List |-> [k \in DOMAIN Tracks[l] |-> NoSlot]]
      /\ slot = [i \in Slot |-> ZeroSlot] /\ pc = "idle"
  BY TypeInit DEF MusicInit, Init
<1>2. \A l \in List : 1 \in DOMAIN Tracks[l]
  BY ListAssumption
<1>3. \A l \in List : handle[l] \in [DOMAIN Tracks[l] -> Slot \cup {NoSlot}]
  BY <1>1
<1>4. ListsTyped
  BY <1>1, <1>2, <1>3 DEF ListsTyped, HandleType
<1>5. op \in [Thread -> OpType] /\ \A t \in Thread : OpOK(op[t]) /\ op[t] = Idle
  BY <1>1, IdleOK DEF OpOK
<1>6. \A i \in Slot : MusicOK(slot[i]) /\ slot[i].onEnd = NoCallback
  BY <1>1, ZeroSlotOK
<1>7. ShortLists
  BY <1>1, <1>5, <1>6 DEF ShortLists, Thread
<1>8. LoopsHeld
  BY <1>1 DEF LoopsHeld
<1>9. QED
  BY <1>1, <1>4, <1>5, <1>6, <1>7, <1>8 DEF PlayersInv, MusicTypeInv

LEMMA PlayersStep ==
  ASSUME Sensible, PlayersInv, [MusicNext]_allVars
  PROVE  PlayersInv'
<1>1. CASE Mixing
  BY <1>1, PlayersMixing
<1>2. ASSUME NEW t \in Thread, OpStep(t) PROVE PlayersInv'
  BY <1>2, PlayersStop, PlayersAdvance, PlayersSelect, PlayersStart, NeverRegisters DEF OpStep
<1>3. ASSUME NEW t \in GameThread, GameCall(t) PROVE PlayersInv'
  BY <1>3, PlayersCall
<1>4. CASE UNCHANGED allVars
  <2>1. /\ UNCHANGED <<slot, pc, cursor, bufLen, loaded, current, track, handle, op>>
        /\ TypeInv'
    BY <1>4, PlayersFacts, TypeStep DEF allVars, musicVars, vars
  <2>2. (\A i \in Slot : MusicOK(slot[i]))' /\ ListsTyped' /\ LoopsHeld' /\ ShortLists'
    BY <2>1 DEF PlayersInv, MusicTypeInv, ListsTyped, LoopsHeld, ShortLists, LongListLoaded
  <2>3. (op \in [Thread -> OpType])' /\ (\A u \in Thread : OpOK(op[u]))'
    BY <2>1, PlayersFacts DEF OpOK
  <2>4. QED
    BY <2>1, <2>2, <2>3 DEF PlayersInv, MusicTypeInv
<1>5. QED
  BY <1>1, <1>2, <1>3, <1>4 DEF MusicNext

(* What is loaded stays loaded.                                            *)
LEMMA SameLists ==
  ASSUME [MusicNext]_allVars
  PROVE  loaded' = loaded /\ LongListLoaded' = LongListLoaded
<1>1. loaded' = loaded
  <2>1. ASSUME NEW t \in Thread, OpStep(t) PROVE loaded' = loaded
    BY <2>1 DEF OpStep, StopTrack, AdvanceTrack, SelectList, StartTrack, RegisterPlayNext
  <2>2. ASSUME NEW t \in GameThread, GameCall(t) PROVE loaded' = loaded
    BY <2>2 DEF GameCall, PlayList, ChangeTrack, SeekTrack, PlayEffect, musicVars
  <2>3. QED
    BY <2>1, <2>2 DEF MusicNext, Mixing, allVars, musicVars
<1>2. QED
  BY <1>1 DEF LongListLoaded

-----------------------------------------------------------------------------
(* One music.  One operation at a time is under way.                       *)
LEMMA OneBusy ==
  ASSUME PlayersInv, OneCaller, NEW t \in Thread, NEW u \in Thread,
         op[t] # Idle, t # u
  PROVE  op[u] = Idle
BY DEF PlayersInv, ShortLists, Thread, OneCaller

LEMMA CallerAlone ==
  ASSUME PlayersInv, OneCaller, NEW t \in GameThread, MayCall(t)
  PROVE  \A u \in Thread : op[u] = Idle
BY DEF MayCall, PlayersInv, ShortLists, Thread, OneCaller

NoHandles == \A l \in List : \A k \in DOMAIN Tracks[l] : handle[l][k] = NoSlot

(* What is current is a handle there is.                                   *)
LEMMA CurrentHandle ==
  ASSUME PlayersInv, current # NoList
  PROVE  /\ current \in loaded /\ current \in List
         /\ track[current] \in DOMAIN Tracks[current]
         /\ handle[current][track[current]] \in Slot \cup {NoSlot}
BY PlayersFacts, LoadedLists DEF ListsTyped

(* Between two tracks nothing leads ...                                    *)
LEMMA BetweenTracks ==
  ASSUME PlayersInv, OneMusicInv, NEW t \in Thread, op[t].at \in {"advance", "start"}
  PROVE  NoHandles /\ \A i \in Slot : ~LeadingSlot(slot[i])
<1>1. NoHandles
  BY DEF OneMusicInv, OneHandle, NoHandles
<1>2. \A i \in Slot : ~IsCurrent(i)
  BY <1>1, CurrentHandle, PlayersFacts DEF IsCurrent, NoHandles
<1>4. \A i \in Slot : ~LeadingSlot(slot[i])
  BY <1>2 DEF OneMusicInv, Leading, LeadingSlot
<1>5. QED
  BY <1>1, <1>4

(* ... which is enough.                                                    *)
LEMMA SilenceIsFine ==
  ASSUME NoHandles', \A i \in Slot : ~LeadingSlot(slot'[i]),
         \A u \in Thread : OnCurrent(op'[u], current')
  PROVE  OneMusicInv'
<1>1. OneHandle'
  BY DEF OneHandle, NoHandles
<1>2. \A i \in Slot : ~Leading(i)'
  BY DEF Leading, LeadingSlot
<1>3. QED
  BY <1>1, <1>2 DEF OneMusicInv

(* The operations there are, after a step of t.                            *)
LEMMA OthersIdle ==
  ASSUME PlayersInv, OneCaller, NEW t \in Thread, op[t] # Idle, NEW o,
         op' = [op EXCEPT ![t] = o], OnCurrent(o, current')
  PROVE  /\ op'[t] = o /\ \A u \in Thread : u # t => op'[u] = Idle
         /\ (\A u \in Thread : OnCurrent(op[u], current))'
<1>1. op'[t] = o /\ \A u \in Thread : u # t => op'[u] = op[u]
  BY PlayersFacts
<1>2. \A u \in Thread : u # t => op'[u] = Idle
  BY <1>1, OneBusy
<1>3. \A u \in Thread : OnCurrent(op'[u], current')
  BY <1>1, <1>2 DEF OnCurrent, Idle
<1>4. QED
  BY <1>1, <1>2, <1>3

LEMMA OneMusicStop ==
  ASSUME PlayersInv, OneCaller, OneMusicInv, NEW t \in Thread, StopTrack(t)
  PROVE  OneMusicInv'
<1> DEFINE l == op[t].list
           k == track[l]
           h == handle[l][k]
           o == [op[t] EXCEPT !.at = "advance"]
<1>1. /\ op[t].at = "stop" /\ op' = [op EXCEPT ![t] = o]
      /\ handle' = [handle EXCEPT ![l][k] = NoSlot]
      /\ \/ Sounds(h) /\ slot' = [slot EXCEPT ![h] = FadingOut(slot[h], MusicFade)]
         \/ ~Sounds(h) /\ slot' = slot
      /\ UNCHANGED <<paused, pc, cursor, bufLen, loaded, current, track>>
  BY DEF StopTrack, SetSlot, vars
<1>2. /\ op[t] \in OpType /\ l \in loaded /\ l \in List /\ l = current /\ current # NoList
      /\ k \in DOMAIN Tracks[l] /\ op[t] # Idle /\ h \in Slot \cup {NoSlot}
  <2>1. op[t].at = "stop"
    BY <1>1
  <2>2. op[t] # Idle
    BY <2>1 DEF Idle
  <2>3. OpOK(op[t]) /\ op[t] \in OpType
    BY PlayersFacts
  <2>4. l \in loaded /\ l = current
    BY <2>1, <2>3 DEF OpOK, OneMusicInv, OnCurrent
  <2>5. l \in List /\ current # NoList /\ k \in DOMAIN Tracks[l]
    BY <2>4, PlayersFacts, LoadedLists
  <2> HIDE DEF l, k
  <2>6. h \in Slot \cup {NoSlot}
    BY <2>5, PlayersFacts
  <2>7. QED
    BY <2>2, <2>3, <2>4, <2>5, <2>6
<1>3. o.at = "advance" /\ o.list = l
  BY <1>2 DEF OpType
<1> HIDE DEF o
<1>4. /\ \A u \in Thread : OnCurrent(op'[u], current')
      /\ op'[t] = o /\ \A u \in Thread : u # t => op'[u] = Idle
  <2>1. OnCurrent(o, current')
    BY <1>1, <1>2, <1>3 DEF OnCurrent
  <2>2. QED
    BY <1>1, <1>2, <2>1, OthersIdle
<1>6. NoHandles'
  <2>1. HandleType(handle) /\ PutHandle(l, k, NoSlot)
    BY <1>1, PlayersFacts DEF PutHandle
  <2>2. l \in List /\ k \in DOMAIN Tracks[l] /\ NoSlot \in Slot \cup {NoSlot}
    BY <1>2
  <2> HIDE DEF l, k
  <2>3. /\ handle'[l][k] = NoSlot
        /\ \A m \in List : \A j \in DOMAIN Tracks[m] :
             m # l \/ j # k => handle'[m][j] = handle[m][j]
    BY <2>1, <2>2, HandleSet, Zenon
  <2>4. \A m \in List : \A j \in DOMAIN Tracks[m] : m # l \/ j # k => handle[m][j] = NoSlot
    BY <1>2 DEF OneMusicInv, OneHandle, k
  <2>5. QED
    BY <2>3, <2>4 DEF NoHandles
<1>7. \A i \in Slot : i # h => ~LeadingSlot(slot[i])
  BY <1>2 DEF IsCurrent, OneMusicInv, Leading, LeadingSlot
<1>8. \A i \in Slot : ~LeadingSlot(slot'[i])
  <2>1. CASE Sounds(h) /\ slot' = [slot EXCEPT ![h] = FadingOut(slot[h], MusicFade)]
    <3>1. h \in Slot /\ IsPlaying(slot[h]) /\ MusicOK(slot[h]) /\ slot[h] \in SlotType
      BY <1>2, <2>1, PlayersFacts DEF Sounds
    <3> DEFINE new == FadingOut(slot[h], MusicFade)
    <3>2. ~LeadingSlot(new)
      BY <3>1, MusicFadesOut
    <3>3. slot' = [slot EXCEPT ![h] = new]
      BY <2>1
    <3> HIDE DEF new, h
    <3>4. slot'[h] = new /\ \A i \in Slot : i # h => slot'[i] = slot[i]
      BY <3>1, <3>3, PlayersFacts
    <3>5. QED
      BY <1>7, <3>2, <3>4
  <2>2. CASE ~Sounds(h) /\ slot' = slot
    <3>1. h \in Slot => IsFree(slot[h])
      <4> SUFFICES ASSUME h \in Slot PROVE IsFree(slot[h])
        OBVIOUS
      <4>1. MusicOK(slot[h]) /\ slot[h] \in SlotType /\ ~IsPlaying(slot[h])
        BY <2>2, PlayersFacts DEF Sounds
      <4> HIDE DEF h
      <4>2. slot[h].pos \in Nat /\ slot[h].endAt \in Nat
        BY <4>1, FieldTypes
      <4>3. slot[h].pos >= slot[h].endAt
        BY <4>1, <4>2 DEF IsPlaying
      <4>4. QED
        BY <4>1, <4>2, <4>3 DEF IsFree, MusicOK, SeekOK, VoiceOK
    <3>2. h \in Slot => ~LeadingSlot(slot[h])
      BY <3>1 DEF LeadingSlot
    <3>3. QED
      BY <1>7, <2>2, <3>2
  <2>3. QED
    BY <1>1, <2>1, <2>2
<1>9. QED
  BY <1>4, <1>6, <1>8, SilenceIsFine

LEMMA OneMusicAdvance ==
  ASSUME PlayersInv, OneCaller, OneMusicInv, NEW t \in Thread, AdvanceTrack(t)
  PROVE  OneMusicInv'
<1> DEFINE o == [op[t] EXCEPT !.at = "start"]
<1>1. /\ op[t].at = "advance" /\ op[t].way # 0 /\ op' = [op EXCEPT ![t] = o]
      /\ UNCHANGED <<slot, pc, cursor, current, handle>>
  BY DEF AdvanceTrack, vars
<1>2. op[t] \in OpType /\ op[t] # Idle /\ op[t].list = current
  BY <1>1, PlayersFacts DEF Idle, OneMusicInv, OnCurrent
<1>3. o.at = "start" /\ o.list = current
  BY <1>2 DEF OpType
<1> HIDE DEF o
<1>4. /\ \A u \in Thread : OnCurrent(op'[u], current')
      /\ op'[t] = o /\ \A u \in Thread : u # t => op'[u] = Idle
  <2>1. OnCurrent(o, current')
    BY <1>1, <1>3 DEF OnCurrent
  <2>2. QED
    BY <1>1, <1>2, <2>1, OthersIdle
<1>6. NoHandles /\ \A i \in Slot : ~LeadingSlot(slot[i])
  BY <1>1, BetweenTracks
<1>7. NoHandles' /\ \A i \in Slot : ~LeadingSlot(slot'[i])
  BY <1>1, <1>6 DEF NoHandles
<1>8. QED
  BY <1>4, <1>7, SilenceIsFine

LEMMA OneMusicSelect ==
  ASSUME PlayersInv, OneCaller, OneMusicInv, NEW t \in Thread, SelectList(t)
  PROVE  OneMusicInv'
<1> DEFINE l == op[t].wanted
           start == [op[t] EXCEPT !.at = "start", !.list = l]
<1>1. op[t].at = "advance" /\ UNCHANGED <<slot, pc, cursor, handle>>
  BY DEF SelectList, vars
<1>2. op[t] \in OpType /\ op[t] # Idle
  BY <1>1, PlayersFacts DEF Idle
<1>3. start.at = "start" /\ start.list = l
  BY <1>2 DEF OpType
<1>4. PICK o : /\ op' = [op EXCEPT ![t] = o]
               /\ o = Idle \/ (o.at = "start" /\ o.list = current')
  <2>1. CASE op' = [op EXCEPT ![t] = Idle]
    BY <2>1
  <2>2. CASE op' = [op EXCEPT ![t] = start] /\ current' = l
    BY <1>3, <2>2
  <2>3. QED
    BY <2>1, <2>2 DEF SelectList
<1>5. /\ \A u \in Thread : OnCurrent(op'[u], current')
      /\ op'[t] = o /\ \A u \in Thread : u # t => op'[u] = Idle
  <2>1. OnCurrent(o, current')
    BY <1>4 DEF OnCurrent, Idle
  <2>2. QED
    BY <1>2, <1>4, <2>1, OthersIdle
<1>7. NoHandles /\ \A i \in Slot : ~LeadingSlot(slot[i])
  BY <1>1, BetweenTracks
<1>8. NoHandles' /\ \A i \in Slot : ~LeadingSlot(slot'[i])
  BY <1>1, <1>7 DEF NoHandles
<1>9. QED
  BY <1>5, <1>8, SilenceIsFine

LEMMA OneMusicStart ==
  ASSUME Sensible, PlayersInv, OneCaller, OneMusicInv,
         NEW t \in Thread, StartTrack(t)
  PROVE  OneMusicInv'
<1> DEFINE l == op[t].list
           k == track[l]
<1>1. op[t].at = "start" /\ UNCHANGED <<loaded, current, track>>
  BY DEF StartTrack
<1>2. /\ op[t] \in OpType /\ op[t] # Idle /\ l \in loaded /\ l \in List /\ k \in DOMAIN Tracks[l]
      /\ l = current /\ current # NoList /\ Single(l)
  BY <1>1, PlayersFacts, LoadedLists DEF OpOK, Idle, OneMusicInv, OnCurrent
<1>3. NoHandles /\ \A i \in Slot : ~LeadingSlot(slot[i])
  BY <1>1, BetweenTracks
<1>4. /\ op' = [op EXCEPT ![t] = Idle]
      /\ \/ AllFull /\ UNCHANGED vars /\ handle' = [handle EXCEPT ![l][k] = NoSlot]
         \/ \E i \in Slot : /\ PlayLoop(i, Tracks[l][k])
                            /\ handle' = [handle EXCEPT ![l][k] = i]
  BY <1>2, <1>3 DEF StartTrack, Sounds, NoHandles
<1>6. /\ \A u \in Thread : OnCurrent(op'[u], current')
      /\ \A u \in Thread : op'[u] = Idle
  <2>1. OnCurrent(Idle, current')
    BY DEF OnCurrent, Idle
  <2>2. QED
    BY <1>2, <1>4, <2>1, OthersIdle
<1>7. \A u \in Thread : op'[u].at \notin {"advance", "start"}
  BY <1>6 DEF Idle
<1>8. ASSUME NEW v \in Slot \cup {NoSlot}, handle' = [handle EXCEPT ![l][k] = v]
      PROVE  /\ handle'[l][k] = v
             /\ \A m \in List : \A j \in DOMAIN Tracks[m] :
                  m # l \/ j # k => handle'[m][j] = NoSlot
  <2>1. HandleType(handle) /\ PutHandle(l, k, v)
    BY <1>8, PlayersFacts DEF PutHandle
  <2>2. l \in List /\ k \in DOMAIN Tracks[l]
    BY <1>2
  <2> HIDE DEF l, k
  <2>3. /\ handle'[l][k] = v
        /\ \A m \in List : \A j \in DOMAIN Tracks[m] :
             m # l \/ j # k => handle'[m][j] = handle[m][j]
    BY <2>1, <2>2, HandleSet, Zenon
  <2>4. QED
    BY <1>3, <2>3 DEF NoHandles
<1> HIDE DEF l, k
<1>9. CASE AllFull /\ UNCHANGED vars /\ handle' = [handle EXCEPT ![l][k] = NoSlot]
  <2>1. PICK v : v = NoSlot
    OBVIOUS
  <2>2. v \in Slot \cup {NoSlot} /\ handle' = [handle EXCEPT ![l][k] = v]
    BY <1>9, <2>1
  <2>3. /\ handle'[l][k] = NoSlot
        /\ \A m \in List : \A j \in DOMAIN Tracks[m] :
             m # l \/ j # k => handle'[m][j] = NoSlot
    BY <1>8, <2>1, <2>2
  <2>4. NoHandles'
    BY <1>1, <1>2, <2>3 DEF NoHandles
  <2>5. \A i \in Slot : ~LeadingSlot(slot'[i])
    BY <1>3, <1>9 DEF vars
  <2>6. QED
    BY <1>6, <2>4, <2>5, SilenceIsFine
<1>10. ASSUME NEW i \in Slot, handle' = [handle EXCEPT ![l][k] = i],
              PlayLoop(i, Tracks[l][k])
       PROVE  OneMusicInv'
  <2>1. PICK ps : slot' = [slot EXCEPT ![i] = ps]
    BY <1>10 DEF PlayLoop, SetSlot
  <2>2. \A j \in Slot : j # i => slot'[j] = slot[j]
    BY <2>1, PlayersFacts
  <2>3. /\ handle'[l][k] = i
        /\ \A m \in List : \A j \in DOMAIN Tracks[m] : m # l \/ j # k => handle'[m][j] = NoSlot
    BY <1>8, <1>10
  <2>4. l = current' /\ k = track'[current'] /\ current' # NoList
    BY <1>1, <1>2 DEF k
  <2>5. OneHandle'
    BY <1>7, <2>3, <2>4 DEF OneHandle
  <2>6. (\A j \in Slot : Leading(j) => IsCurrent(j))'
    <3>1. \A j \in Slot : LeadingSlot(slot'[j]) => j = i
      BY <1>3, <2>2
    <3>2. QED
      BY <2>3, <2>4, <3>1 DEF Leading, LeadingSlot, IsCurrent
  <2>7. QED
    BY <1>6, <2>5, <2>6 DEF OneMusicInv
<1>11. QED
  BY <1>4, <1>9, <1>10

LEMMA OneMusicMixing ==
  ASSUME PlayersInv, OneMusicInv, Mixing
  PROVE  OneMusicInv'
<1>1. /\ \A j \in Slot : LeadingSlot(slot'[j]) => LeadingSlot(slot[j])
      /\ UNCHANGED <<loaded, current, track, handle, op>>
  BY MixingFacts
<1>2. OneHandle' /\ (\A t \in Thread : OnCurrent(op[t], current))'
  BY <1>1 DEF OneMusicInv, OneHandle
<1>3. (\A i \in Slot : Leading(i) => IsCurrent(i))'
  BY <1>1 DEF OneMusicInv, Leading, LeadingSlot, IsCurrent
<1>4. QED
  BY <1>2, <1>3 DEF OneMusicInv

(* Calls that begin an operation, and calls that change a slot or nothing. *)
LEMMA OneMusicBegins ==
  ASSUME PlayersInv, OneCaller, OneMusicInv, NEW t \in GameThread, MayCall(t), NEW o,
         op' = [op EXCEPT ![t] = o], UNCHANGED <<vars, loaded, current, track, handle>>,
         OnCurrent(o, current), o.at \in {"stop", "advance"},
         o.at = "advance" => current = NoList
  PROVE  OneMusicInv'
<1>1. UNCHANGED <<slot, pc, cursor, loaded, current, track, handle>>
  BY DEF vars
<1>2. t \in Thread
  BY DEF Thread
<1>3. op'[t] = o /\ \A u \in Thread : u # t => op'[u] = Idle
  BY <1>2, CallerAlone, PlayersFacts
<1>4. (\A u \in Thread : OnCurrent(op[u], current))'
  BY <1>1, <1>3 DEF OnCurrent, Idle
<1>5. OneHandle'
  <2>1. current = NoList => NoHandles
    BY ListAssumption DEF OneMusicInv, OneHandle, NoHandles
  <2>2. CASE current = NoList
    BY <1>1, <2>1, <2>2 DEF OneHandle, NoHandles
  <2>3. CASE current # NoList
    <3>1. \A u \in Thread : op'[u].at \notin {"advance", "start"}
      BY <1>3, <2>3 DEF Idle
    <3>2. QED
      BY <1>1, <3>1 DEF OneMusicInv, OneHandle
  <2>4. QED
    BY <2>2, <2>3
<1>6. (\A i \in Slot : Leading(i) => IsCurrent(i))'
  BY <1>1 DEF OneMusicInv, Leading, IsCurrent
<1>7. QED
  BY <1>4, <1>5, <1>6 DEF OneMusicInv

LEMMA OneMusicOnSlot ==
  ASSUME PlayersInv, OneMusicInv, NEW i \in Slot, NEW new,
         LeadingSlot(new) => LeadingSlot(slot[i]),
         slot' = [slot EXCEPT ![i] = new], UNCHANGED musicVars
  PROVE  OneMusicInv'
<1>1. UNCHANGED <<loaded, current, track, handle, op>>
  BY DEF musicVars
<1>2. slot'[i] = new /\ \A j \in Slot : j # i => slot'[j] = slot[j]
  BY PlayersFacts
<1>3. \A j \in Slot : LeadingSlot(slot'[j]) => LeadingSlot(slot[j])
  BY <1>2
<1>4. (\A t \in Thread : OnCurrent(op[t], current))' /\ OneHandle'
  BY <1>1 DEF OneMusicInv, OneHandle
<1>5. (\A j \in Slot : Leading(j) => IsCurrent(j))'
  BY <1>1, <1>3 DEF OneMusicInv, Leading, LeadingSlot, IsCurrent
<1>6. QED
  BY <1>4, <1>5 DEF OneMusicInv

LEMMA OneMusicStays ==
  ASSUME OneMusicInv, UNCHANGED <<slot, current, track, handle, op>>
  PROVE  OneMusicInv'
BY DEF OneMusicInv, OneHandle, Leading, IsCurrent

LEMMA OneMusicCall ==
  ASSUME Sensible, PlayersInv, OneCaller, OneMusicInv, NEW t \in GameThread, GameCall(t)
  PROVE  OneMusicInv'
<1>1. ASSUME NEW l \in loaded \cup {UnknownList}, PlayList(t, l) PROVE OneMusicInv'
  <2> DEFINE o == [at |-> IF current = NoList THEN "advance" ELSE "stop",
                   list |-> current, way |-> 0, wanted |-> l, k |-> 0]
  <2>1. /\ MayCall(t) /\ op' = [op EXCEPT ![t] = o]
        /\ UNCHANGED <<vars, loaded, current, track, handle>>
    BY <1>1 DEF PlayList
  <2>2. /\ o.list = current /\ o.way = 0 /\ o.at \in {"stop", "advance"}
        /\ o.at = "advance" => current = NoList
    OBVIOUS
  <2> HIDE DEF o
  <2>3. OnCurrent(o, current)
    BY <2>2 DEF OnCurrent
  <2>4. QED
    BY <2>1, <2>2, <2>3, OneMusicBegins
<1>2. ASSUME NEW w \in {-1, 1}, ChangeTrack(t, w) PROVE OneMusicInv'
  <2> DEFINE o == Change(current, w)
  <2>1. /\ MayCall(t) /\ op' = [op EXCEPT ![t] = o]
        /\ UNCHANGED <<vars, loaded, current, track, handle>>
    BY <1>2 DEF ChangeTrack
  <2>2. o.list = current /\ o.at = "stop"
    BY DEF Change
  <2> HIDE DEF o
  <2>3. OnCurrent(o, current)
    BY <2>2 DEF OnCurrent
  <2>4. QED
    BY <2>1, <2>2, <2>3, OneMusicBegins
<1>3. ASSUME NEW target \in SeekTargets, SeekTrack(t, target) PROVE OneMusicInv'
  <2>1. PICK i \in Slot :
           /\ slot[i].loop /\ slot' = [slot EXCEPT ![i] = Sought(slot[i], target)]
           /\ UNCHANGED <<paused, pc, cursor, bufLen, musicVars>>
    BY <1>3, SoughtLoop
  <2> DEFINE new == Sought(slot[i], target)
  <2>2. LeadingSlot(new) = LeadingSlot(slot[i])
    BY <2>1, PlayersFacts, LoopSought
  <2>3. slot' = [slot EXCEPT ![i] = new]
    BY <2>1
  <2> HIDE DEF new
  <2>4. QED
    BY <2>1, <2>2, <2>3, OneMusicOnSlot
<1>4. CASE PlayEffect(t)
  <2>1. PICK i \in Slot, s \in Effect :
           /\ IsFree(slot[i]) /\ ~slot[i].loop
           /\ slot' = [slot EXCEPT ![i] = Started(slot[i], s)]
           /\ UNCHANGED <<paused, pc, cursor, bufLen, musicVars>>
    BY <1>4, PlayedEffect
  <2> DEFINE new == Started(slot[i], s)
  <2>2. ~LeadingSlot(new)
    BY <2>1, PlayersFacts, EffectStarts
  <2>3. slot' = [slot EXCEPT ![i] = new]
    BY <2>1
  <2> HIDE DEF new
  <2>4. QED
    BY <2>1, <2>2, <2>3, OneMusicOnSlot
<1>5. ASSUME NEW c \in Channel, Pause(c) \/ Resume(c), UNCHANGED musicVars PROVE OneMusicInv'
  <2>1. UNCHANGED <<slot, current, track, handle, op>>
    BY <1>5 DEF Pause, Resume, SetPaused, musicVars
  <2>2. QED
    BY <2>1, OneMusicStays
<1>6. QED
  BY <1>1, <1>2, <1>3, <1>4, <1>5 DEF GameCall

LEMMA OneMusicStep ==
  ASSUME Sensible, OneCaller, PlayersInv, OneMusicInv, [MusicNext]_allVars
  PROVE  OneMusicInv'
<1>1. CASE Mixing
  BY <1>1, OneMusicMixing
<1>2. ASSUME NEW t \in Thread, OpStep(t) PROVE OneMusicInv'
  BY <1>2, OneMusicStop, OneMusicAdvance, OneMusicSelect, OneMusicStart, NeverRegisters
  DEF OpStep
<1>3. ASSUME NEW t \in GameThread, GameCall(t) PROVE OneMusicInv'
  BY <1>3, OneMusicCall
<1>4. CASE UNCHANGED allVars
  <2>1. UNCHANGED <<slot, current, track, handle, op>>
    BY <1>4 DEF allVars, musicVars, vars
  <2>2. QED
    BY <2>1, OneMusicStays
<1>5. QED
  BY <1>1, <1>2, <1>3, <1>4 DEF MusicNext

LEMMA OneMusicInit == MusicInit => OneMusicInv
<1> SUFFICES ASSUME MusicInit PROVE OneMusicInv
  OBVIOUS
<1>1. /\ current = NoList /\ op = [t \in Thread |-> Idle]
      /\ handle = [l \in List |-> [k \in DOMAIN Tracks[l] |-> NoSlot]]
      /\ slot = [i \in Slot |-> ZeroSlot]
  BY DEF MusicInit, Init
<1>2. \A t \in Thread : op[t] = Idle
  BY <1>1
<1>3. \A t \in Thread : OnCurrent(op[t], current)
  BY <1>2 DEF OnCurrent, Idle
<1>4. OneHandle
  BY <1>1 DEF OneHandle
<1>5. \A i \in Slot : ~LeadingSlot(slot[i])
  BY <1>1, ZeroSlotOK
<1>6. QED
  BY <1>3, <1>4, <1>5 DEF OneMusicInv, Leading, LeadingSlot

(* In a game of lists of one track, one goroutine of which calls the       *)
(* package while the audio thread mixes between any two of its steps, the  *)
(* only music that is not on its way out is the track the current list     *)
(* says is playing.                                                        *)
THEOREM OneMusicLeads ==
  ASSUME Sensible, OneCaller
  PROVE  MusicSpec => []OneMusic
<1> DEFINE I == LongListLoaded \/ (PlayersInv /\ OneMusicInv)
<1>1. I => OneMusic
  BY DEF OneMusicInv, OneMusic, IsCurrent
<1>2. MusicInit => I
  BY PlayersInit, OneMusicInit
<1>3. I /\ [MusicNext]_allVars => I'
  BY SameLists, PlayersStep, OneMusicStep
<1>4. QED
  BY <1>1, <1>2, <1>3, PTL DEF MusicSpec

-----------------------------------------------------------------------------
(* Loops.  In a game of lists of one track the mixer never panics, however *)
(* many threads it has.                                                    *)
LEMMA LoopsOnSlot ==
  ASSUME PlayersInv, LoopsInv, NEW i \in Slot, NEW new, EffectOK(new), LoopFits(new),
         slot' = [slot EXCEPT ![i] = new], pc' = pc
  PROVE  LoopsInv'
<1>1. slot'[i] = new /\ \A j \in Slot : j # i => slot'[j] = slot[j]
  BY PlayersFacts
<1>2. \A j \in Slot : EffectOK(slot'[j]) /\ LoopFits(slot'[j])
  BY <1>1 DEF LoopsInv
<1>3. NoCrash'
  BY DEF LoopsInv, NoCrash
<1>4. QED
  BY <1>2, <1>3 DEF LoopsInv

LEMMA LoopsStay ==
  ASSUME LoopsInv, UNCHANGED <<slot, pc>>
  PROVE  LoopsInv'
BY DEF LoopsInv, NoCrash

LEMMA LoopsOperation ==
  ASSUME Sensible, LoopsFit, PlayersInv, LoopsInv, NEW t \in Thread, OpStep(t)
  PROVE  LoopsInv'
<1>2. CASE StopTrack(t)
  <2> DEFINE l == op[t].list
             h == handle[l][track[l]]
  <2>1. /\ op[t].at = "stop" /\ pc' = pc
        /\ \/ Sounds(h) /\ slot' = [slot EXCEPT ![h] = FadingOut(slot[h], MusicFade)]
           \/ slot' = slot
    BY <1>2 DEF StopTrack, SetSlot, vars
  <2>2. CASE slot' = slot
    BY <2>1, <2>2, LoopsStay
  <2>3. CASE Sounds(h) /\ slot' = [slot EXCEPT ![h] = FadingOut(slot[h], MusicFade)]
    <3>1. l \in List /\ track[l] \in DOMAIN Tracks[l]
      BY <2>1, PlayersFacts, LoadedLists DEF OpOK
    <3>2. h \in Slot /\ slot[h].loop
      <4>1. h # NoSlot
        BY <2>3 DEF Sounds
      <4> DEFINE k == track[l]
      <4> HIDE DEF l, k
      <4>2. h = handle[l][k] /\ l \in List /\ k \in DOMAIN Tracks[l]
        BY <3>1 DEF k
      <4> HIDE DEF h
      <4>3. h \in Slot
        BY <4>1, <4>2, PlayersFacts
      <4>4. slot[h].loop
        BY <4>1, <4>2 DEF PlayersInv, LoopsHeld
      <4>5. QED
        BY <4>3, <4>4
    <3> HIDE DEF h
    <3> DEFINE new == FadingOut(slot[h], MusicFade)
    <3>3. EffectOK(new) /\ LoopFits(new)
      BY <3>2, PlayersFacts, LoopFadesOut DEF LoopsInv
    <3>4. slot' = [slot EXCEPT ![h] = new]
      BY <2>3
    <3> HIDE DEF new
    <3>5. QED
      BY <2>1, <3>2, <3>3, <3>4, LoopsOnSlot
  <2>4. QED
    BY <2>1, <2>2, <2>3
<1>3. CASE AdvanceTrack(t) \/ SelectList(t)
  BY <1>3, LoopsStay DEF AdvanceTrack, SelectList, vars
<1>4. CASE StartTrack(t)
  <2> DEFINE l == op[t].list
             k == track[l]
  <2>1. /\ l \in loaded /\ l \in List /\ k \in DOMAIN Tracks[l]
    BY <1>4, PlayersFacts, LoadedLists DEF StartTrack, OpOK
  <2>2. Single(l) /\ Tracks[l][k] \in MusicSound
    BY <2>1, PlayersFacts, LoadedLists, TrackSounds
  <2>3. CASE UNCHANGED vars
    BY <2>3, LoopsStay DEF vars
  <2>4. ASSUME NEW i \in Slot, PlayLoop(i, Tracks[l][k])
        PROVE  LoopsInv'
    <3>1. PICK fade \in CrossFades[Tracks[l][k]] :
             SetSlot(i, Looping(slot[i], Tracks[l][k], fade))
      BY <2>4 DEF PlayLoop
    <3> DEFINE new == Looping(slot[i], Tracks[l][k], fade)
    <3> HIDE DEF l, k
    <3>2. EffectOK(new) /\ LoopFits(new)
      BY <2>2, <3>1, PlayersFacts, LoopStarts
    <3>3. slot' = [slot EXCEPT ![i] = new] /\ pc' = pc
      BY <3>1 DEF SetSlot
    <3> HIDE DEF new
    <3>4. QED
      BY <3>2, <3>3, LoopsOnSlot
  <2>5. QED
    BY <1>4, <2>2, <2>3, <2>4 DEF StartTrack
<1>5. ~RegisterPlayNext(t)
  BY NeverRegisters
<1>6. QED
  BY <1>2, <1>3, <1>4, <1>5 DEF OpStep

LEMMA LoopsMixing ==
  ASSUME PlayersInv, LoopsInv, Mixing
  PROVE  LoopsInv'
<1>1. AudioStep
  BY DEF Mixing
<1>2. /\ pc # "panicked" /\ \A j \in Slot : EffectOK(slot'[j]) /\ LoopFits(slot'[j])
  BY MixingFacts DEF LoopsInv
<1>3. ~Panic
  <2> SUFFICES ASSUME Panic PROVE FALSE
    OBVIOUS
  <2>1. AtSlot /\ ~IsFree(Current) /\ Panics(Current, bufLen)
    BY DEF Panic, Crashes
  <2>2. cursor \in Slot /\ bufLen \in BufLens
    BY <2>1, PlayersFacts, PoolSizeAssumption DEF AtSlot, TypeInv, TypeOK, AtWork, Slot
  <2>3. Current \in SlotType /\ FitOK(Current)
    BY <2>2, PlayersFacts, SeekMixes DEF LoopsInv, Current, Mixes
  <2>4. bufLen \in Nat /\ bufLen > 0
    BY <2>2, BufLensAssumption
  <2>5. QED
    BY <2>1, <2>3, <2>4, FitsNoPanic
<1>4. NoCrash'
  BY <1>1, <1>2, <1>3
  DEF AudioStep, BeginPass, SkipSlot, MixSlot, ReturnFromCallback, EndPass, AtSlot, NoCrash
<1>5. QED
  BY <1>2, <1>4 DEF LoopsInv

LEMMA LoopsCall ==
  ASSUME Sensible, PlayersInv, LoopsInv, NEW t \in GameThread, GameCall(t)
  PROVE  LoopsInv'
<1>1. ASSUME NEW l \in loaded \cup {UnknownList}, PlayList(t, l) PROVE LoopsInv'
  BY <1>1, LoopsStay DEF PlayList, vars
<1>2. ASSUME NEW w \in {-1, 1}, ChangeTrack(t, w) PROVE LoopsInv'
  BY <1>2, LoopsStay DEF ChangeTrack, vars
<1>3. ASSUME NEW target \in SeekTargets, SeekTrack(t, target) PROVE LoopsInv'
  <2>1. PICK i \in Slot :
           /\ slot[i].loop /\ slot' = [slot EXCEPT ![i] = Sought(slot[i], target)]
           /\ UNCHANGED <<pc, musicVars>>
    BY <1>3, SoughtLoop
  <2> DEFINE new == Sought(slot[i], target)
  <2>2. EffectOK(new) /\ LoopFits(new)
    BY <2>1, PlayersFacts, LoopSought DEF LoopsInv
  <2>3. slot' = [slot EXCEPT ![i] = new]
    BY <2>1
  <2> HIDE DEF new
  <2>4. QED
    BY <2>1, <2>2, <2>3, LoopsOnSlot
<1>4. CASE PlayEffect(t)
  <2>1. PICK i \in Slot, s \in Effect :
           /\ slot' = [slot EXCEPT ![i] = Started(slot[i], s)]
           /\ UNCHANGED <<pc, musicVars>>
    BY <1>4, PlayedEffect
  <2> DEFINE new == Started(slot[i], s)
  <2>2. EffectOK(new) /\ LoopFits(new)
    BY <2>1, PlayersFacts, EffectStarts
  <2>3. slot' = [slot EXCEPT ![i] = new]
    BY <2>1
  <2> HIDE DEF new
  <2>4. QED
    BY <2>1, <2>2, <2>3, LoopsOnSlot
<1>5. ASSUME NEW c \in Channel, Pause(c) \/ Resume(c), UNCHANGED musicVars PROVE LoopsInv'
  BY <1>5, LoopsStay DEF Pause, Resume, SetPaused, musicVars
<1>6. QED
  BY <1>1, <1>2, <1>3, <1>4, <1>5 DEF GameCall

LEMMA LoopsStep ==
  ASSUME Sensible, LoopsFit, PlayersInv, LoopsInv, [MusicNext]_allVars
  PROVE  LoopsInv'
<1>1. CASE Mixing
  BY <1>1, LoopsMixing
<1>2. ASSUME NEW t \in Thread, OpStep(t) PROVE LoopsInv'
  BY <1>2, LoopsOperation
<1>3. ASSUME NEW t \in GameThread, GameCall(t) PROVE LoopsInv'
  BY <1>3, LoopsCall
<1>4. CASE UNCHANGED allVars
  BY <1>4, LoopsStay DEF allVars, musicVars, vars
<1>5. QED
  BY <1>1, <1>2, <1>3, <1>4 DEF MusicNext

LEMMA LoopsInit == MusicInit => LoopsInv
<1> SUFFICES ASSUME MusicInit PROVE LoopsInv
  OBVIOUS
<1>1. pc = "idle" /\ slot = [i \in Slot |-> ZeroSlot]
  BY DEF MusicInit, Init
<1>2. QED
  BY <1>1, ZeroSlotOK DEF LoopsInv, NoCrash

LEMMA LoopsAreSound ==
  ASSUME PlayersInv, LoopsInv
  PROVE  LoopsSound
<1>1. CurrentSounds
  <2> DEFINE h == handle[current][track[current]]
  <2> SUFFICES ASSUME current # NoList, h # NoSlot PROVE IsPlaying(slot[h])
    BY DEF CurrentSounds
  <2>1. h \in Slot /\ slot[h].loop
    BY CurrentHandle DEF PlayersInv, LoopsHeld
  <2> HIDE DEF h
  <2>2. MusicOK(slot[h]) /\ slot[h].pos \in Nat /\ slot[h].endAt \in Nat
    BY <2>1, PlayersFacts, FieldTypes
  <2>3. QED
    BY <2>1, <2>2 DEF MusicOK, SeekOK, VoiceOK, IsPlaying
<1>2. EffectsUndisturbed
  <2>1. \A i \in Slot : slot[i].onEnd = NoCallback
    BY PlayersFacts
  <2>2. QED
    BY <2>1 DEF LoopsInv, EffectOK, EffectsUndisturbed
<1>3. QED
  BY <1>1, <1>2 DEF LoopsInv, LoopsSound

(* A game of lists of one track, with any number of threads whose          *)
(* operations interleave step by step: the current list sounds until it is *)
(* stopped, its effects are left alone, and nothing panics.                *)
THEOREM LoopsGoOn ==
  ASSUME Sensible, LoopsFit
  PROVE  MusicSpec => []LoopsSound
<1> DEFINE I == LongListLoaded \/ (PlayersInv /\ LoopsInv)
<1>1. I => LoopsSound
  BY LoopsAreSound DEF LoopsSound
<1>2. MusicInit => I
  BY PlayersInit, LoopsInit
<1>3. I /\ [MusicNext]_allVars => I'
  BY SameLists, PlayersStep, LoopsStep
<1>4. QED
  BY <1>1, <1>2, <1>3, PTL DEF MusicSpec
====
