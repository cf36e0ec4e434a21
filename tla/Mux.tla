-------------------------------- MODULE Mux --------------------------------
(***************************************************************************)
(* The pool of playing sounds, the audio thread that mixes it              *)
(* (Mux.ReadFloat32s, audio/mux.go) and the calls a game makes on sounds,  *)
(* handles and channels (audio/sound.go, playing_sound.go, channel.go).    *)
(*                                                                         *)
(* The audio thread takes one step per slot and per callback; a call of    *)
(* the game is one step, taken between any two steps of the audio thread   *)
(* or, when CallsDuringCallback, while a callback runs: a call made by the *)
(* callback itself and one made by a game thread meanwhile do the same to  *)
(* the pool.  Module PoolRace splits calls and mixing into their accesses. *)
(***************************************************************************)
EXTENDS Slots

CONSTANTS PoolSize,      \* soundPoolSize
          Channel,       \* the ChannelIds in use
          ChannelOf,     \* ChannelOf[s]: the channel of sound s
          BufLens,       \* lengths of the buffers the drivers ask to be filled
          CrossFades,    \* CrossFades[s]: the fades s is looped with, in samples
          FadeIns,       \* the durations given to PlayFadeIn, in samples
          FadeOuts,      \* the durations given to StopFadeOut, in samples
          SeekTargets,   \* the targets given to Seek
          CallsDuringCallback,  \* may calls be made while a callback runs?
          LateCalls      \* does a game seek in, or register a callback on, a
                         \* handle whose sound has finished?

ASSUME PoolSizeAssumption == PoolSize \in Nat \ {0}
ASSUME ChannelAssumption == ChannelOf \in [Sound -> Channel]
ASSUME BufLensAssumption == /\ BufLens \subseteq Nat \ {0}
                            /\ \A len \in BufLens : len % 2 = 0  \* whole frames
ASSUME FadesAssumption == /\ CrossFades \in [Sound -> SUBSET Nat]
                          /\ FadeIns \subseteq Nat
                          /\ FadeOuts \subseteq Nat
ASSUME SeekTargetsAssumption == SeekTargets \subseteq Nat
ASSUME DisciplineAssumption == /\ CallsDuringCallback \in BOOLEAN
                               /\ LateCalls \in BOOLEAN

VARIABLES slot,    \* soundPool
          paused,  \* the channels whose settings say paused
          pc,      \* where the audio thread is
          cursor,  \* the slot it works on: i of ReadFloat32s
          bufLen   \* len(buf) of the pass

vars == <<slot, paused, pc, cursor, bufLen>>

Slot == 0 .. PoolSize - 1

TypeOK ==
  /\ slot \in [Slot -> SlotType]
  /\ paused \subseteq Channel
  /\ pc \in {"idle", "mixing", "callback", "panicked"}
  /\ cursor \in 0 .. PoolSize
  /\ bufLen \in BufLens \cup {0}

Init ==
  /\ slot = [i \in Slot |-> ZeroSlot]
  /\ paused = {}
  /\ pc = "idle"
  /\ cursor = 0
  /\ bufLen = 0

-----------------------------------------------------------------------------
(* The audio thread.                                                       *)

(* The driver asks for the next buffer. *)
BeginPass ==
  /\ pc = "idle"
  /\ pc' = "mixing"
  /\ cursor' = 0
  /\ bufLen' \in BufLens
  /\ UNCHANGED <<slot, paused>>

AtSlot == pc = "mixing" /\ cursor < PoolSize

Current == SeekApplied(slot[cursor])

IsPaused(ps) == ps.sound # NoSound /\ ChannelOf[ps.sound] \in paused

(* A slot that is free once its pending seek is applied is skipped, with   *)
(* no look at its callback.                                                *)
SkipSlot ==
  /\ AtSlot
  /\ IsFree(Current)
  /\ slot' = [slot EXCEPT ![cursor] = Current]
  /\ cursor' = cursor + 1
  /\ UNCHANGED <<paused, pc, bufLen>>

Played == IF IsPaused(Current) THEN Current ELSE Mixed(Current, bufLen)

Crashes == ~IsPaused(Current) /\ Panics(Current, bufLen)

(* The callback of a slot that reached its end is called at once, and the  *)
(* audio thread stays inside it until it returns.                          *)
MixSlot ==
  /\ AtSlot
  /\ ~IsFree(Current)
  /\ ~Crashes
  /\ slot' = [slot EXCEPT ![cursor] = Played]
  /\ \/ /\ ~IsPlaying(Played) /\ Played.onEnd # NoCallback
        /\ pc' = "callback"
        /\ UNCHANGED cursor
     \/ /\ IsPlaying(Played) \/ Played.onEnd = NoCallback
        /\ cursor' = cursor + 1
        /\ UNCHANGED pc
  /\ UNCHANGED <<paused, bufLen>>

(* The callback is cleared after it returns, whatever it did to the slot.  *)
ReturnFromCallback ==
  /\ pc = "callback"
  /\ slot' = [slot EXCEPT ![cursor] = Registered(@, NoCallback)]
  /\ pc' = "mixing"
  /\ cursor' = cursor + 1
  /\ UNCHANGED <<paused, bufLen>>

(* A run-time panic on the audio thread ends the program. *)
Panic ==
  /\ AtSlot
  /\ ~IsFree(Current)
  /\ Crashes
  /\ pc' = "panicked"
  /\ UNCHANGED <<slot, paused, cursor, bufLen>>

EndPass ==
  /\ pc = "mixing"
  /\ cursor = PoolSize
  /\ pc' = "idle"
  /\ cursor' = 0
  /\ bufLen' = 0
  /\ UNCHANGED <<slot, paused>>

AudioStep ==
  BeginPass \/ SkipSlot \/ MixSlot \/ ReturnFromCallback \/ Panic \/ EndPass

-----------------------------------------------------------------------------
(* The calls of the game.                                                  *)
CanCall == pc # "panicked" /\ (pc = "callback" => CallsDuringCallback)

(* Variant: the first slot is taken whether or not it sounds. *)
FirstOfAll(i) == \A j \in Slot : j < i => ~IsFree(slot[j])

(* getFreePlayingSound takes the first free slot, and none when the pool   *)
(* is full: Play then returns nil and changes nothing.                     *)
FirstFree(i) == IsFree(slot[i]) /\ \A j \in Slot : j < i => ~IsFree(slot[j])

SetSlot(i, ps) ==
  /\ CanCall
  /\ slot' = [slot EXCEPT ![i] = ps]
  /\ UNCHANGED <<paused, pc, cursor, bufLen>>

Play(i, s) == FirstFree(i) /\ SetSlot(i, Started(slot[i], s))

PlayLoop(i, s) ==
  FirstFree(i) /\ \E fade \in CrossFades[s] : SetSlot(i, Looping(slot[i], s, fade))

PlayFadeIn(i, s) ==
  FirstFree(i) /\ \E fade \in FadeIns : SetSlot(i, FadingIn(slot[i], s, fade))

(* The game holds a handle of every slot it was ever given. *)
Held(i) == slot[i].sound # NoSound

OnEndCallback(i, cb) ==
  /\ Held(i)
  /\ LateCalls \/ ~IsFree(slot[i])
  /\ SetSlot(i, Registered(slot[i], cb))

Seek(i, target) ==
  /\ Held(i)
  /\ LateCalls \/ ~IsFree(slot[i])
  /\ SetSlot(i, Sought(slot[i], target))

Stop(i) == Held(i) /\ SetSlot(i, Stopped(slot[i]))

StopFadeOut(i) ==
  Held(i) /\ \E fade \in FadeOuts : SetSlot(i, FadingOut(slot[i], fade))

SetPaused(P) ==
  /\ CanCall
  /\ paused' = P
  /\ UNCHANGED <<slot, pc, cursor, bufLen>>

Pause(c) == SetPaused(paused \cup {c})
Resume(c) == SetPaused(paused \ {c})

GameStep ==
  \/ \E i \in Slot :
       \/ \E s \in Sound : Play(i, s) \/ PlayLoop(i, s) \/ PlayFadeIn(i, s)
       \/ \E cb \in Callback : OnEndCallback(i, cb)
       \/ \E target \in SeekTargets : Seek(i, target)
       \/ Stop(i) \/ StopFadeOut(i)
  \/ \E c \in Channel : Pause(c) \/ Resume(c)

Next == AudioStep \/ GameStep

Spec == Init /\ [][Next]_vars

(* The driver keeps asking for buffers and callbacks return; the game may  *)
(* stop calling at any time.                                               *)
FairSpec == Spec /\ WF_vars(AudioStep)

-----------------------------------------------------------------------------
(* Properties.                                                             *)

(* The mixer indexes outside a sound's data or divides by zero             *)
(* (readBufferAndAdd) in no other case than these: a sound without data is *)
(* looped; or a loop that has gone round is faded out, and its crossfade   *)
(* is longer than half of it or it is sought back to before the point      *)
(* where the fade out began.  Every other order of calls is safe.          *)
OnlyLoopsPanic ==
  pc = "panicked" =>
    LET ps == Current
    IN  \/ ps.loop /\ DataLen[ps.sound] = 0
        \/ /\ ~ps.loop /\ ps.loopedOnce
           /\ 2 * ps.fadeInEndsAt > DataLen[ps.sound] \/ ps.pos < ps.fadeOutStartsAt

(* A slot that can be given to the next sound carries no callback of the   *)
(* last one: getFreePlayingSound does not reset onEndCallback, so whatever *)
(* is left there would be called at the end of somebody else's sound.      *)
NoStaleCallback ==
  \A i \in Slot :
    IsFree(slot[i]) /\ slot[i].onEnd # NoCallback => pc = "callback" /\ cursor = i

(* A slot that sounds is at the start of a frame: pos is a multiple of the *)
(* channel count through seeks, fades that end in mid-frame and loops.     *)
FramesAligned ==
  \A i \in Slot : ~IsFree(slot[i]) => slot[i].pos % ChannelCount = 0

(* A step of the audio thread moves pc or cursor; a call moves neither.    *)
AudioMoves == pc' # pc \/ cursor' # cursor

(* What has ended stays ended: only a Play call makes a free slot sound,   *)
(* never the audio thread (Seek: "if the sound already finished, this will *)
(* do nothing").  It does not hold of games that make late calls.          *)
OnlyPlayRevives ==
  [][AudioMoves => \A i \in Slot : IsFree(slot[i]) => IsFree(slot'[i])]_vars

-----------------------------------------------------------------------------
(* The pool implements the voices of module Voices: a slot that is not     *)
(* free is a voice that sounds, its callback is owed, unless its last one  *)
(* is still running: what the slot then holds is cleared after it.         *)
NoVoice == -1

VoicePlaying ==
  [i \in Slot |-> IF IsFree(slot[i]) THEN NoSound ELSE slot[i].sound]
VoiceLooping == {i \in Slot : slot[i].loop}
VoiceCalling == IF pc = "callback" THEN cursor ELSE NoVoice
VoiceOwed == {i \in Slot : ~IsFree(slot[i]) /\ slot[i].onEnd # NoCallback}
               \ {VoiceCalling}

V == INSTANCE Voices WITH Voice   <- Slot,
                          playing <- VoicePlaying,
                          looping <- VoiceLooping,
                          owed    <- VoiceOwed,
                          calling <- VoiceCalling

(* Every call of the game and every step of the audio thread is one the    *)
(* abstract voices allow: a sound ends only by itself or when stopped, and *)
(* its callback is called then, once, for that sound and no other.         *)
ImplementsVoices == V!Spec

(* ... and a sound that plays once on an unpaused channel does end.        *)
ImplementsFairVoices == V!FairSpec

-----------------------------------------------------------------------------
(***************************************************************************)
(* Small pools for TLC.  Lengths are in samples, two per frame: a music    *)
(* track of three frames, and a sound without data, on one channel.        *)
(***************************************************************************)
PoolDataLen == [s \in Sound |-> IF s = "track" THEN 6 ELSE 0]
PoolChannelOf == [s \in Sound |-> "music"]

(* Crossfades that fit: at most half of the sound, and no empty loop.       *)
FittingFades ==
  [s \in Sound |-> IF s = "track" THEN {0, PoolDataLen[s] \div 2} ELSE {}]

(* Crossfades of half of the sound, which is of whole frames only by        *)
(* chance, and crossfades that do not fit: as long as the sound, or of a    *)
(* sound without data.                                                      *)
AnyFades == [s \in Sound |-> IF s = "track" THEN {PoolDataLen[s] \div 2, PoolDataLen[s]}
                                    ELSE {0}]
=============================================================================
