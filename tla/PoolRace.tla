------------------------------ MODULE PoolRace ------------------------------
(***************************************************************************)
(* Play, Stop, OnEndCallback and the mixer's pass over a slot split into   *)
(* their reads and writes of the pool (audio/mux.go, playing_sound.go):    *)
(* nothing in the code orders the accesses of game goroutines and of the   *)
(* audio thread; the mutex of a Sound is locked by none of them.  Each     *)
(* field is read and written at once and in program order here; what Go    *)
(* allows beyond that is not modelled.                                     *)
(*                                                                         *)
(* Seeks, loops and fades are left to module Mux.  Every sound has one     *)
(* callback, named after it.                                               *)
(***************************************************************************)
EXTENDS Integers

CONSTANTS Sound, NoSound,
          DataLen,      \* DataLen[s]: len(s.data)
          NoCallback,
          GameThread,   \* goroutines that play and stop sounds
          PoolSize,     \* soundPoolSize
          BufLen        \* the length of the driver's buffers

VARIABLES slot,   \* soundPool
          call,   \* call[t]: where thread t is in Play, and with what
          audio,  \* where the audio thread is in its pass
          heard,  \* heard[i]: the samples read since slot i was started
          stopped \* the slots stopped since they were started

vars == <<slot, call, audio, heard, stopped>>

Slot == 0 .. PoolSize - 1

NoCall == [at |-> "idle", sound |-> NoSound, i |-> 0, pos |-> 0]

Init ==
  /\ slot = [i \in Slot |-> [sound |-> NoSound, pos |-> 0, endAt |-> 0,
                             onEnd |-> NoCallback]]
  /\ call = [t \in GameThread |-> NoCall]
  /\ audio = [at |-> "check", i |-> 0, n |-> 0]
  /\ heard = [i \in Slot |-> {}]
  /\ stopped = {}

Free(ps) == ps.pos >= ps.endAt

-----------------------------------------------------------------------------
(* A game thread: getFreePlayingSound, then OnEndCallback if it likes.     *)
At(t, where) == call[t].at = where /\ audio.at # "panicked"

Play(t, s) ==
  /\ At(t, "idle")
  /\ call' = [call EXCEPT ![t] = [NoCall EXCEPT !.at = "scan", !.sound = s]]
  /\ UNCHANGED <<slot, audio, heard, stopped>>

Found(t) == At(t, "scan") /\ call[t].i < PoolSize /\ Free(slot[call[t].i])

TakeSlot(t) ==
  /\ Found(t)
  /\ call' = [call EXCEPT ![t].at = "sound"]
  /\ UNCHANGED <<slot, audio, heard, stopped>>

PassSlot(t) ==
  /\ At(t, "scan")
  /\ call[t].i < PoolSize /\ ~Free(slot[call[t].i])
  /\ call' = [call EXCEPT ![t].i = @ + 1]
  /\ UNCHANGED <<slot, audio, heard, stopped>>

PoolFull(t) ==
  /\ At(t, "scan")
  /\ call[t].i = PoolSize
  /\ call' = [call EXCEPT ![t] = NoCall]
  /\ UNCHANGED <<slot, audio, heard, stopped>>

WriteSound(t) ==
  /\ At(t, "sound")
  /\ slot' = [slot EXCEPT ![call[t].i].sound = call[t].sound]
  /\ call' = [call EXCEPT ![t].at = "pos"]
  /\ UNCHANGED <<audio, heard, stopped>>

WritePos(t) ==
  /\ At(t, "pos")
  /\ slot' = [slot EXCEPT ![call[t].i].pos = 0]
  /\ call' = [call EXCEPT ![t].at = "end"]
  /\ heard' = [heard EXCEPT ![call[t].i] = {}]
  /\ stopped' = stopped \ {call[t].i}
  /\ UNCHANGED audio

WriteEnd(t) ==
  /\ At(t, "end")
  /\ slot' = [slot EXCEPT ![call[t].i].endAt = DataLen[call[t].sound]]
  /\ \/ call' = [call EXCEPT ![t] = NoCall]
     \/ call' = [call EXCEPT ![t].at = "register"]
  /\ UNCHANGED <<audio, heard, stopped>>

Register(t) ==
  /\ At(t, "register")
  /\ slot' = [slot EXCEPT ![call[t].i].onEnd = call[t].sound]
  /\ call' = [call EXCEPT ![t] = NoCall]
  /\ UNCHANGED <<audio, heard, stopped>>

(* Stop of the handle of slot i: endAt = pos, then no callback. *)
Stop(t, i) ==
  /\ At(t, "idle")
  /\ slot[i].sound # NoSound
  /\ call' = [call EXCEPT ![t] = [NoCall EXCEPT !.at = "stop", !.i = i,
                                                !.pos = slot[i].pos]]
  /\ UNCHANGED <<slot, audio, heard, stopped>>

StopEnd(t) ==
  /\ At(t, "stop")
  /\ slot' = [slot EXCEPT ![call[t].i].endAt = call[t].pos]
  /\ stopped' = stopped \cup {call[t].i}
  /\ call' = [call EXCEPT ![t].at = "unregister"]
  /\ UNCHANGED <<audio, heard>>

Unregister(t) ==
  /\ At(t, "unregister")
  /\ slot' = [slot EXCEPT ![call[t].i].onEnd = NoCallback]
  /\ call' = [call EXCEPT ![t] = NoCall]
  /\ UNCHANGED <<audio, heard, stopped>>

GameStep(t) ==
  \/ \E s \in Sound : Play(t, s)
  \/ \E i \in Slot : Stop(t, i)
  \/ StopEnd(t) \/ Unregister(t)
  \/ TakeSlot(t) \/ PassSlot(t) \/ PoolFull(t)
  \/ WriteSound(t) \/ WritePos(t) \/ WriteEnd(t) \/ Register(t)

-----------------------------------------------------------------------------
(* The audio thread: one slot after the other, buffer after buffer.        *)
Mixed == slot[audio.i]

NextSlot == [at |-> "check", i |-> (audio.i + 1) % PoolSize, n |-> 0]

CheckSlot ==
  /\ audio.at = "check"
  /\ audio' = IF Free(Mixed) THEN NextSlot ELSE [audio EXCEPT !.at = "measure"]
  /\ UNCHANGED <<slot, call, heard, stopped>>

Available(ps) == IF BufLen =< ps.endAt - ps.pos THEN BufLen ELSE ps.endAt - ps.pos

Measure ==
  /\ audio.at = "measure"
  /\ audio' = [audio EXCEPT !.at = "read", !.n = Available(Mixed)]
  /\ UNCHANGED <<slot, call, heard, stopped>>

Index(ps, i) == (ps.pos + i) % ps.endAt

(* The loop over the n samples measured: di = (pos + i) % endAt of the     *)
(* fields as they are now.                                                 *)
ReadSamples ==
  LET ps == Mixed
      di == {Index(ps, i) : i \in 0 .. audio.n - 1}
  IN  /\ audio.at = "read"
      /\ \/ /\ audio.n > 0
            /\ ps.endAt = 0 \/ ~(di \subseteq 0 .. DataLen[ps.sound] - 1)
            /\ audio' = [audio EXCEPT !.at = "panicked"]
            /\ UNCHANGED heard
         \/ /\ audio.n > 0 => ps.endAt > 0 /\ di \subseteq 0 .. DataLen[ps.sound] - 1
            /\ audio' = [audio EXCEPT !.at = "advance"]
            /\ heard' = IF audio.n > 0 THEN [heard EXCEPT ![audio.i] = @ \cup di]
                                       ELSE heard
      /\ UNCHANGED <<slot, call, stopped>>

Advance ==
  /\ audio.at = "advance"
  /\ slot' = [slot EXCEPT ![audio.i].pos = @ + audio.n]
  /\ audio' = [audio EXCEPT !.at = "ended"]
  /\ UNCHANGED <<call, heard, stopped>>

(* The callback of a sound that has ended is called and cleared. *)
Ended ==
  /\ audio.at = "ended"
  /\ slot' = IF Free(Mixed) THEN [slot EXCEPT ![audio.i].onEnd = NoCallback] ELSE slot
  /\ audio' = NextSlot
  /\ UNCHANGED <<call, heard, stopped>>

Next ==
  \/ \E t \in GameThread : GameStep(t)
  \/ CheckSlot \/ Measure \/ ReadSamples \/ Advance \/ Ended

Spec == Init /\ [][Next]_vars

-----------------------------------------------------------------------------
(* Properties.                                                             *)

(* A pass never reads past a sound's data, whatever call is halfway.       *)
PanicsNever == audio'.at # "panicked"

(* A slot is given away only when its sound has been heard to its end or   *)
(* was stopped.                                                            *)
GivenAwayHeard ==
  \A t \in GameThread : Found(t) /\ call'[t].at = "sound" =>
    LET i == call[t].i
        s == slot[i].sound
    IN  s = NoSound \/ i \in stopped \/ heard[i] = 0 .. DataLen[s] - 1

(* Sounds can be played and stopped by several goroutines: what one plays  *)
(* is heard whatever another one does ("all the functions of a Sound       *)
(* returned by NewSound are concurrent-safe").                             *)
HeardToTheEnd == [][PanicsNever /\ GivenAwayHeard]_vars

-----------------------------------------------------------------------------
(* A long and a short sound for TLC.                                       *)
RaceDataLen == [s \in Sound |-> IF s = "long" THEN 4 ELSE 2]
=============================================================================
