------------------------------- MODULE Voices -------------------------------
(***************************************************************************)
(* What the audio package promises its callers, with no positions, no      *)
(* buffers and no slots' fields: a voice is silent or plays one sound,     *)
(* once or in a loop; a callback registered on a sound that plays is owed, *)
(* is called once, when that sound has come to its end by itself, and is   *)
(* owed no longer after Stop or StopFadeOut; a paused channel ends nothing.*)
(* One promise is weaker than the package's comments make it: a callback   *)
(* registered on a voice while its last callback runs is forgotten when    *)
(* that returns (audio/mux.go, line 85), so it is never owed.              *)
(***************************************************************************)
CONSTANTS Voice, NoVoice, Sound, NoSound, Channel, ChannelOf

VARIABLES playing,  \* playing[v]: the sound voice v plays, or NoSound
          looping,  \* the voices that play in a loop
          owed,     \* the voices whose end will be announced by a callback
          paused,   \* the paused channels
          calling   \* the voice whose callback is running, or NoVoice

vars == <<playing, looping, owed, paused, calling>>

Init ==
  /\ playing = [v \in Voice |-> NoSound]
  /\ looping = {}
  /\ owed = {}
  /\ paused = {}
  /\ calling = NoVoice

Sounds(v) == playing[v] # NoSound

Start(v, s) ==
  /\ ~Sounds(v)
  /\ playing' = [playing EXCEPT ![v] = s]
  /\ looping' \in {looping, looping \cup {v}}
  /\ UNCHANGED <<owed, paused, calling>>

Register(v) ==
  /\ Sounds(v)
  /\ owed' = owed \cup ({v} \ {calling})
  /\ UNCHANGED <<playing, looping, paused, calling>>

(* Stop, and StopFadeOut with nothing left to fade. *)
Silence(v) ==
  /\ Sounds(v)
  /\ playing' = [playing EXCEPT ![v] = NoSound]
  /\ looping' = looping \ {v}
  /\ owed' = owed \ {v}
  /\ UNCHANGED <<paused, calling>>

(* StopFadeOut: the voice plays on for the length of the fade. *)
FadeOut(v) ==
  /\ Sounds(v)
  /\ looping' = looping \ {v}
  /\ owed' = owed \ {v}
  /\ UNCHANGED <<playing, paused, calling>>

(* The end of a sound, and the call of its callback if one is owed. *)
Finish(v) ==
  /\ calling = NoVoice
  /\ Sounds(v)
  /\ v \notin looping
  /\ ChannelOf[playing[v]] \notin paused
  /\ playing' = [playing EXCEPT ![v] = NoSound]
  /\ owed' = owed \ {v}
  /\ calling' = IF v \in owed THEN v ELSE NoVoice
  /\ UNCHANGED <<looping, paused>>

CallbackReturns ==
  /\ calling # NoVoice
  /\ calling' = NoVoice
  /\ UNCHANGED <<playing, looping, owed, paused>>

PauseOrResume ==
  /\ paused' \in SUBSET Channel
  /\ UNCHANGED <<playing, looping, owed, calling>>

Next ==
  \/ \E v \in Voice : \/ \E s \in Sound : Start(v, s)
                      \/ Register(v) \/ Silence(v) \/ FadeOut(v) \/ Finish(v)
  \/ CallbackReturns
  \/ PauseOrResume

Spec == Init /\ [][Next]_vars

(* A sound that plays once, on a channel that stays unpaused, ends. *)
FairSpec == Spec /\ \A v \in Voice : WF_vars(Finish(v))
=============================================================================
