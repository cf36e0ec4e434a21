------------------------------ MODULE Packages ------------------------------
(***************************************************************************)
(* The parts of the sound library that have no state in common with the    *)
(* rest, one at a time: the mixing of a slot sample by sample, the dynamic *)
(* sounds, the loading of playlists, sound effects and their loading, and  *)
(* the scheduler.  The parts that do not run rest.                         *)
(***************************************************************************)
EXTENDS Integers, Sequences, FiniteSets

CONSTANTS Parts, \* of {"mixer", "dynamic", "load", "effects", "scheduler"}
          Sound, NoSound, DataLen, Callback, NoCallback, SeekScale,
          BufLens, CrossFades, FadeOuts, SeekTargets,             \* mixer
          Dynamic, Nil, Thread, MaxLength,                        \* dynamic
          List, Track, ListOf, Workers, Player,                   \* load
          Effect, Weights, Throttles, Throttle, Never, MaxTime, Registry, Path, \* effects
          Late, MaxTurns, MaxTickets                              \* scheduler

ASSUME MixerAssumption ==
  /\ BufLens \subseteq Nat \ {0}
  /\ CrossFades \subseteq Nat /\ FadeOuts \subseteq Nat /\ SeekTargets \subseteq Nat
ASSUME DynamicAssumption == Nil \notin Dynamic /\ MaxLength \in Nat \ {0}
ASSUME ListOfAssumption == ListOf \in [Track -> List] /\ IsFiniteSet(Track) /\ Workers \in Nat \ {0}
ASSUME EffectAssumption ==
  /\ Registry \in Seq(Seq(Path)) /\ Effect = DOMAIN Registry
  /\ \A e \in Effect :
       /\ Weights[e] \in [DOMAIN Registry[e] -> Nat \ {0}]
       /\ Throttles[e] \in [DOMAIN Registry[e] -> Nat]
       /\ Throttle[e] \in Nat /\ Throttle[e] < 0 - Never
       /\ \A v \in DOMAIN Registry[e] : Throttles[e][v] < 0 - Never
ASSUME QueueAssumption == {Late, MaxTurns, MaxTickets, MaxTime} \subseteq Nat

VARIABLES part,
          ps, read, follows,
          arrays, slice, pass, call, wanted, steady, stopped, filled,
          loader, work, sem, wg, closed, failed, sound, playLists, players,
          loadedSfx, now, last, lastOf, drawn, heard, at, cached, kept, reads,
          sounds, clock, i, issued, played, dropped, cleared

mixerVars == <<ps, read, follows>>
dynamicVars == <<arrays, slice, pass, call, wanted, steady, stopped, filled>>
loadVars == <<loader, work, sem, wg, closed, failed, sound, playLists, players>>
effectsVars == <<loadedSfx, now, last, lastOf, drawn, heard, at, cached, kept, reads>>
schedulerVars == <<sounds, clock, i, issued, played, dropped, cleared>>
vars == <<part, mixerVars, dynamicVars, loadVars, effectsVars, schedulerVars>>

Mixing == INSTANCE Mixer
Dynamics == INSTANCE DynamicSounds
Lists == INSTANCE PlaylistLoad
Sounds == INSTANCE Effects
Queue == INSTANCE Scheduler WITH now <- clock, MaxTime <- MaxTurns

Init ==
  /\ part \in Parts
  /\ Mixing!Init
  /\ Dynamics!Init
  /\ Lists!Init
  /\ Sounds!Init
  /\ Queue!Init

Next ==
  \/ /\ part = "mixer" /\ Mixing!Next
     /\ UNCHANGED <<part, dynamicVars, loadVars, effectsVars, schedulerVars>>
  \/ /\ part = "dynamic" /\ Dynamics!Next
     /\ UNCHANGED <<part, mixerVars, loadVars, effectsVars, schedulerVars>>
  \/ /\ part = "load" /\ Lists!Next
     /\ UNCHANGED <<part, mixerVars, dynamicVars, effectsVars, schedulerVars>>
  \/ /\ part = "effects" /\ Sounds!Next
     /\ UNCHANGED <<part, mixerVars, dynamicVars, loadVars, schedulerVars>>
  \/ /\ part = "scheduler" /\ Queue!Next
     /\ UNCHANGED <<part, mixerVars, dynamicVars, loadVars, effectsVars>>

Spec == Init /\ [][Next]_vars

InLists(action) == part = "load" /\ action /\ UNCHANGED <<part, mixerVars, dynamicVars, effectsVars, schedulerVars>>

(* Goroutines run, files are read and Play returns; nobody has to call.    *)
FairSpec ==
  /\ Spec
  /\ WF_vars(InLists(Lists!LoadStep))
  /\ \A tr \in Track : WF_vars(InLists(Lists!WorkStep(tr)))
  /\ \A p \in Player : WF_vars(InLists(Lists!EndPlay(p)))

-----------------------------------------------------------------------------
(* Properties of the parts; their modules say more about each.             *)

(* readBufferAndAdd, sample by sample, leaves the state and panics where   *)
(* the closed form says that the model of the pool (Mux) uses.             *)
ClosedFormExact == part = "mixer" => Mixing!ClosedFormExact

(* Every sample follows the one before it, within a buffer and, until the  *)
(* crossfade of a loop was played, from one buffer to the next: gaps and   *)
(* repetitions come of that crossfade and a buffer's end alone.            *)
Follows == [][part = "mixer" => Mixing!Followed]_vars

(* A dynamic sound is heard in a pass if it is wanted, and only then.      *)
HeardAsAsked == [][part = "dynamic" => Dynamics!WantedIsHeard /\ Dynamics!StoppedSilent]_vars

(* Nobody is left who would send a track on the channel that is closed,    *)
(* and exactly the lists with nothing wrong are published, and whole.      *)
ListsPublished == [][part = "load" => Lists!NobodySendsOnClosed' /\ Lists!GoodLists]_vars

(* Load comes back.                                                        *)
LoadReturns == loader # "out" ~> loader = "out"

(* What is loaded can be played, and is, as far as its throttling allows.  *)
EffectsPlayed == [][part = "effects" => Sounds!Played]_vars

(* Every sound registered is played once, at the turn its time has come,   *)
(* or dropped if it is too late.                                           *)
PlayedInTime ==
  [][part = "scheduler" => Queue!EachOnce /\ Queue!NothingDuePassed /\ Queue!DroppedIfLate]_vars

-----------------------------------------------------------------------------
(***************************************************************************)
(* Small instances of the parts: sounds of one to four frames, a list of   *)
(* two tracks and one of one, two effects, of three variations and of one, *)
(* that share files.                                                       *)
(***************************************************************************)
CONSTANTS one, three, four, battle, town, first, second, third

MCDataLen == [s \in Sound |-> CASE s = one -> 2 [] s = three -> 6 [] OTHER -> 8]
MCListOf == [tr \in Track |-> IF tr = third THEN town ELSE battle]
MCRegistry == << <<"a", "b", "a">>, <<"b">> >>
MCWeights == << <<1, 2, 1>>, <<2>> >>
MCThrottles == << <<0, 2, 1>>, <<3>> >>
MCThrottle == [e \in Effect |-> 1]
MCNever == -4
=============================================================================
