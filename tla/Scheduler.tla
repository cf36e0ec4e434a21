------------------------------ MODULE Scheduler ------------------------------
(***************************************************************************)
(* Sounds registered to be played later (sfx/scheduler.go): a slice in no  *)
(* particular order that Process goes through once per turn of the game    *)
(* loop, moving the last element into the place of each one it removes.    *)
(* Time is the caller's and can jump, back as well.  Each call of          *)
(* PlaySoundEffectAt gets a ticket here, to tell sounds of one id apart.   *)
(***************************************************************************)
EXTENDS Integers, Sequences, FiniteSets

CONSTANTS Late,        \* 3 seconds, in units of the model's time
          MaxTime,     \* bound: the latest time
          MaxTickets   \* bound: how many sounds are ever registered

VARIABLES sounds,   \* the slice
          now,      \* the time Process was last called with
          i,        \* its index into the slice, 0 outside Process
          issued,   \* tickets given out
          played,   \* tickets played
          dropped,  \* tickets removed without being played
          cleared   \* tickets removed by Clear

vars == <<sounds, now, i, issued, played, dropped, cleared>>

Init ==
  /\ sounds = <<>>
  /\ now = 0
  /\ i = 0
  /\ issued = 0
  /\ played = {} /\ dropped = {} /\ cleared = {}

InProcess == i # 0

PlaySoundEffectAt(at) ==
  /\ ~InProcess
  /\ issued < MaxTickets
  /\ issued' = issued + 1
  /\ sounds' = Append(sounds, [ticket |-> issued + 1, whenToPlay |-> at])
  /\ UNCHANGED <<now, i, played, dropped, cleared>>

Clear ==
  /\ ~InProcess
  /\ sounds' = <<>>
  /\ cleared' = cleared \cup {sounds[k].ticket : k \in DOMAIN sounds}
  /\ UNCHANGED <<now, i, issued, played, dropped>>

BeginProcess(t) ==
  /\ ~InProcess
  /\ now' = t
  /\ i' = 1
  /\ UNCHANGED <<sounds, issued, played, dropped, cleared>>

(* The element moved into the free place is looked at next. *)
AfterRemoval == i

(* Variant: the last element is cut off before it is moved. *)
WithoutLost(k) == SubSeq([sounds EXCEPT ![k] = sounds[1]], 1, Len(sounds) - 1)

(* The k-th element replaced by the last one. *)
Without(k) == SubSeq([sounds EXCEPT ![k] = sounds[Len(sounds)]], 1, Len(sounds) - 1)

TooLate(s) == s.whenToPlay < now - Late

Due(s) == s.whenToPlay =< now

HandleDue ==
  /\ InProcess
  /\ i =< Len(sounds)
  /\ Due(sounds[i])
  /\ \/ /\ ~TooLate(sounds[i])
        /\ played' = played \cup {sounds[i].ticket}
        /\ UNCHANGED dropped
     \/ /\ TooLate(sounds[i])
        /\ dropped' = dropped \cup {sounds[i].ticket}
        /\ UNCHANGED played
  /\ sounds' = Without(i)
  /\ i' = AfterRemoval
  /\ UNCHANGED <<now, issued, cleared>>

SkipFuture ==
  /\ InProcess
  /\ i =< Len(sounds)
  /\ ~Due(sounds[i])
  /\ i' = i + 1
  /\ UNCHANGED <<sounds, now, issued, played, dropped, cleared>>

EndProcess ==
  /\ InProcess
  /\ i > Len(sounds)
  /\ i' = 0
  /\ UNCHANGED <<sounds, now, issued, played, dropped, cleared>>

Next ==
  \/ \E t \in 0 .. MaxTime : PlaySoundEffectAt(t) \/ BeginProcess(t)
  \/ Clear \/ HandleDue \/ SkipFuture \/ EndProcess

Spec == Init /\ [][Next]_vars

-----------------------------------------------------------------------------
(* Properties.                                                             *)
Queued == {sounds[k].ticket : k \in DOMAIN sounds}

(* Every sound registered is played, dropped, cleared or queued, exactly   *)
(* one of them and once, through all the moves within the slice.           *)
EachOnce ==
  /\ Cardinality(Queued) = Len(sounds)
  /\ Queued \cup played \cup dropped \cup cleared = 1 .. issued
  /\ Len(sounds) + Cardinality(played) + Cardinality(dropped) + Cardinality(cleared) = issued

(* What Process has gone past is not due: nothing that is moved around     *)
(* while it works is left for the next turn.                               *)
NothingDuePassed ==
  \A k \in DOMAIN sounds : k < i => sounds[k].whenToPlay > now

(* A turn of the game loop that comes in time for a sound plays it: only   *)
(* more than Late after its time is it dropped.                            *)
DroppedIfLate ==
  \A k \in DOMAIN sounds :
    sounds[k].ticket \in dropped' => sounds[k].whenToPlay + Late < now

PlayedInTime == [][EachOnce /\ NothingDuePassed /\ DroppedIfLate]_vars
=============================================================================
