------------------------------ MODULE Effects ------------------------------
(***************************************************************************)
(* Sound effects as a game uses them.                                      *)
(*                                                                         *)
(* An effect has several variations, one of which is drawn at random; the  *)
(* effect and each variation are throttled, that is, not to be played      *)
(* again before some time is over (sfx/sfx.go).  Play holds the package's  *)
(* lock for reading only, so that several threads can be between looking   *)
(* at the clock and noting the time they played.                           *)
(*                                                                         *)
(* sfx.Load (sfx/load_sfx.go) loads the variations of all effects one      *)
(* after the other; files that several variations name are read once,      *)
(* variations that fail are left out, effects without any are not loaded.  *)
(* It holds the lock alone, at any time and as often as the game likes.    *)
(***************************************************************************)
EXTENDS Integers, Sequences
LOCAL INSTANCE FiniteSetsExt
LOCAL INSTANCE SequencesExt

CONSTANTS Effect,     \* the effects of the registry
          Weights,    \* Weights[e][v]: Probability of variation v of e
          Throttles,  \* Throttles[e][v]: ThrottlingMs of variation v of e
          Throttle,   \* Throttle[e]: ThrottlingMs of e
          Thread,     \* goroutines that play effects
          Never,      \* the zero time, long before anything is played
          MaxTime,    \* bound: the latest time
          Registry,   \* the effects of sfx.json: a sequence of sequences of paths
          Path        \* the files named there

VARIABLES loadedSfx, \* the effects that can be played, with their variations in order
          now,       \* the clock
          last,      \* last[e]: lastPlayed of the effect
          lastOf,    \* lastOf[e][v]: lastPlayed of the variation
          drawn,     \* drawn[t]: the variation thread t is about to play
          heard,     \* heard[e][v]: when the variation was really played last
          at,        \* the effect and the variation Load comes to next, or Out
          cached,    \* cachedDiskReads: the paths read so far
          kept,      \* kept[e]: the variations of e that have a sound
          reads      \* how often each file was read with success in this load

playVars == <<now, last, lastOf, drawn, heard>>
loadVars == <<at, cached, kept, reads>>
vars == <<loadedSfx, playVars, loadVars>>

Registered(e) == DOMAIN Weights[e]
NoDraw == [effect |-> 0, variation |-> 0]
NeverPlayed == [e \in Effect |-> Never]
NoneEverPlayed == [e \in Effect |-> [v \in Registered(e) |-> Never]]

Entries == DOMAIN Registry
Out == [e |-> 0, v |-> 0]
NoneLoaded == [e \in {} |-> <<>>]

Init ==
  /\ loadedSfx = NoneLoaded
  /\ now = 0 /\ last = NeverPlayed /\ lastOf = NoneEverPlayed
  /\ drawn = [t \in Thread |-> NoDraw]
  /\ heard = lastOf
  /\ at = Out /\ cached = {}
  /\ kept = [e \in Entries |-> <<>>]
  /\ reads = [p \in Path |-> 0]

-----------------------------------------------------------------------------
(* Playing.                                                                *)
Variations(e) == ToSet(loadedSfx[e])

Sum(e, V) == MapThenSumSet(LAMBDA v : Weights[e][v], V)

Throttled(e) == now - last[e] =< Throttle[e]

UnThrottled(e) == {v \in Variations(e) : now - lastOf[e][v] > Throttles[e][v]}

(* rand.Float64() * probabilitySum, in half units of weight so that values *)
(* on and between the limits of variations occur.                          *)
Randoms(e) == 0 .. 2 * Sum(e, UnThrottled(e)) - 1

(* The loop that draws: the first of ALL variations whose share, added to  *)
(* the shares before it, reaches the random number (they are kept in the   *)
(* order of the registry).                                                 *)
Reaches(e, v, random) == random =< 2 * Sum(e, {u \in Variations(e) : u =< v})

Draws(e, v, random) ==
  /\ v \in Variations(e)
  /\ Reaches(e, v, random)
  /\ \A u \in Variations(e) : u < v => ~Reaches(e, u, random)

Tick ==
  /\ now < MaxTime
  /\ now' = now + 1
  /\ UNCHANGED <<loadedSfx, last, lastOf, drawn, heard>>

MayPlay(e) == e \in DOMAIN loadedSfx /\ ~Throttled(e) /\ UnThrottled(e) # {}

Draw(t, e) ==
  /\ drawn[t] = NoDraw
  /\ MayPlay(e)
  /\ \E random \in Randoms(e), v \in Variations(e) :
       /\ Draws(e, v, random)
       /\ drawn' = [drawn EXCEPT ![t] = [effect |-> e, variation |-> v]]
  /\ UNCHANGED <<loadedSfx, now, last, lastOf, heard>>

(* Variant: the variation does not note the time. *)
NotNoted(e, v) == lastOf

(* The variation is played, with or without a fade, then both note it. *)
NotedAt(e, v) == [lastOf EXCEPT ![e][v] = now]

PlayVariation(t) ==
  LET e == drawn[t].effect
      v == drawn[t].variation
  IN  /\ drawn[t] # NoDraw
      /\ lastOf' = NotedAt(e, v)
      /\ last' = [last EXCEPT ![e] = now]
      /\ drawn' = [drawn EXCEPT ![t] = NoDraw]
      /\ heard' = [heard EXCEPT ![e][v] = now]
      /\ UNCHANGED <<loadedSfx, now>>

Play == \E t \in Thread : PlayVariation(t) \/ \E e \in Effect : Draw(t, e)

-----------------------------------------------------------------------------
(* Loading.                                                                *)

(* Load begins with fresh effects, unless the registry cannot be read.     *)
BeginLoad ==
  /\ at = Out
  /\ at' = [e |-> 1, v |-> 1]
  /\ cached' = {}
  /\ kept' = [e \in Entries |-> <<>>]
  /\ reads' = [p \in Path |-> 0]
  /\ UNCHANGED loadedSfx

HasNext == at # Out /\ at.e =< Len(Registry) /\ at.v =< Len(Registry[at.e])
NextPath == Registry[at.e][at.v]
Onward == at' = [at EXCEPT !.v = @ + 1]

Keep == kept' = [kept EXCEPT ![at.e] = Append(@, at.v)]

Cached == NextPath \in cached

UseCached ==
  /\ HasNext
  /\ Cached
  /\ Keep
  /\ Onward
  /\ UNCHANGED <<cached, loadedSfx, reads>>

ReadVariation ==
  /\ HasNext
  /\ ~Cached
  /\ cached' = cached \cup {NextPath}
  /\ reads' = [reads EXCEPT ![NextPath] = @ + 1]
  /\ Keep
  /\ Onward
  /\ UNCHANGED loadedSfx

(* A file that cannot be read or decoded is tried again when it is named again. *)
FailVariation ==
  /\ HasNext
  /\ ~Cached
  /\ Onward
  /\ UNCHANGED <<cached, kept, loadedSfx, reads>>

NextEffect ==
  /\ at # Out
  /\ at.e =< Len(Registry) /\ at.v > Len(Registry[at.e])
  /\ at' = [e |-> at.e + 1, v |-> 1]
  /\ UNCHANGED <<cached, kept, loadedSfx, reads>>

WorthKeeping(e) == Len(kept[e]) > 0

Publishes == at # Out /\ at.e > Len(Registry)

Publish ==
  /\ Publishes
  /\ loadedSfx' = [e \in {e \in Entries : WorthKeeping(e)} |-> kept[e]]
  /\ at' = Out
  /\ UNCHANGED <<cached, kept, reads>>

LoadStep == BeginLoad \/ UseCached \/ ReadVariation \/ FailVariation \/ NextEffect \/ Publish

-----------------------------------------------------------------------------
(* Load takes the lock when no player has it; new effects have never been  *)
(* played.                                                                 *)
Load ==
  /\ \A t \in Thread : drawn[t] = NoDraw
  /\ LoadStep
  /\ UNCHANGED <<now, drawn>>
  /\ IF Publishes
     THEN last' = NeverPlayed /\ lastOf' = NoneEverPlayed /\ heard' = NoneEverPlayed
     ELSE UNCHANGED <<last, lastOf, heard>>

PlayLoaded == at = Out /\ Play /\ UNCHANGED loadVars

PassTime == Tick /\ UNCHANGED loadVars

Next == Load \/ PlayLoaded \/ PassTime

Spec == Init /\ [][Next]_vars

-----------------------------------------------------------------------------
(* Properties.                                                             *)
Plays(t) == drawn[t] # NoDraw /\ drawn'[t] = NoDraw

(* Two plays of an effect are further apart than its throttling, and those *)
(* of its only variation further than the variation's.  With several       *)
(* variations the loop over all of them can draw a throttled one, for its  *)
(* number was scaled to the others.                                        *)
ThrottlingKept ==
  \A t \in Thread : Plays(t) =>
    LET e == drawn[t].effect
        v == drawn[t].variation
    IN  /\ \A w \in Variations(e) : now - heard[e][w] > Throttle[e]
        /\ Variations(e) = {v} => now - heard[e][v] > Throttles[e][v]

(* An effect that may be played is: whatever number comes up, the loop     *)
(* draws a variation before it runs out of them.                           *)
SomethingDrawn ==
  \A e \in Effect : MayPlay(e) =>
    \A random \in Randoms(e) : \E v \in Variations(e) : Draws(e, v, random)

(* An effect that players find has something to play, in the order of the  *)
(* registry and nothing twice.                                             *)
LoadedPlayable ==
  \A e \in DOMAIN loadedSfx :
    /\ loadedSfx[e] # <<>>
    /\ \A j, k \in DOMAIN loadedSfx[e] : j < k => loadedSfx[e][j] < loadedSfx[e][k]

(* An effect is found if any of its files could be read in this load, even *)
(* if it failed at first and was read for another effect.                  *)
ReadIsLoaded ==
  at # Out /\ at' = Out =>
    \A e \in Entries : kept[e] # <<>> => e \in DOMAIN loadedSfx'

(* No file is read twice, however many variations share it.                *)
ReadOnce == \A p \in Path : reads[p] =< 1

(* What is loaded is found and complete, no file is read twice, an effect  *)
(* that may be played is, and plays are apart by their throttling.         *)
Played ==
  /\ LoadedPlayable /\ ReadOnce /\ ReadIsLoaded
  /\ SomethingDrawn /\ ThrottlingKept
=============================================================================
