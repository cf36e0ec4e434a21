---------------------------- MODULE PlaylistLoad ----------------------------
(***************************************************************************)
(* playlist.Load (playlist/load_playlists.go): a goroutine per track reads *)
(* and decodes it, at most "workers" at a time; the results come back over *)
(* an unbuffered channel that another goroutine closes when all are done.  *)
(* Everything happens under the write lock of the package, which Play      *)
(* takes for reading (playlist/playlist.go).                               *)
(***************************************************************************)
EXTENDS Integers, FiniteSets

CONSTANTS List,      \* the playlists of the registry
          Track,     \* the tracks, each of one list
          ListOf,    \* ListOf[tr]: the list of tr
          Workers,   \* how many tracks are loaded at a time
          Player     \* goroutines that call Play

VARIABLES loader,     \* where Load is
          work,       \* work[tr]: where the goroutine of tr is
          sem,        \* tokens in the semaphore
          wg,         \* the count of the wait group
          closed,     \* is the result channel closed?
          failed,     \* failedPlaylists
          sound,      \* the tracks given their sound
          playLists,  \* the published lists, with the tracks that have a sound
          players     \* the goroutines inside Play

vars == <<loader, work, sem, wg, closed, failed, sound, playLists, players>>

TracksOf(l) == {tr \in Track : ListOf[tr] = l}

(* The counters agree with the goroutines they count. *)
TypeOK ==
  /\ loader \in {"out", "locking", "registry", "spawning", "collecting", "publishing"}
  /\ work \in [Track -> {"none", "waiting", "loading", "loaded", "unreadable",
                         "releasing", "finishing", "done"}]
  /\ sem = Cardinality({tr \in Track : work[tr] \in
                          {"loading", "loaded", "unreadable", "releasing"}})
  /\ wg = Cardinality({tr \in Track : work[tr] \notin {"none", "done"}})
  /\ closed \in BOOLEAN
  /\ failed \subseteq List
  /\ sound \subseteq Track
  /\ players \subseteq Player

NoneLoaded == [l \in {} |-> {}]

Init ==
  /\ loader = "out"
  /\ work = [tr \in Track |-> "none"]
  /\ sem = 0
  /\ wg = 0
  /\ closed = FALSE
  /\ failed = {}
  /\ sound = {}
  /\ playLists = NoneLoaded
  /\ players = {}

-----------------------------------------------------------------------------
(* The read-write lock: a Load that waits for it lets no new reader in.    *)
BeginLoad ==
  /\ loader = "out"
  /\ loader' = "locking"
  /\ UNCHANGED <<work, sem, wg, closed, failed, sound, playLists, players>>

Lock ==
  /\ loader = "locking"
  /\ players = {}
  /\ loader' = "registry"
  /\ UNCHANGED <<work, sem, wg, closed, failed, sound, playLists, players>>

(* Variant: readers go first as long as one can get in. *)
BeginPlayFirst(p) ==
  /\ p \notin players
  /\ loader \in {"out", "locking"}
  /\ players' = players \cup {p}
  /\ UNCHANGED <<loader, work, sem, wg, closed, failed, sound, playLists>>

BeginPlay(p) ==
  /\ p \notin players
  /\ loader = "out"
  /\ players' = players \cup {p}
  /\ UNCHANGED <<loader, work, sem, wg, closed, failed, sound, playLists>>

EndPlay(p) ==
  /\ p \in players
  /\ players' = players \ {p}
  /\ UNCHANGED <<loader, work, sem, wg, closed, failed, sound, playLists>>

-----------------------------------------------------------------------------
(* Load itself.                                                            *)

(* A registry that cannot be read or parsed leaves everything as it was;   *)
(* one that can gives new lists, whose tracks have no sound yet.           *)
ReadRegistry ==
  /\ loader = "registry"
  /\ \/ loader' = "out" /\ UNCHANGED <<work, closed, failed, sound>>
     \/ /\ loader' = "spawning"
        /\ work' = [tr \in Track |-> "none"]
        /\ closed' = FALSE
        /\ failed' = {}
        /\ sound' = {}
  /\ UNCHANGED <<sem, wg, playLists, players>>

Spawn(tr) ==
  /\ loader = "spawning"
  /\ work[tr] = "none"
  /\ wg' = wg + 1
  /\ work' = [work EXCEPT ![tr] = "waiting"]
  /\ UNCHANGED <<loader, sem, closed, failed, sound, playLists, players>>

(* The goroutine that waits for the others is started after all of them.   *)
Spawned ==
  /\ loader = "spawning"
  /\ \A tr \in Track : work[tr] # "none"
  /\ loader' = "collecting"
  /\ UNCHANGED <<work, sem, wg, closed, failed, sound, playLists, players>>

(* Variant: a wait group that misses the last goroutine. *)
CloseEarly ==
  /\ loader = "collecting"
  /\ wg =< 1 /\ ~closed
  /\ closed' = TRUE
  /\ UNCHANGED <<loader, work, sem, wg, failed, sound, playLists, players>>

CloseResults ==
  /\ loader = "collecting"
  /\ wg = 0 /\ ~closed
  /\ closed' = TRUE
  /\ UNCHANGED <<loader, work, sem, wg, failed, sound, playLists, players>>

(* The collector takes a result the moment its goroutine sends it. *)
Collect(tr) ==
  /\ loader = "collecting"
  /\ ~closed
  /\ \/ /\ work[tr] = "loaded"
        /\ sound' = sound \cup {tr}
        /\ UNCHANGED failed
     \/ /\ work[tr] = "unreadable"
        /\ failed' = failed \cup {ListOf[tr]}
        /\ UNCHANGED sound
  /\ work' = [work EXCEPT ![tr] = "releasing"]
  /\ UNCHANGED <<loader, sem, wg, closed, playLists, players>>

AllCollected ==
  /\ loader = "collecting"
  /\ closed
  /\ loader' = "publishing"
  /\ UNCHANGED <<work, sem, wg, closed, failed, sound, playLists, players>>

(* Variant: a list is left out only if none of its tracks has a sound. *)
SucceededInPart == {l \in List : TracksOf(l) \cap sound # {}}

Succeeded == List \ failed

Publish ==
  /\ loader = "publishing"
  /\ playLists' = [l \in Succeeded |-> TracksOf(l) \cap sound]
  /\ loader' = "out"
  /\ UNCHANGED <<work, sem, wg, closed, failed, sound, players>>

-----------------------------------------------------------------------------
(* The goroutine of a track.                                               *)
AcquireWorker(tr) ==
  /\ work[tr] = "waiting"
  /\ sem < Workers
  /\ sem' = sem + 1
  /\ work' = [work EXCEPT ![tr] = "loading"]
  /\ UNCHANGED <<loader, wg, closed, failed, sound, playLists, players>>

LoadTrack(tr) ==
  /\ work[tr] = "loading"
  /\ \E outcome \in {"loaded", "unreadable"} : work' = [work EXCEPT ![tr] = outcome]
  /\ UNCHANGED <<loader, sem, wg, closed, failed, sound, playLists, players>>

(* The deferred calls: the last one deferred comes first. *)
ReleaseWorker(tr) ==
  /\ work[tr] = "releasing"
  /\ sem' = sem - 1
  /\ work' = [work EXCEPT ![tr] = "finishing"]
  /\ UNCHANGED <<loader, wg, closed, failed, sound, playLists, players>>

FinishWork(tr) ==
  /\ work[tr] = "finishing"
  /\ wg' = wg - 1
  /\ work' = [work EXCEPT ![tr] = "done"]
  /\ UNCHANGED <<loader, sem, closed, failed, sound, playLists, players>>

WorkStep(tr) ==
  AcquireWorker(tr) \/ LoadTrack(tr) \/ ReleaseWorker(tr) \/ FinishWork(tr)

LoadStep ==
  \/ Lock \/ ReadRegistry \/ Spawned \/ CloseResults \/ AllCollected \/ Publish
  \/ \E tr \in Track : Spawn(tr) \/ Collect(tr)

Next ==
  \/ BeginLoad \/ LoadStep
  \/ \E tr \in Track : WorkStep(tr)
  \/ \E p \in Player : BeginPlay(p) \/ EndPlay(p)

Spec == Init /\ [][Next]_vars

(* Goroutines run, files are read and Play returns; nobody has to call.    *)
FairSpec ==
  /\ Spec
  /\ WF_vars(LoadStep)
  /\ \A tr \in Track : WF_vars(WorkStep(tr))
  /\ \A p \in Player : WF_vars(EndPlay(p))

-----------------------------------------------------------------------------
(* Properties.                                                             *)

(* The channel is closed only when nobody is left who would send on it     *)
(* (sending on a closed channel panics).                                   *)
NobodySendsOnClosed ==
  closed => \A tr \in Track : work[tr] \in {"none", "done"}

(* What Play finds is whole: a list is published with all of its tracks,   *)
(* if nothing was wrong with it, or not at all, although they are loaded   *)
(* one by one and some may fail.                                           *)
GoodLists ==
  loader = "publishing" /\ loader' = "out" =>
    playLists' = [l \in {l \in List : TracksOf(l) \subseteq sound} |-> TracksOf(l)]

(* The lists do not change under a Play that is looking at them. *)
StableWhilePlaying == [][players # {} => playLists' = playLists]_vars

(* Load comes back: semaphore, channel and wait group never wait for each  *)
(* other in a circle, and players cannot keep it from the lock for ever.   *)
LoadReturns == loader # "out" ~> loader = "out"
=============================================================================
