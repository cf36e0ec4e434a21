---------------------------- MODULE PackagesProofs ----------------------------
(***************************************************************************)
(* Three of the parts that module Packages checks one at a time, for any   *)
(* number of playlists, tracks, workers and players, of dynamic sounds,    *)
(* and of sounds registered: a Load publishes what it could load and no    *)
(* goroutine sends on a channel that is closed; what Play has put into the *)
(* slice is heard; what is registered is played at its time, once.         *)
(***************************************************************************)
EXTENDS Packages, FiniteSetTheorems, TLAPS

-----------------------------------------------------------------------------
(* The loading of playlists.                                               *)
States == {"none", "waiting", "loading", "loaded", "unreadable", "releasing", "finishing", "done"}
Busy == {tr \in Track : work[tr] \notin {"none", "done"}}
Collected(tr) == work[tr] \in {"releasing", "finishing", "done"}
InLoad == loader \in {"spawning", "collecting", "publishing"}

LoadTypeOK ==
  /\ loader \in {"out", "locking", "registry", "spawning", "collecting", "publishing"}
  /\ work \in [Track -> States]
  /\ sound \subseteq Track /\ failed \subseteq List

(* The wait group counts the goroutines that are not done, and Load is     *)
(* elsewhere only when there are none.                                     *)
CountInv ==
  /\ wg = Cardinality(Busy)
  /\ (closed \/ loader \notin {"spawning", "collecting"}) => Busy = {}
  /\ loader = "spawning" => ~closed
  /\ loader \in {"collecting", "publishing"} => \A tr \in Track : work[tr] # "none"

(* A list has failed if a track was collected without its sound.           *)
OutcomeInv ==
  InLoad =>
    /\ \A tr \in sound : Collected(tr)
    /\ \A tr \in Track : Collected(tr) => tr \in sound \/ ListOf[tr] \in failed
    /\ \A l \in failed : \E tr \in Lists!TracksOf(l) : Collected(tr) /\ tr \notin sound

LoadInv == LoadTypeOK /\ CountInv /\ OutcomeInv

LEMMA BusyIsFinite == IsFiniteSet(Busy)
BY ListOfAssumption, FS_Subset DEF Busy

LEMMA OneMoreBusy ==
  ASSUME NEW tr, tr \notin Busy, Busy' = Busy \cup {tr}, wg = Cardinality(Busy), wg' = wg + 1
  PROVE  wg' = Cardinality(Busy')
BY BusyIsFinite, FS_AddElement

LEMMA OneLessBusy ==
  ASSUME NEW tr, tr \in Busy, Busy' = Busy \ {tr}, wg = Cardinality(Busy), wg' = wg - 1
  PROVE  wg' = Cardinality(Busy')
BY BusyIsFinite, FS_RemoveElement

LEMMA LoadStarts == Lists!Init => LoadInv
<1>. SUFFICES ASSUME Lists!Init PROVE LoadInv
  OBVIOUS
<1>1. Busy = {}
  BY DEF Lists!Init, Busy
<1>. QED
  BY <1>1, FS_EmptySet DEF Lists!Init, LoadInv, LoadTypeOK, CountInv, OutcomeInv, InLoad, States

LEMMA LoadKeeps ==
  ASSUME LoadInv, Lists!Next
  PROVE  LoadInv' /\ Lists!GoodLists
<1>. USE ListOfAssumption DEF LoadInv
<1>1. CASE Lists!BeginLoad \/ Lists!Lock \/ \E p \in Player : Lists!BeginPlay(p) \/ Lists!EndPlay(p)
  <2>1. \/ /\ UNCHANGED <<work, wg, closed, failed, sound>> /\ ~InLoad
           /\ loader \notin {"spawning", "collecting"}
        \/ UNCHANGED <<loader, work, wg, closed, failed, sound>>
    BY <1>1 DEF Lists!BeginLoad, Lists!Lock, Lists!BeginPlay, Lists!EndPlay, InLoad
  <2>2. /\ loader' = loader \/ loader' \in {"locking", "registry"}
        /\ loader = "publishing" => loader' = "publishing"
    BY <1>1 DEF Lists!BeginLoad, Lists!Lock, Lists!BeginPlay, Lists!EndPlay
  <2>3. work' = work /\ wg' = wg /\ closed' = closed /\ failed' = failed /\ sound' = sound
    BY <2>1
  <2>4. Busy' = Busy /\ \A tr \in Track : Collected(tr)' <=> Collected(tr)
    BY <2>3 DEF Busy, Collected
  <2>5. LoadTypeOK' /\ CountInv'
    BY <2>1, <2>2, <2>3, <2>4 DEF LoadTypeOK, CountInv
  <2>6. OutcomeInv'
    <3>1. InLoad' => InLoad
      BY <2>1, <2>2, <1>1 DEF InLoad, Lists!BeginLoad, Lists!Lock, Lists!BeginPlay, Lists!EndPlay
    <3>2. \A l \in List : Lists!TracksOf(l) \subseteq Track
      BY DEF Lists!TracksOf
    <3>. HIDE DEF Collected, InLoad
    <3>. QED
      BY <2>3, <2>4, <3>1, <3>2 DEF OutcomeInv, LoadTypeOK
  <2>. QED
    BY <2>2, <2>5, <2>6 DEF Lists!GoodLists
<1>2. CASE Lists!ReadRegistry
  <2>1. Busy = {} /\ Busy' = {}
    BY <1>2 DEF Lists!ReadRegistry, CountInv, Busy
  <2>. QED
    BY <1>2, <2>1 DEF Lists!ReadRegistry, LoadTypeOK, CountInv, OutcomeInv, InLoad, States, Collected, Lists!GoodLists
<1>3. ASSUME NEW tr \in Track, Lists!Spawn(tr) PROVE LoadInv' /\ Lists!GoodLists
  <2>1. tr \notin Busy /\ Busy' = Busy \cup {tr}
    BY <1>3 DEF Lists!Spawn, Busy, LoadTypeOK
  <2>2. CountInv'
    <3>1. wg' = Cardinality(Busy')
      BY <1>3, <2>1, OneMoreBusy DEF Lists!Spawn, CountInv
    <3>. QED
      BY <1>3, <2>1, <3>1 DEF Lists!Spawn, CountInv
  <2>3. LoadTypeOK' /\ OutcomeInv' /\ Lists!GoodLists
    BY <1>3 DEF Lists!Spawn, LoadTypeOK, OutcomeInv, InLoad, States, Collected, Lists!GoodLists
  <2>. QED
    BY <2>2, <2>3
<1>4. CASE Lists!Spawned \/ Lists!CloseResults \/ Lists!AllCollected
  <2>1. Busy' = Busy
    BY <1>4 DEF Busy, Lists!Spawned, Lists!CloseResults, Lists!AllCollected
  <2>2. wg = 0 => Busy = {}
    BY BusyIsFinite, FS_EmptySet DEF CountInv
  <2>. QED
    BY <1>4, <2>1, <2>2 DEF Lists!Spawned, Lists!CloseResults, Lists!AllCollected, LoadTypeOK, CountInv, OutcomeInv,
       InLoad, Collected, Lists!GoodLists
<1>5. ASSUME NEW tr \in Track, Lists!Collect(tr) PROVE LoadInv' /\ Lists!GoodLists
  <2>1. Busy' = Busy
    BY <1>5 DEF Busy, Lists!Collect, LoadTypeOK
  <2>2. LoadTypeOK' /\ CountInv' /\ Lists!GoodLists
    BY <1>5, <2>1 DEF Lists!Collect, LoadTypeOK, CountInv, States, Lists!GoodLists
  <2>3. tr \notin sound
    BY <1>5 DEF OutcomeInv, Collected, Lists!Collect, InLoad
  <2>4. OutcomeInv'
    BY <1>5, <2>3 DEF Lists!Collect, LoadTypeOK, OutcomeInv, InLoad, Collected, Lists!TracksOf
  <2>. QED
    BY <2>2, <2>4
<1>6. CASE Lists!Publish
  <2>1. \A tr \in Track : Collected(tr)
    BY <1>6 DEF Lists!Publish, CountInv, Busy, Collected, LoadTypeOK
  <2>2. \A l \in List : l \notin failed <=> Lists!TracksOf(l) \subseteq sound
    BY <1>6, <2>1 DEF Lists!Publish, OutcomeInv, InLoad, Lists!TracksOf
  <2>3. Lists!GoodLists
    <3>1. Lists!Succeeded = {l \in List : Lists!TracksOf(l) \subseteq sound}
      BY <2>2 DEF Lists!Succeeded
    <3>2. \A l \in Lists!Succeeded : Lists!TracksOf(l) \cap sound = Lists!TracksOf(l)
      BY <3>1
    <3>. QED
      BY <1>6, <3>1, <3>2 DEF Lists!Publish, Lists!GoodLists
  <2>. QED
    BY <1>6, <2>3 DEF Lists!Publish, LoadTypeOK, CountInv, OutcomeInv, InLoad, Busy
<1>7. ASSUME NEW tr \in Track, Lists!AcquireWorker(tr) \/ Lists!LoadTrack(tr) \/ Lists!ReleaseWorker(tr)
      PROVE  LoadInv' /\ Lists!GoodLists
  <2>1. Busy' = Busy
    BY <1>7 DEF Busy, Lists!AcquireWorker, Lists!LoadTrack, Lists!ReleaseWorker, LoadTypeOK
  <2>2. \A u \in Track : Collected(u)' <=> Collected(u)
    BY <1>7 DEF Lists!AcquireWorker, Lists!LoadTrack, Lists!ReleaseWorker, LoadTypeOK, Collected
  <2>3. LoadTypeOK' /\ CountInv' /\ Lists!GoodLists
    BY <1>7, <2>1 DEF Lists!AcquireWorker, Lists!LoadTrack, Lists!ReleaseWorker, LoadTypeOK, CountInv, States, Lists!GoodLists
  <2>4. OutcomeInv'
    BY <1>7, <2>2 DEF Lists!AcquireWorker, Lists!LoadTrack, Lists!ReleaseWorker, LoadTypeOK, OutcomeInv, InLoad,
                      Lists!TracksOf
  <2>. QED
    BY <2>3, <2>4
<1>8. ASSUME NEW tr \in Track, Lists!FinishWork(tr) PROVE LoadInv' /\ Lists!GoodLists
  <2>1. tr \in Busy /\ Busy' = Busy \ {tr}
    BY <1>8 DEF Lists!FinishWork, Busy, LoadTypeOK
  <2>2. CountInv'
    <3>1. wg' = Cardinality(Busy')
      BY <1>8, <2>1, OneLessBusy DEF Lists!FinishWork, CountInv
    <3>. QED
      BY <1>8, <2>1, <3>1 DEF Lists!FinishWork, CountInv, LoadTypeOK
  <2>3. \A u \in Track : Collected(u)' <=> Collected(u)
    BY <1>8 DEF Lists!FinishWork, LoadTypeOK, Collected
  <2>4. LoadTypeOK' /\ OutcomeInv' /\ Lists!GoodLists
    BY <1>8, <2>3 DEF Lists!FinishWork, LoadTypeOK, OutcomeInv, InLoad, States, Lists!TracksOf, Lists!GoodLists
  <2>. QED
    BY <2>2, <2>4
<1>. QED
  BY <1>1, <1>2, <1>3, <1>4, <1>5, <1>6, <1>7, <1>8 DEF Lists!Next, Lists!LoadStep, Lists!WorkStep

LEMMA LoadSafe == LoadInv => Lists!NobodySendsOnClosed
BY DEF LoadInv, CountInv, Busy, Lists!NobodySendsOnClosed

-----------------------------------------------------------------------------
(* Dynamic sounds, with one thread that plays and stops them.              *)
OneThread == \A s, t \in Thread : s = t

Value == Dynamic \cup {Nil}
Current == arrays[slice.array]
Passed == arrays[pass.array]

DynamicTypeOK ==
  /\ arrays \in Seq(Seq(Value)) /\ Len(arrays) \in Nat
  /\ slice \in [array : Nat, length : Nat]
  /\ pass \in [on : BOOLEAN, array : Nat, length : Nat, next : Nat]
  /\ call \in [Thread -> [sound : Value, place : Nat]]
  /\ wanted \subseteq Dynamic /\ steady \subseteq Dynamic /\ stopped \subseteq Dynamic
  /\ filled \subseteq Dynamic

(* The slice is in the newest array; what it does not reach is empty.  The *)
(* mixer may still be in an older one.                                     *)
SliceInv ==
  /\ slice.array = Len(arrays) /\ pass.array \in 1 .. Len(arrays)
  /\ Len(arrays) # 0
  /\ slice.length =< Len(Current) /\ pass.length =< Len(Passed)
  /\ pass.array = slice.array => pass.length =< slice.length
  /\ pass.next \in 1 .. pass.length + 1
  /\ \A j \in DOMAIN Current : j > slice.length => Current[j] = Nil

(* A thread that has found a place finds it free when it writes there.     *)
CallInv ==
  \A t \in Thread : call[t] # Dynamics!NoCall =>
    /\ call[t].sound \in Dynamic /\ call[t].place \in 1 .. slice.length + 1
    /\ call[t].place =< slice.length => Current[call[t].place] = Nil

(* The slice holds the wanted sounds and no others.                        *)
WantedInv ==
  /\ \A ds \in wanted : \E j \in 1 .. slice.length : Current[j] = ds
  /\ \A j \in 1 .. slice.length : Current[j] \in wanted \cup {Nil}

(* The pass has filled or is still to reach the steady ones; it reaches    *)
(* others only if they were wanted, or stopped, since it began.            *)
PassInv ==
  pass.on =>
    /\ \A ds \in steady \ filled : \E j \in pass.next .. pass.length : Passed[j] = ds
    /\ \A j \in 1 .. pass.length : Passed[j] \in wanted \cup stopped \cup {Nil}

DynamicInv == DynamicTypeOK /\ SliceInv /\ CallInv /\ WantedInv /\ PassInv

LEMMA DynamicStarts == Dynamics!Init => DynamicInv
<1>. SUFFICES ASSUME Dynamics!Init PROVE DynamicInv
  OBVIOUS
<1>1. arrays = << <<>> >> /\ arrays \in Seq(Seq(Value)) /\ Len(arrays) = 1 /\ arrays[1] = <<>> /\ Len(arrays[1]) = 0
  BY DEF Dynamics!Init
<1>2. DynamicTypeOK
  BY <1>1 DEF Dynamics!Init, DynamicTypeOK, Dynamics!NoPass, Dynamics!NoCall, Value
<1>3. SliceInv
  BY <1>1 DEF Dynamics!Init, SliceInv, Current, Passed, Dynamics!NoPass
<1>4. CallInv /\ WantedInv /\ PassInv
  BY <1>1 DEF Dynamics!Init, CallInv, WantedInv, PassInv, Dynamics!NoPass
<1>. QED
  BY <1>2, <1>3, <1>4 DEF DynamicInv

(* The mixer's pass.                                                       *)
LEMMA PassKeeps ==
  ASSUME DynamicInv, Dynamics!BeginPass \/ Dynamics!NextEntry \/ Dynamics!EndPass
  PROVE  DynamicInv' /\ Dynamics!StoppedSilent
<1>. USE DEF DynamicInv
<1>1. CASE Dynamics!BeginPass
  <2>1. UNCHANGED <<arrays, slice, call, wanted>> /\ Passed' = Current /\ Current' = Current
    BY <1>1 DEF Dynamics!BeginPass, Passed, Current
  <2>2. DynamicTypeOK'
    BY <1>1 DEF Dynamics!BeginPass, DynamicTypeOK
  <2>3. SliceInv'
    BY <1>1, <2>1 DEF Dynamics!BeginPass, DynamicTypeOK, SliceInv
  <2>4. CallInv' /\ WantedInv'
    BY <2>1 DEF CallInv, WantedInv
  <2>5. PassInv'
    BY <1>1, <2>1 DEF Dynamics!BeginPass, PassInv, WantedInv
  <2>6. Dynamics!StoppedSilent
    BY <1>1 DEF Dynamics!BeginPass, Dynamics!StoppedSilent
  <2>. QED
    BY <2>2, <2>3, <2>4, <2>5, <2>6
<1>2. CASE Dynamics!NextEntry
  <2>1. UNCHANGED <<arrays, slice, call, wanted, steady, stopped>> /\ Passed' = Passed /\ Current' = Current
        /\ pass'.next = pass.next + 1 /\ pass'.length = pass.length /\ pass'.array = pass.array /\ pass'.on = pass.on
    BY <1>2 DEF Dynamics!NextEntry, Passed, Current, DynamicTypeOK
  <2>2. pass.on /\ pass.next \in 1 .. pass.length /\ pass.next \in DOMAIN Passed /\ pass.length \in Nat
    BY <1>2 DEF Dynamics!NextEntry, SliceInv, DynamicTypeOK, Passed
  <2>3. Dynamics!Reached = Passed[pass.next] /\ Dynamics!Reached \in Value
        /\ Dynamics!Reached \in wanted \cup stopped \cup {Nil}
    <3>1. Passed \in Seq(Value)
      BY DEF SliceInv, DynamicTypeOK, Passed
    <3>. QED
      BY <2>2, <3>1 DEF Dynamics!Reached, Passed, PassInv
  <2>4. filled' = IF Dynamics!Reached = Nil THEN filled ELSE filled \cup {Dynamics!Reached}
    BY <1>2 DEF Dynamics!NextEntry
  <2>5. DynamicTypeOK'
    BY <1>2, <2>1, <2>3, <2>4 DEF Dynamics!NextEntry, DynamicTypeOK, Value
  <2>6. SliceInv'
    BY <2>1, <2>2 DEF SliceInv
  <2>7. CallInv' /\ WantedInv'
    BY <2>1 DEF CallInv, WantedInv
  <2>8. PassInv'
    <3>1. ASSUME NEW ds \in steady \ filled'
          PROVE  \E j \in pass'.next .. pass'.length : Passed[j] = ds
      <4>1. PICK j \in pass.next .. pass.length : Passed[j] = ds
        BY <2>2, <2>4, <3>1 DEF PassInv
      <4>2. ds # Nil /\ ds # Passed[pass.next]
        BY <2>3, <2>4, <3>1, DynamicAssumption DEF DynamicTypeOK
      <4>3. j # pass.next /\ j \in pass.next + 1 .. pass.length
        BY <2>2, <4>1, <4>2
      <4>. QED
        BY <2>1, <4>1, <4>3
    <3>. QED
      BY <2>1, <3>1 DEF PassInv
  <2>9. Dynamics!StoppedSilent
    BY <2>3 DEF Dynamics!StoppedSilent
  <2>. QED
    BY <2>5, <2>6, <2>7, <2>8, <2>9
<1>3. CASE Dynamics!EndPass
  <2>1. UNCHANGED <<arrays, slice, call, wanted, steady, stopped, filled>> /\ Current' = Current
    BY <1>3 DEF Dynamics!EndPass, Current
  <2>2. pass' = Dynamics!NoPass /\ Passed' = arrays[1] /\ pass.next \in Nat \ {0} /\ Len(arrays[1]) \in Nat
    BY <1>3, <2>1 DEF Dynamics!EndPass, Dynamics!NoPass, Passed, SliceInv, DynamicTypeOK
  <2>3. DynamicTypeOK' /\ SliceInv'
    BY <2>1, <2>2 DEF DynamicTypeOK, SliceInv, Dynamics!NoPass
  <2>4. CallInv' /\ WantedInv' /\ PassInv'
    BY <2>1, <2>2 DEF CallInv, WantedInv, PassInv, Dynamics!NoPass
  <2>5. Dynamics!StoppedSilent
    BY <2>2 DEF Dynamics!StoppedSilent, Dynamics!NoPass
  <2>. QED
    BY <2>3, <2>4, <2>5
<1>. QED
  BY <1>1, <1>2, <1>3

LEMMA SearchKeeps ==
  ASSUME DynamicInv, OneThread, NEW t \in Thread, NEW ds \in Dynamic, Dynamics!FindPlace(t, ds)
  PROVE  DynamicInv'
<1>. USE DEF DynamicInv
<1>1. PICK k \in 1 .. MaxLength : Dynamics!PlaceFor(k) /\ call' = [call EXCEPT ![t] = [sound |-> ds, place |-> k]]
  BY DEF Dynamics!FindPlace
<1>2. UNCHANGED <<arrays, slice, pass, wanted, steady, stopped, filled>>
  BY DEF Dynamics!FindPlace
<1>3. Current' = Current /\ Passed' = Passed
  BY <1>2 DEF Current, Passed
<1>4. DynamicTypeOK'
  <2>1. [sound |-> ds, place |-> k] \in [sound : Value, place : Nat]
    BY DynamicAssumption DEF Value
  <2>. QED
    BY <1>1, <1>2, <2>1 DEF DynamicTypeOK
<1>5. CallInv'
  BY <1>1, <1>2, <1>3 DEF CallInv, OneThread, DynamicTypeOK, Dynamics!PlaceFor, Dynamics!Entry, Current
<1>6. SliceInv' /\ WantedInv' /\ PassInv'
  BY <1>2, <1>3 DEF SliceInv, WantedInv, PassInv
<1>. QED
  BY <1>4, <1>5, <1>6

(* What the calls do to the newest array.                                  *)
LEMMA CurrentReplaced ==
  ASSUME DynamicInv, NEW new \in Seq(Value), Len(new) = Len(Current),
         arrays' = [arrays EXCEPT ![slice.array] = new], slice'.array = slice.array, pass' = pass
  PROVE  /\ arrays' \in Seq(Seq(Value)) /\ Len(arrays') = Len(arrays)
         /\ Current' = new
         /\ Passed' = IF pass.array = slice.array THEN new ELSE Passed
         /\ pass.array = slice.array => Passed = Current
         /\ SliceInv' <=> /\ slice.array = Len(arrays) /\ pass.array \in 1 .. Len(arrays)
                          /\ Len(arrays) # 0
                          /\ slice'.length =< Len(Current) /\ pass.length =< Len(Passed)
                          /\ pass.array = slice.array => pass.length =< slice'.length
                          /\ pass.next \in 1 .. pass.length + 1
                          /\ \A j \in DOMAIN new : j > slice'.length => new[j] = Nil
<1>1. slice.array \in 1 .. Len(arrays) /\ pass.array \in 1 .. Len(arrays) /\ arrays \in Seq(Seq(Value))
  BY DEF DynamicInv, DynamicTypeOK, SliceInv
<1>2. arrays' \in Seq(Seq(Value)) /\ Len(arrays') = Len(arrays)
      /\ \A a \in 1 .. Len(arrays) : arrays'[a] = IF a = slice.array THEN new ELSE arrays[a]
  BY <1>1
<1>3. /\ Current' = new /\ Passed' = IF pass.array = slice.array THEN new ELSE Passed
      /\ pass.array = slice.array => Passed = Current
  BY <1>1, <1>2 DEF Current, Passed
<1>4. Len(Passed') = Len(Passed)
  BY <1>3
<1>. QED
  BY <1>2, <1>3, <1>4 DEF SliceInv

LEMMA AloneIdle ==
  ASSUME DynamicInv, OneThread, NEW t \in Thread, call' = [call EXCEPT ![t] = Dynamics!NoCall]
  PROVE  CallInv' /\ call' \in [Thread -> [sound : Value, place : Nat]]
BY DEF DynamicInv, DynamicTypeOK, OneThread, CallInv, Dynamics!NoCall, Value

LEMMA StopKeeps ==
  ASSUME DynamicInv, OneThread, NEW t \in Thread, NEW ds \in Dynamic, Dynamics!Stop(t, ds)
  PROVE  DynamicInv'
<1>. USE DEF DynamicInv
<1>. DEFINE new == [j \in DOMAIN Current |-> IF Current[j] = ds THEN Nil ELSE Current[j]]
<1>1. /\ arrays' = [arrays EXCEPT ![slice.array] = new]
      /\ wanted' = wanted \ {ds} /\ steady' = steady \ {ds} /\ stopped' = stopped \cup {ds}
      /\ UNCHANGED <<slice, pass, call, filled>> /\ call[t] = Dynamics!NoCall
  <2>1. slice.array \in DOMAIN arrays
    BY DEF SliceInv, DynamicTypeOK
  <2>. QED
    BY <2>1 DEF Dynamics!Stop, Current
<1>2. Current \in Seq(Value) /\ Passed \in Seq(Value)
  BY DEF SliceInv, DynamicTypeOK, Current, Passed
<1>3. /\ new \in Seq(Value) /\ Len(new) = Len(Current)
      /\ \A j \in DOMAIN Current : new[j] = IF Current[j] = ds THEN Nil ELSE Current[j]
  BY <1>2 DEF Value
<1>. HIDE DEF new
<1>4. /\ arrays' \in Seq(Seq(Value)) /\ Len(arrays') = Len(arrays) /\ Current' = new
      /\ Passed' = IF pass.array = slice.array THEN new ELSE Passed
      /\ pass.array = slice.array => Passed = Current
  BY <1>1, <1>3, CurrentReplaced
<1>5. DynamicTypeOK' /\ CallInv'
  BY <1>1, <1>4 DEF DynamicTypeOK, CallInv, OneThread
<1>6. SliceInv'
  <2>1. \A j \in DOMAIN new : j > slice.length => new[j] = Nil
    <3>1. DOMAIN new = DOMAIN Current
      BY <1>2, <1>3
    <3>2. \A j \in DOMAIN Current : j > slice.length => Current[j] = Nil
      BY DEF SliceInv
    <3>. QED
      BY <1>3, <3>1, <3>2
  <2>. QED
    BY <1>1, <1>3, <2>1, CurrentReplaced DEF SliceInv
<1>7. 1 .. slice.length \subseteq DOMAIN Current /\ 1 .. pass.length \subseteq DOMAIN Passed
  <2>1. slice.length \in Nat /\ pass.length \in Nat
    BY DEF DynamicTypeOK
  <2>2. slice.length =< Len(Current) /\ pass.length =< Len(Passed)
    BY DEF SliceInv
  <2>. QED
    BY <1>2, <2>1, <2>2
<1>8. WantedInv'
  BY <1>1, <1>3, <1>4, <1>7 DEF WantedInv
<1>9. PassInv'
  <2>1. \A j \in 1 .. pass.length : Passed'[j] = Passed[j] \/ (Passed[j] = ds /\ Passed'[j] = Nil)
    <3>1. CASE pass.array = slice.array
      <4>1. Passed = Current /\ Passed' = new /\ 1 .. pass.length \subseteq DOMAIN Current
        BY <1>4, <1>7, <3>1
      <4>. QED
        BY <1>3, <4>1
    <3>2. CASE pass.array # slice.array
      BY <1>4, <3>2
    <3>. QED
      BY <3>1, <3>2
  <2>. SUFFICES ASSUME pass.on PROVE PassInv'
    BY <1>1 DEF PassInv
  <2>2. ASSUME NEW other \in steady' \ filled' PROVE \E j \in pass.next .. pass.length : Passed'[j] = other
    <3>1. PICK j \in pass.next .. pass.length : Passed[j] = other
      BY <1>1, <2>2 DEF PassInv
    <3>2. j \in 1 .. pass.length
      BY <3>1 DEF SliceInv, DynamicTypeOK
    <3>. QED
      BY <1>1, <2>1, <2>2, <3>1, <3>2
  <2>3. \A j \in 1 .. pass.length : Passed'[j] \in wanted' \cup stopped' \cup {Nil}
    BY <1>1, <2>1 DEF PassInv
  <2>. QED
    BY <1>1, <2>2, <2>3 DEF PassInv
<1>. QED
  BY <1>5, <1>6, <1>8, <1>9

(* Play writes a free place of the slice, or the one after it in an array  *)
(* that may be a new one.                                                  *)
LEMMA WriteKeeps ==
  ASSUME DynamicInv, OneThread, NEW t \in Thread, Dynamics!WriteEntry(t)
  PROVE  DynamicInv'
<1>. USE DEF DynamicInv
<1>. DEFINE ds == call[t].sound
            k == call[t].place
            new == [Current EXCEPT ![k] = ds]
<1>1. ds \in Dynamic /\ k \in 1 .. slice.length /\ Current[k] = Nil
  BY DEF Dynamics!WriteEntry, CallInv, DynamicTypeOK
<1>2. Current \in Seq(Value) /\ Passed \in Seq(Value) /\ slice.array \in DOMAIN arrays
      /\ 1 .. slice.length \subseteq DOMAIN Current /\ 1 .. pass.length \subseteq DOMAIN Passed
  BY DEF SliceInv, DynamicTypeOK, Current, Passed
<1>3. /\ arrays' = [arrays EXCEPT ![slice.array] = new]
      /\ call' = [call EXCEPT ![t] = Dynamics!NoCall]
      /\ wanted' = wanted \cup {ds} /\ steady' = steady \ {ds}
      /\ UNCHANGED <<slice, pass, stopped, filled>>
  BY <1>2 DEF Dynamics!WriteEntry, Dynamics!Written, Current
<1>4. /\ new \in Seq(Value) /\ Len(new) = Len(Current)
      /\ \A j \in DOMAIN Current : new[j] = IF j = k THEN ds ELSE Current[j]
  BY <1>1, <1>2 DEF Value
<1>. HIDE DEF new, ds, k
<1>5. /\ arrays' \in Seq(Seq(Value)) /\ Len(arrays') = Len(arrays) /\ Current' = new
      /\ Passed' = IF pass.array = slice.array THEN new ELSE Passed
      /\ pass.array = slice.array => Passed = Current
  BY <1>3, <1>4, CurrentReplaced
<1>6. DynamicTypeOK' /\ CallInv'
  BY <1>1, <1>3, <1>5, AloneIdle DEF DynamicTypeOK
<1>7. SliceInv'
  <2>1. \A j \in DOMAIN new : j > slice.length => new[j] = Nil
    <3>1. DOMAIN new = DOMAIN Current /\ slice.length \in Nat /\ DOMAIN Current \subseteq Nat
      BY <1>2, <1>4 DEF DynamicTypeOK
    <3>2. \A j \in DOMAIN Current : j > slice.length => Current[j] = Nil /\ j # k
      BY <1>1, <3>1 DEF SliceInv
    <3>. QED
      BY <1>4, <3>1, <3>2
  <2>. QED
    BY <1>3, <1>4, <2>1, CurrentReplaced DEF SliceInv
<1>8. WantedInv'
  <2>1. ASSUME NEW other \in wanted' PROVE \E j \in 1 .. slice.length : new[j] = other
    <3>1. CASE other = ds
      BY <1>1, <1>2, <1>4, <3>1
    <3>2. CASE other # ds
      <4>1. PICK j \in 1 .. slice.length : Current[j] = other
        BY <1>3, <2>1, <3>2 DEF WantedInv
      <4>2. j # k
        BY <1>1, <1>3, <2>1, <3>2, <4>1, DynamicAssumption DEF DynamicTypeOK
      <4>. QED
        BY <1>2, <1>4, <4>1, <4>2
    <3>. QED
      BY <3>1, <3>2
  <2>2. \A j \in 1 .. slice.length : new[j] \in wanted' \cup {Nil}
    BY <1>2, <1>3, <1>4 DEF WantedInv
  <2>. QED
    BY <1>3, <1>5, <2>1, <2>2 DEF WantedInv
<1>9. PassInv'
  <2>1. \A j \in 1 .. pass.length : Passed'[j] = Passed[j] \/ (Passed[j] = Nil /\ Passed'[j] = ds)
    <3>1. CASE pass.array = slice.array
      <4>1. Passed = Current /\ Passed' = new /\ 1 .. pass.length \subseteq DOMAIN Current
        BY <1>2, <1>5, <3>1
      <4>. QED
        BY <1>1, <1>4, <4>1
    <3>2. CASE pass.array # slice.array
      BY <1>5, <3>2
    <3>. QED
      BY <3>1, <3>2
  <2>. SUFFICES ASSUME pass.on PROVE PassInv'
    BY <1>3 DEF PassInv
  <2>2. ASSUME NEW other \in steady' \ filled' PROVE \E j \in pass.next .. pass.length : Passed'[j] = other
    <3>1. PICK j \in pass.next .. pass.length : Passed[j] = other
      BY <1>3, <2>2 DEF PassInv
    <3>2. j \in 1 .. pass.length /\ other # Nil
      BY <1>3, <2>2, <3>1, DynamicAssumption DEF SliceInv, DynamicTypeOK
    <3>. QED
      BY <2>1, <3>1, <3>2
  <2>3. \A j \in 1 .. pass.length : Passed'[j] \in wanted' \cup stopped' \cup {Nil}
    BY <1>3, <2>1 DEF PassInv
  <2>. QED
    BY <1>3, <2>2, <2>3 DEF PassInv
<1>. QED
  BY <1>6, <1>7, <1>8, <1>9

LEMMA GrownKeeps ==
  ASSUME NEW a \in Seq(Value)
  PROVE  /\ Dynamics!Grown(a) \in Seq(Value) /\ Len(Dynamics!Grown(a)) >= Len(a) + 1
         /\ \A j \in DOMAIN Dynamics!Grown(a) : Dynamics!Grown(a)[j] = IF j \in DOMAIN a THEN a[j] ELSE Nil
<1>1. CASE a = <<>>
  BY <1>1 DEF Dynamics!Grown, Value
<1>2. CASE a # <<>>
  <2>. DEFINE nils == [j \in 1 .. Len(a) |-> Nil]
  <2>1. nils \in Seq(Value) /\ Len(nils) = Len(a) /\ Len(a) \in Nat \ {0} /\ \A j \in 1 .. Len(a) : nils[j] = Nil
    BY <1>2 DEF Value
  <2>. HIDE DEF nils
  <2>2. /\ a \o nils \in Seq(Value) /\ Len(a \o nils) = Len(a) + Len(nils)
        /\ \A j \in 1 .. Len(a) + Len(nils) :
             (a \o nils)[j] = IF j =< Len(a) THEN a[j] ELSE nils[j - Len(a)]
    BY <2>1
  <2>3. Dynamics!Grown(a) = a \o nils
    BY <1>2 DEF Dynamics!Grown, nils
  <2>. QED
    BY <2>1, <2>2, <2>3
<1>. QED
  BY <1>1, <1>2

LEMMA AppendKeeps ==
  ASSUME DynamicInv, OneThread, NEW t \in Thread, Dynamics!AppendEntry(t)
  PROVE  DynamicInv'
<1>. USE DEF DynamicInv
<1>. DEFINE ds == call[t].sound
            k == slice.length + 1
<1>1. ds \in Dynamic /\ k \in Nat
  BY DEF Dynamics!AppendEntry, CallInv, DynamicTypeOK
<1>2. Current \in Seq(Value) /\ Passed \in Seq(Value) /\ slice.array \in DOMAIN arrays
      /\ 1 .. slice.length \subseteq DOMAIN Current /\ 1 .. pass.length \subseteq DOMAIN Passed
  BY DEF SliceInv, DynamicTypeOK, Current, Passed
<1>3. /\ call' = [call EXCEPT ![t] = Dynamics!NoCall]
      /\ wanted' = wanted \cup {ds} /\ steady' = steady \ {ds}
      /\ UNCHANGED <<pass, stopped, filled>>
  BY DEF Dynamics!AppendEntry, Dynamics!Written
(* Either way the newest array holds what the old one held, and ds.        *)
<1>4. /\ arrays' \in Seq(Seq(Value)) /\ slice' \in [array : Nat, length : Nat]
      /\ slice'.array = Len(arrays') /\ Len(arrays') >= Len(arrays) /\ slice'.length = k
      /\ Len(Current') >= k
      /\ \A j \in DOMAIN Current' : j # k => Current'[j] = IF j =< slice.length THEN Current[j] ELSE Nil
      /\ Current'[k] = ds
      /\ Len(Passed') = Len(Passed) /\ \A j \in 1 .. pass.length : Passed'[j] = Passed[j]
      /\ slice'.array # slice.array => pass.array # slice'.array
  <2>1. CASE /\ k =< Len(Current)
             /\ arrays' = [arrays EXCEPT ![slice.array][k] = ds]
             /\ slice' = [slice EXCEPT !.length = k]
    <3>. DEFINE new == [Current EXCEPT ![k] = ds]
    <3>1. arrays' = [arrays EXCEPT ![slice.array] = new]
      BY <1>2, <2>1 DEF Current
    <3>5. k \in DOMAIN Current
      BY <1>1, <1>2, <2>1 DEF DynamicTypeOK
    <3>. HIDE DEF ds, k
    <3>2. /\ new \in Seq(Value) /\ Len(new) = Len(Current)
          /\ \A j \in DOMAIN Current : new[j] = IF j = k THEN ds ELSE Current[j]
      <4>1. ds \in Value
        BY <1>1 DEF Value
      <4>. QED
        BY <1>2, <3>5, <4>1
    <3>. HIDE DEF new
    <3>3. slice' \in [array : Nat, length : Nat] /\ slice'.array = slice.array /\ slice'.length = k
      BY <1>1, <2>1 DEF DynamicTypeOK
    <3>4. /\ arrays' \in Seq(Seq(Value)) /\ Len(arrays') = Len(arrays) /\ Current' = new
          /\ Passed' = IF pass.array = slice.array THEN new ELSE Passed
          /\ pass.array = slice.array => Passed = Current
      BY <1>3, <3>1, <3>2, <3>3, CurrentReplaced
    <3>6. \A j \in DOMAIN Current : j # k => new[j] = IF j =< slice.length THEN Current[j] ELSE Nil
      BY <1>2, <3>2 DEF SliceInv, k, DynamicTypeOK
    <3>7. Len(Passed') = Len(Passed) /\ \A j \in 1 .. pass.length : Passed'[j] = Passed[j]
      <4>1. CASE pass.array = slice.array
        <5>1. Passed = Current /\ Passed' = new /\ 1 .. pass.length \subseteq DOMAIN Current
              /\ pass.length =< slice.length
          BY <1>2, <3>4, <4>1 DEF SliceInv
        <5>2. \A j \in 1 .. pass.length : j # k
          BY <5>1 DEF DynamicTypeOK, k
        <5>. QED
          BY <3>2, <5>1, <5>2
      <4>2. CASE pass.array # slice.array
        BY <3>4, <4>2
      <4>. QED
        BY <4>1, <4>2
    <3>8. DOMAIN new = DOMAIN Current
      BY <1>2, <3>2
    <3>. QED
      BY <1>2, <2>1, <3>2, <3>3, <3>4, <3>5, <3>6, <3>7, <3>8 DEF SliceInv, DynamicTypeOK
  <2>2. CASE /\ k > Len(Current)
             /\ arrays' = Append(arrays, [Dynamics!Grown(Current) EXCEPT ![k] = ds])
             /\ slice' = [array |-> Len(arrays) + 1, length |-> k]
    <3>. DEFINE new == [Dynamics!Grown(Current) EXCEPT ![k] = ds]
    <3>1. Len(Current) = slice.length /\ DOMAIN Current = 1 .. slice.length
      BY <1>2, <2>2 DEF SliceInv, DynamicTypeOK
    <3>2. /\ Dynamics!Grown(Current) \in Seq(Value) /\ k \in DOMAIN Dynamics!Grown(Current)
          /\ Len(Dynamics!Grown(Current)) >= k
      BY <1>1, <1>2, <3>1, GrownKeeps
    <3>3. /\ new \in Seq(Value) /\ Len(new) >= k /\ new[k] = ds
          /\ DOMAIN new = DOMAIN Dynamics!Grown(Current)
          /\ \A j \in DOMAIN new : j # k => new[j] = Dynamics!Grown(Current)[j]
      BY <1>1, <3>2 DEF Value
    <3>4. \A j \in DOMAIN new : j # k => new[j] = IF j =< slice.length THEN Current[j] ELSE Nil
      BY <1>2, <3>1, <3>2, <3>3, GrownKeeps
    <3>. HIDE DEF new, ds, k
    <3>5. arrays' = Append(arrays, new)
      BY <2>2 DEF new
    <3>6. /\ arrays' \in Seq(Seq(Value)) /\ Len(arrays') = Len(arrays) + 1
          /\ arrays'[Len(arrays) + 1] = new
          /\ \A a \in 1 .. Len(arrays) : arrays'[a] = arrays[a]
      BY <3>3, <3>5 DEF DynamicTypeOK
    <3>7. slice'.array = Len(arrays) + 1 /\ slice'.length = k /\ slice' \in [array : Nat, length : Nat]
      BY <1>1, <2>2 DEF DynamicTypeOK
    <3>8. Current' = new /\ Passed' = Passed
      BY <1>3, <3>6, <3>7 DEF Current, Passed, SliceInv
    <3>9. slice.array = Len(arrays) /\ pass.array \in 1 .. Len(arrays) /\ Len(arrays) \in Nat
      BY DEF SliceInv, DynamicTypeOK
    <3>. QED
      BY <3>3, <3>4, <3>6, <3>7, <3>8, <3>9
  <2>. QED
    BY <2>1, <2>2 DEF Dynamics!AppendEntry, Current
<1>. HIDE DEF ds
<1>5. 1 .. k \subseteq DOMAIN Current' /\ Current' \in Seq(Value) /\ slice.length \in Nat
  <2>1. slice'.array \in DOMAIN arrays'
    <3>1. Len(arrays) \in Nat \ {0} /\ Len(arrays') \in Nat /\ DOMAIN arrays' = 1 .. Len(arrays')
      BY <1>4 DEF SliceInv, DynamicTypeOK
    <3>. QED
      BY <1>4, <3>1
  <2>. QED
    BY <1>4, <2>1 DEF Current, DynamicTypeOK
<1>6. DynamicTypeOK' /\ CallInv'
  BY <1>1, <1>3, <1>4, AloneIdle DEF DynamicTypeOK
<1>7. SliceInv'
  <2>1. pass'.array \in 1 .. Len(arrays') /\ Len(arrays') # 0
    <3>1. Len(arrays) \in Nat \ {0} /\ Len(arrays') \in Nat /\ pass.array \in 1 .. Len(arrays)
      BY <1>4 DEF SliceInv, DynamicTypeOK
    <3>. QED
      BY <1>3, <1>4, <3>1
  <2>2. slice'.length =< Len(Current') /\ pass'.length =< Len(Passed') /\ pass'.next \in 1 .. pass'.length + 1
    BY <1>3, <1>4 DEF SliceInv
  <2>3. pass'.array = slice'.array => pass'.length =< slice'.length
    BY <1>3, <1>4, <1>5 DEF SliceInv, DynamicTypeOK
  <2>4. \A j \in DOMAIN Current' : j > slice'.length => Current'[j] = Nil
    BY <1>4, <1>5
  <2>. QED
    BY <1>4, <2>1, <2>2, <2>3, <2>4 DEF SliceInv
<1>8. WantedInv'
  <2>1. ASSUME NEW other \in wanted' PROVE \E j \in 1 .. k : Current'[j] = other
    <3>1. CASE other = ds
      BY <1>1, <1>4, <1>5, <3>1
    <3>2. CASE other # ds
      <4>1. PICK j \in 1 .. slice.length : Current[j] = other
        BY <1>3, <2>1, <3>2 DEF WantedInv
      <4>2. j \in 1 .. k /\ j # k /\ j \in DOMAIN Current' /\ j =< slice.length
        BY <1>5
      <4>3. Current'[j] = Current[j]
        BY <1>4, <4>2
      <4>. QED
        BY <4>1, <4>2, <4>3
    <3>. QED
      BY <3>1, <3>2
  <2>2. \A j \in 1 .. k : Current'[j] \in wanted' \cup {Nil}
    <3>. SUFFICES ASSUME NEW j \in 1 .. k, j # k PROVE Current'[j] \in wanted' \cup {Nil}
      BY <1>3, <1>4
    <3>1. j \in 1 .. slice.length /\ j \in DOMAIN Current'
      BY <1>5
    <3>2. Current'[j] = Current[j]
      BY <1>4, <1>5, <3>1
    <3>. QED
      BY <1>3, <3>1, <3>2 DEF WantedInv
  <2>. QED
    BY <1>4, <2>1, <2>2 DEF WantedInv
<1>9. PassInv'
  <2>. SUFFICES ASSUME pass.on PROVE PassInv'
    BY <1>3 DEF PassInv
  <2>1. ASSUME NEW other \in steady' \ filled' PROVE \E j \in pass.next .. pass.length : Passed'[j] = other
    <3>1. PICK j \in pass.next .. pass.length : Passed[j] = other
      BY <1>3, <2>1 DEF PassInv
    <3>2. j \in 1 .. pass.length
      BY <3>1 DEF SliceInv, DynamicTypeOK
    <3>. QED
      BY <1>4, <3>1, <3>2
  <2>2. \A j \in 1 .. pass.length : Passed'[j] \in wanted' \cup stopped' \cup {Nil}
    BY <1>3, <1>4 DEF PassInv
  <2>. QED
    BY <1>3, <2>1, <2>2 DEF PassInv
<1>. QED
  BY <1>6, <1>7, <1>8, <1>9

LEMMA DynamicKeeps ==
  ASSUME DynamicInv, OneThread, Dynamics!Next
  PROVE  DynamicInv' /\ Dynamics!StoppedSilent
<1>1. CASE Dynamics!BeginPass \/ Dynamics!NextEntry \/ Dynamics!EndPass
  BY <1>1, PassKeeps
<1>2. ASSUME NEW t \in Thread,
             (\E ds \in Dynamic : Dynamics!FindPlace(t, ds) \/ Dynamics!Stop(t, ds))
               \/ Dynamics!WriteEntry(t) \/ Dynamics!AppendEntry(t)
      PROVE  DynamicInv' /\ Dynamics!StoppedSilent
  <2>1. DynamicInv'
    BY <1>2, SearchKeeps, StopKeeps, WriteKeeps, AppendKeeps
  <2>2. pass' = pass /\ pass.next \in Nat
    BY <1>2 DEF Dynamics!FindPlace, Dynamics!Stop, Dynamics!WriteEntry, Dynamics!AppendEntry, Dynamics!Written,
                DynamicInv, DynamicTypeOK
  <2>. QED
    BY <2>1, <2>2 DEF Dynamics!StoppedSilent
<1>. QED
  BY <1>1, <1>2 DEF Dynamics!Next

LEMMA DynamicSafe == DynamicInv => Dynamics!WantedIsHeard
<1>. SUFFICES ASSUME DynamicInv, pass.on, pass.next > pass.length, NEW ds \in steady, ds \notin filled PROVE FALSE
  BY DEF Dynamics!WantedIsHeard
<1>. QED
  BY DEF DynamicInv, PassInv, DynamicTypeOK

-----------------------------------------------------------------------------
(* The scheduler of effects.                                               *)
Ticket == [ticket : Nat, whenToPlay : Nat]

QueueTypeOK ==
  /\ sounds \in Seq(Ticket)
  /\ clock \in Nat /\ i \in Nat /\ issued \in Nat
  /\ IsFiniteSet(Queue!Queued) /\ IsFiniteSet(played) /\ IsFiniteSet(dropped) /\ IsFiniteSet(cleared)

(* No ticket is in two places, in the slice or beside it.                  *)
OnePlaceInv ==
  /\ \A j, k \in DOMAIN sounds : sounds[j].ticket = sounds[k].ticket => j = k
  /\ Queue!Queued \cap played = {} /\ Queue!Queued \cap dropped = {} /\ Queue!Queued \cap cleared = {}

(* EachOnce, in terms of this module's Cardinality.                        *)
Placed ==
  /\ Cardinality(Queue!Queued) = Len(sounds)
  /\ Queue!Queued \cup played \cup dropped \cup cleared = 1 .. issued
  /\ Len(sounds) + Cardinality(played) + Cardinality(dropped) + Cardinality(cleared) = issued

LEMMA SameCount == ASSUME NEW S PROVE Queue!Cardinality(S) = Cardinality(S)
BY Zenon DEF Cardinality, Queue!Cardinality

LEMMA PlacedOnce == Placed => Queue!EachOnce
BY SameCount DEF Placed, Queue!EachOnce

LEMMA CountedWith ==
  ASSUME NEW S, IsFiniteSet(S), NEW x, x \notin S
  PROVE  IsFiniteSet(S \cup {x}) /\ Cardinality(S \cup {x}) = Cardinality(S) + 1
BY FS_AddElement

LEMMA CountedWithout ==
  ASSUME NEW S, IsFiniteSet(S), NEW x \in S
  PROVE  IsFiniteSet(S \ {x}) /\ Cardinality(S \ {x}) = Cardinality(S) - 1
BY FS_RemoveElement

LEMMA CountedTogether ==
  ASSUME NEW S, IsFiniteSet(S), NEW T, IsFiniteSet(T), S \cap T = {}
  PROVE  IsFiniteSet(S \cup T) /\ Cardinality(S \cup T) = Cardinality(S) + Cardinality(T)
<1>1. Cardinality(S) \in Nat /\ Cardinality(T) \in Nat /\ Cardinality({}) = 0
  BY FS_CardinalityType, FS_EmptySet
<1>2. Cardinality(S \cap T) = 0
  BY <1>1
<1>3. /\ IsFiniteSet(S \cup T)
      /\ Cardinality(S \cup T) = Cardinality(S) + Cardinality(T) - Cardinality(S \cap T)
  BY FS_Union, Zenon
<1>. QED
  BY <1>1, <1>2, <1>3

QueueInv == QueueTypeOK /\ OnePlaceInv /\ Placed /\ Queue!NothingDuePassed

LEMMA SliceShrinks ==
  ASSUME sounds \in Seq(Ticket), i \in DOMAIN sounds
  PROVE  /\ Queue!Without(i) \in Seq(Ticket)
         /\ Len(Queue!Without(i)) = Len(sounds) - 1
         /\ \A k \in 1 .. Len(sounds) - 1 :
              Queue!Without(i)[k] = IF k = i THEN sounds[Len(sounds)] ELSE sounds[k]
<1>1. [sounds EXCEPT ![i] = sounds[Len(sounds)]] \in Seq(Ticket)
      /\ Len([sounds EXCEPT ![i] = sounds[Len(sounds)]]) = Len(sounds)
  OBVIOUS
<1>. QED
  BY <1>1 DEF Queue!Without

LEMMA QueueStarts == Queue!Init => QueueInv
<1>. SUFFICES ASSUME Queue!Init PROVE QueueInv
  OBVIOUS
<1>1. Queue!Queued = {} /\ 1 .. issued = {}
  BY DEF Queue!Init, Queue!Queued
<1>. QED
  BY <1>1, FS_EmptySet DEF Queue!Init, QueueInv, QueueTypeOK, OnePlaceInv, Placed, Queue!NothingDuePassed

(* What the actions do to the tickets queued.                              *)
LEMMA Registering ==
  ASSUME QueueInv, NEW t \in Nat, Queue!PlaySoundEffectAt(t)
  PROVE  QueueInv' /\ Queue!DroppedIfLate
<1>. USE DEF QueueInv, Queue!PlaySoundEffectAt
<1>1. sounds' \in Seq(Ticket) /\ Len(sounds') = Len(sounds) + 1
      /\ sounds'[Len(sounds) + 1].ticket = issued + 1
      /\ \A k \in DOMAIN sounds : sounds'[k] = sounds[k]
  BY DEF QueueTypeOK, Ticket
<1>2. Queue!Queued' = Queue!Queued \cup {issued + 1}
  BY <1>1 DEF Queue!Queued, QueueTypeOK
<1>3. issued + 1 \notin Queue!Queued \cup played \cup dropped \cup cleared
  BY DEF Placed, QueueTypeOK
<1>4. IsFiniteSet(Queue!Queued') /\ Cardinality(Queue!Queued') = Len(sounds')
  BY <1>1, <1>2, <1>3, CountedWith DEF QueueTypeOK, Placed
<1>5. QueueTypeOK'
  BY <1>1, <1>4 DEF QueueTypeOK
<1>6. OnePlaceInv'
  <2>1. \A k \in DOMAIN sounds : sounds[k].ticket # issued + 1
    BY <1>3 DEF Queue!Queued
  <2>. QED
    BY <1>1, <1>2, <1>3, <2>1 DEF OnePlaceInv, QueueTypeOK
<1>7. Placed'
  <2>1. 1 .. issued' = (1 .. issued) \cup {issued + 1}
    BY DEF QueueTypeOK
  <2>2. (Queue!Queued \cup played \cup dropped \cup cleared)' = 1 .. issued'
    BY <1>2, <2>1 DEF Placed
  <2>3. Cardinality(played) \in Nat /\ Cardinality(dropped) \in Nat /\ Cardinality(cleared) \in Nat
    BY FS_CardinalityType DEF QueueTypeOK
  <2>4. /\ Len(sounds) + Cardinality(played) + Cardinality(dropped) + Cardinality(cleared) = issued
        /\ issued' = issued + 1 /\ UNCHANGED <<played, dropped, cleared>>
        /\ Len(sounds) \in Nat
    BY DEF Placed, QueueTypeOK
  <2>5. Len(sounds') + Cardinality(played) + Cardinality(dropped) + Cardinality(cleared) = issued'
    <3>. HIDE DEF QueueInv, Queue!PlaySoundEffectAt
    <3>. QED
      BY <1>1, <2>3, <2>4
  <2>. QED
    BY <1>4, <2>2, <2>4, <2>5 DEF Placed
<1>8. Queue!NothingDuePassed' /\ Queue!DroppedIfLate
  <2>1. Queue!DroppedIfLate
    BY DEF Queue!DroppedIfLate, OnePlaceInv, Queue!Queued
  <2>. QED
    BY <1>1, <2>1 DEF Queue!NothingDuePassed, Queue!InProcess
<1>. QED
  BY <1>5, <1>6, <1>7, <1>8

LEMMA Clearing ==
  ASSUME QueueInv, Queue!Clear
  PROVE  QueueInv' /\ Queue!DroppedIfLate
<1>. USE DEF QueueInv, Queue!Clear
<1>1. Queue!Queued' = {} /\ cleared' = cleared \cup Queue!Queued /\ sounds' = <<>>
  BY DEF Queue!Queued
<1>2. IsFiniteSet(cleared') /\ Cardinality(cleared') = Cardinality(cleared) + Len(sounds)
  <2>1. cleared \cap Queue!Queued = {}
    BY DEF OnePlaceInv
  <2>2. Cardinality(cleared) \in Nat /\ Cardinality(Queue!Queued) = Len(sounds) /\ Len(sounds) \in Nat
    BY FS_CardinalityType DEF QueueTypeOK, Placed
  <2>. QED
    BY <1>1, <2>1, <2>2, CountedTogether DEF QueueTypeOK
<1>3. QueueTypeOK'
  BY <1>1, <1>2, FS_EmptySet DEF QueueTypeOK
<1>4. OnePlaceInv'
  BY <1>1 DEF OnePlaceInv
<1>5. Placed'
  <2>1. Cardinality(Queue!Queued') = Len(sounds')
    BY <1>1, FS_EmptySet
  <2>2. (Queue!Queued \cup played \cup dropped \cup cleared)' = 1 .. issued'
    BY <1>1 DEF Placed
  <2>3. Cardinality(played) \in Nat /\ Cardinality(dropped) \in Nat /\ Cardinality(cleared) \in Nat
    BY FS_CardinalityType DEF QueueTypeOK
  <2>. QED
    BY <1>1, <1>2, <2>1, <2>2, <2>3 DEF Placed, QueueTypeOK
<1>6. Queue!NothingDuePassed' /\ Queue!DroppedIfLate
  <2>1. Queue!DroppedIfLate
    BY DEF Queue!DroppedIfLate, OnePlaceInv, Queue!Queued
  <2>. QED
    BY <1>1, <2>1 DEF Queue!NothingDuePassed
<1>. QED
  BY <1>3, <1>4, <1>5, <1>6

LEMMA Handling ==
  ASSUME QueueInv, Queue!HandleDue
  PROVE  QueueInv' /\ Queue!DroppedIfLate
<1>. USE DEF QueueInv, Queue!HandleDue
<1>. DEFINE tk == sounds[i].ticket
<1>1. i \in DOMAIN sounds /\ tk \in Queue!Queued /\ Len(sounds) \in Nat \ {0}
  BY DEF QueueTypeOK, Queue!InProcess, Queue!Queued
<1>2. /\ sounds' \in Seq(Ticket) /\ Len(sounds') = Len(sounds) - 1
      /\ \A k \in 1 .. Len(sounds) - 1 : sounds'[k] = IF k = i THEN sounds[Len(sounds)] ELSE sounds[k]
  BY <1>1, SliceShrinks DEF QueueTypeOK
<1>3. Queue!Queued' = Queue!Queued \ {tk}
  <2>1. Queue!Queued' \subseteq Queue!Queued \ {tk}
    <3>. SUFFICES ASSUME NEW k \in 1 .. Len(sounds) - 1 PROVE sounds'[k].ticket \in Queue!Queued \ {tk}
      BY <1>2 DEF Queue!Queued
    <3>1. PICK j \in DOMAIN sounds : sounds'[k] = sounds[j] /\ j # i
      <4>1. CASE k = i
        <5>1. Len(sounds) \in DOMAIN sounds /\ Len(sounds) # i
          BY <1>1, <4>1 DEF QueueTypeOK
        <5>. QED
          BY <1>2, <4>1, <5>1
      <4>2. CASE k # i
        <5>1. k \in DOMAIN sounds
          BY <1>1 DEF QueueTypeOK
        <5>. QED
          BY <1>2, <4>2, <5>1
      <4>. QED
        BY <4>1, <4>2
    <3>. QED
      BY <1>1, <3>1 DEF Queue!Queued, OnePlaceInv
  <2>2. Queue!Queued \ {tk} \subseteq Queue!Queued'
    <3>. SUFFICES ASSUME NEW k \in DOMAIN sounds, k # i PROVE sounds[k].ticket \in Queue!Queued'
      BY DEF Queue!Queued
    <3>1. \E j \in DOMAIN sounds' : sounds'[j] = sounds[k]
      <4>1. CASE k = Len(sounds)
        <5>1. i \in 1 .. Len(sounds) - 1
          BY <1>1, <4>1 DEF QueueTypeOK
        <5>. QED
          BY <1>2, <4>1, <5>1
      <4>2. CASE k # Len(sounds)
        <5>1. k \in 1 .. Len(sounds) - 1
          BY <1>1, <4>2 DEF QueueTypeOK
        <5>. QED
          BY <1>2, <5>1
      <4>. QED
        BY <4>1, <4>2
    <3>. QED
      BY <3>1 DEF Queue!Queued
  <2>. QED
    BY <2>1, <2>2
<1>4. IsFiniteSet(Queue!Queued') /\ Cardinality(Queue!Queued') = Len(sounds')
  BY <1>1, <1>2, <1>3, CountedWithout DEF QueueTypeOK, Placed
<1>5. tk \notin played /\ tk \notin dropped /\ tk \notin cleared
  BY <1>1 DEF OnePlaceInv
<1>6. \/ /\ played' = played \cup {tk} /\ dropped' = dropped /\ ~Queue!TooLate(sounds[i])
      \/ /\ dropped' = dropped \cup {tk} /\ played' = played /\ Queue!TooLate(sounds[i])
  OBVIOUS
<1>. HIDE DEF tk
<1>7. /\ IsFiniteSet(played') /\ IsFiniteSet(dropped')
      /\ \/ /\ Cardinality(played') = Cardinality(played) + 1
            /\ Cardinality(dropped') = Cardinality(dropped)
         \/ /\ Cardinality(played') = Cardinality(played)
            /\ Cardinality(dropped') = Cardinality(dropped) + 1
  <2>1. IsFiniteSet(played) /\ IsFiniteSet(dropped)
    BY DEF QueueTypeOK
  <2>. HIDE DEF QueueInv, Queue!HandleDue
  <2>2. IsFiniteSet(played \cup {tk}) /\ Cardinality(played \cup {tk}) = Cardinality(played) + 1
    BY <1>5, <2>1, CountedWith
  <2>3. IsFiniteSet(dropped \cup {tk}) /\ Cardinality(dropped \cup {tk}) = Cardinality(dropped) + 1
    BY <1>5, <2>1, CountedWith
  <2>. QED
    BY <1>6, <2>1, <2>2, <2>3
<1>8. QueueTypeOK'
  BY <1>2, <1>4, <1>7 DEF QueueTypeOK, Queue!AfterRemoval
<1>9. OnePlaceInv'
  <2>1. \A j, k \in DOMAIN sounds' : sounds'[j].ticket = sounds'[k].ticket => j = k
    <3>. SUFFICES ASSUME NEW j \in 1 .. Len(sounds) - 1, NEW k \in 1 .. Len(sounds) - 1,
                         sounds'[j].ticket = sounds'[k].ticket
                  PROVE  j = k
      BY <1>1, <1>2
    <3>1. /\ sounds'[j] = IF j = i THEN sounds[Len(sounds)] ELSE sounds[j]
          /\ sounds'[k] = IF k = i THEN sounds[Len(sounds)] ELSE sounds[k]
      BY <1>2
    <3>2. {j, k, Len(sounds)} \subseteq DOMAIN sounds /\ j # Len(sounds) /\ k # Len(sounds)
      BY <1>1 DEF QueueTypeOK
    <3>. QED
      BY <3>1, <3>2 DEF OnePlaceInv
  <2>2. /\ Queue!Queued' \cap played' = {} /\ Queue!Queued' \cap dropped' = {}
        /\ Queue!Queued' \cap cleared' = {}
    BY <1>3, <1>6 DEF OnePlaceInv
  <2>. QED
    BY <2>1, <2>2 DEF OnePlaceInv
<1>10. Placed'
  <2>1. (Queue!Queued \cup played \cup dropped \cup cleared)' = 1 .. issued'
    BY <1>1, <1>3, <1>6 DEF Placed, tk
  <2>2. Cardinality(played) \in Nat /\ Cardinality(dropped) \in Nat /\ Cardinality(cleared) \in Nat
    BY FS_CardinalityType DEF QueueTypeOK
  <2>3. /\ Len(sounds) + Cardinality(played) + Cardinality(dropped) + Cardinality(cleared) = issued
        /\ issued' = issued /\ cleared' = cleared
    BY DEF Placed
  <2>. HIDE DEF QueueInv, Queue!HandleDue
  <2>4. CASE /\ Cardinality(played') = Cardinality(played) + 1
             /\ Cardinality(dropped') = Cardinality(dropped)
    <3>1. Len(sounds') + Cardinality(played') + Cardinality(dropped) + Cardinality(cleared) = issued'
      BY <1>1, <1>2, <2>2, <2>3, <2>4
    <3>. QED
      BY <1>4, <2>1, <2>3, <2>4, <3>1 DEF Placed
  <2>5. CASE /\ Cardinality(played') = Cardinality(played)
             /\ Cardinality(dropped') = Cardinality(dropped) + 1
    <3>1. Len(sounds') + Cardinality(played) + Cardinality(dropped') + Cardinality(cleared) = issued'
      BY <1>1, <1>2, <2>2, <2>3, <2>5
    <3>. QED
      BY <1>4, <2>1, <2>3, <2>5, <3>1 DEF Placed
  <2>. QED
    BY <1>7, <2>4, <2>5
<1>11. Queue!NothingDuePassed'
  BY <1>1, <1>2 DEF Queue!NothingDuePassed, QueueTypeOK, Queue!AfterRemoval
<1>12. Queue!DroppedIfLate
  <2>. SUFFICES ASSUME NEW k \in DOMAIN sounds, sounds[k].ticket \in dropped'
                PROVE  sounds[k].whenToPlay + Late < clock
    BY DEF Queue!DroppedIfLate
  <2>1. k = i /\ Queue!TooLate(sounds[i])
    BY <1>1, <1>6 DEF OnePlaceInv, Queue!Queued, tk
  <2>2. sounds[i].whenToPlay \in Nat /\ clock \in Nat /\ Late \in Nat
    <3>1. sounds[i] \in Ticket
      BY <1>1 DEF QueueTypeOK
    <3>. QED
      BY <3>1, QueueAssumption DEF QueueTypeOK, Ticket
  <2>. QED
    BY <2>1, <2>2 DEF Queue!TooLate
<1>. QED
  BY <1>8, <1>9, <1>10, <1>11, <1>12

LEMMA QueueKeeps ==
  ASSUME QueueInv, Queue!Next
  PROVE  QueueInv' /\ Queue!DroppedIfLate
<1>1. ASSUME NEW t \in 0 .. MaxTurns, Queue!PlaySoundEffectAt(t) PROVE QueueInv' /\ Queue!DroppedIfLate
  BY <1>1, Registering, QueueAssumption
<1>2. ASSUME \/ \E t \in 0 .. MaxTurns : Queue!BeginProcess(t)
             \/ Queue!SkipFuture \/ Queue!EndProcess
      PROVE  QueueInv' /\ Queue!DroppedIfLate
  <2>1. UNCHANGED <<sounds, issued, played, dropped, cleared>>
    BY <1>2 DEF Queue!BeginProcess, Queue!SkipFuture, Queue!EndProcess
  <2>2. Queue!Queued' = Queue!Queued
    BY <2>1 DEF Queue!Queued
  <2>3. OnePlaceInv' /\ Placed'
    BY <2>1, <2>2 DEF QueueInv, OnePlaceInv, Placed
  <2>4. clock' \in Nat /\ i' \in Nat
    BY <1>2, QueueAssumption DEF QueueInv, QueueTypeOK, Queue!BeginProcess, Queue!SkipFuture, Queue!EndProcess
  <2>5. QueueTypeOK'
    BY <2>1, <2>2, <2>4 DEF QueueInv, QueueTypeOK
  <2>6. Queue!NothingDuePassed'
    <3>1. CASE \E t \in 0 .. MaxTurns : Queue!BeginProcess(t)
      BY <2>1, <3>1 DEF Queue!BeginProcess, Queue!NothingDuePassed, QueueInv, QueueTypeOK
    <3>2. CASE Queue!EndProcess
      BY <2>1, <3>2 DEF Queue!EndProcess, Queue!NothingDuePassed, QueueInv, QueueTypeOK
    <3>3. CASE Queue!SkipFuture
      <4>1. i \in DOMAIN sounds /\ sounds[i].whenToPlay \in Nat
        <5>1. i \in DOMAIN sounds /\ sounds[i] \in Ticket
          BY <3>3 DEF Queue!SkipFuture, Queue!InProcess, QueueInv, QueueTypeOK
        <5>. QED
          BY <5>1 DEF Ticket
      <4>2. sounds[i].whenToPlay > clock
        BY <3>3, <4>1 DEF Queue!SkipFuture, Queue!Due, QueueInv, QueueTypeOK
      <4>. QED
        BY <2>1, <3>3, <4>2 DEF Queue!SkipFuture, Queue!NothingDuePassed, QueueInv, QueueTypeOK
    <3>. QED
      BY <1>2, <3>1, <3>2, <3>3
  <2>7. Queue!DroppedIfLate
    BY <2>1 DEF Queue!DroppedIfLate, QueueInv, OnePlaceInv, Queue!Queued
  <2>. QED
    BY <2>3, <2>5, <2>6, <2>7 DEF QueueInv
<1>. QED
  BY <1>1, <1>2, Clearing, Handling DEF Queue!Next

-----------------------------------------------------------------------------
(* The parts one at a time: the one that runs keeps its invariant and the  *)
(* others rest.                                                            *)
LEMMA OnePartRuns ==
  ASSUME Next
  PROVE  /\ part' = part
         /\ part = "load" => Lists!Next
         /\ part = "dynamic" => Dynamics!Next
         /\ part = "scheduler" => Queue!Next
BY DEF Next

LEMMA LoadInvariant == Spec => [](part = "load" => LoadInv)
<1>1. Init => LoadInv
  BY LoadStarts DEF Init
<1>2. (part = "load" => LoadInv) /\ [Next]_vars => (part = "load" => LoadInv)'
  <2>1. CASE Next
    BY <2>1, OnePartRuns, LoadKeeps
  <2>2. CASE UNCHANGED vars
    <3>1. part' = part /\ UNCHANGED loadVars
      BY <2>2 DEF vars
    <3>2. LoadInv => LoadInv'
      BY <3>1 DEF loadVars, LoadInv, LoadTypeOK, CountInv, OutcomeInv, InLoad, Busy, Collected
    <3>. QED
      BY <3>1, <3>2
  <2>. QED
    BY <2>1, <2>2
<1>. QED
  BY <1>1, <1>2, PTL DEF Spec

(* The channel of a Load is closed when no goroutine has a result to send  *)
(* any more, and the lists published are those of which every track could  *)
(* be loaded, with all of their tracks, in whatever order the tracks are   *)
(* loaded and whichever fail.                                              *)
THEOREM ListsPublishedAlways == Spec => ListsPublished
<1>1. (part = "load" => LoadInv) /\ [Next]_vars
        => [part = "load" => Lists!NobodySendsOnClosed' /\ Lists!GoodLists]_vars
  <2>. SUFFICES ASSUME part = "load", LoadInv, Next
                PROVE  Lists!NobodySendsOnClosed' /\ Lists!GoodLists
    OBVIOUS
  <2>1. LoadInv' /\ Lists!GoodLists
    BY OnePartRuns, LoadKeeps
  <2>2. LoadInv' => Lists!NobodySendsOnClosed'
    BY LoadSafe, PTL
  <2>. QED
    BY <2>1, <2>2
<1>. QED
  BY <1>1, LoadInvariant, PTL DEF Spec, ListsPublished

LEMMA DynamicInvariant == ASSUME OneThread PROVE Spec => [](part = "dynamic" => DynamicInv)
<1>1. Init => DynamicInv
  BY DynamicStarts DEF Init
<1>2. (part = "dynamic" => DynamicInv) /\ [Next]_vars => (part = "dynamic" => DynamicInv)'
  <2>1. CASE Next
    BY <2>1, OnePartRuns, DynamicKeeps
  <2>2. CASE UNCHANGED vars
    <3>1. part' = part /\ UNCHANGED dynamicVars
      BY <2>2 DEF vars
    <3>2. DynamicInv => DynamicInv'
      BY <3>1 DEF dynamicVars, DynamicInv, DynamicTypeOK, SliceInv, CallInv, WantedInv, PassInv, Current, Passed
    <3>. QED
      BY <3>1, <3>2
  <2>. QED
    BY <2>1, <2>2
<1>. QED
  BY <1>1, <1>2, PTL DEF Spec

(* As long as one thread plays and stops them, a dynamic sound is heard in *)
(* a pass if it was wanted all the while, and not if it was not wanted at  *)
(* all, however often the slice has moved to a larger array.               *)
THEOREM HeardAsAskedAlways == ASSUME OneThread PROVE Spec => HeardAsAsked
<1>1. (part = "dynamic" => DynamicInv) /\ [Next]_vars
        => [part = "dynamic" => Dynamics!WantedIsHeard /\ Dynamics!StoppedSilent]_vars
  BY OnePartRuns, DynamicKeeps, DynamicSafe
<1>. QED
  BY <1>1, DynamicInvariant, PTL DEF Spec, HeardAsAsked

LEMMA QueueInvariant == Spec => [](part = "scheduler" => QueueInv)
<1>1. Init => QueueInv
  BY QueueStarts DEF Init
<1>2. (part = "scheduler" => QueueInv) /\ [Next]_vars => (part = "scheduler" => QueueInv)'
  <2>1. CASE Next
    BY <2>1, OnePartRuns, QueueKeeps
  <2>2. CASE UNCHANGED vars
    <3>1. part' = part /\ UNCHANGED schedulerVars
      BY <2>2 DEF vars
    <3>2. QueueInv => QueueInv'
      BY <3>1 DEF schedulerVars, QueueInv, QueueTypeOK, OnePlaceInv, Placed, Queue!NothingDuePassed, Queue!Queued
    <3>. QED
      BY <3>1, <3>2
  <2>. QED
    BY <2>1, <2>2
<1>. QED
  BY <1>1, <1>2, PTL DEF Spec

(* Every sound registered is played, dropped, cleared or still queued, one *)
(* of them and once; what a turn has passed is not due; and only what is   *)
(* too late is dropped, however the slice is shuffled on the way.          *)
THEOREM PlayedInTimeAlways == Spec => PlayedInTime
<1>1. (part = "scheduler" => QueueInv) /\ [Next]_vars
        => [part = "scheduler" => Queue!EachOnce /\ Queue!NothingDuePassed /\ Queue!DroppedIfLate]_vars
  BY OnePartRuns, QueueKeeps, PlacedOnce DEF QueueInv
<1>. QED
  BY <1>1, QueueInvariant, PTL DEF Spec, PlayedInTime
=============================================================================
