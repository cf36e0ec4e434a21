----------------------------- MODULE ClientsProofs -----------------------------
(***************************************************************************)
(* What stands beside a stream of Oboe, for all values of the constants:   *)
(* the sessions of ADPF, the load of a stabilized callback, two streams    *)
(* that run as one, the position of a stream of OpenSL ES, the loader of   *)
(* AAudio, the resampler and the graph that frames are pulled through.     *)
(* Each part has an invariant of its own, and no step of another part      *)
(* touches it.                                                             *)
(***************************************************************************)
EXTENDS OboeClients, TLAPS

-----------------------------------------------------------------------------
(* Sessions of ADPF: one that is open without the flag's saying so, which  *)
(* the next to be opened makes forgotten, goes back to a close of the      *)
(* app's, and no two to the same.                                          *)
HintTypeOK ==
  /\ session \in {0, 1} /\ lost \in Nat /\ closings \in Nat
  /\ cb \in {"none", "open", "opened", "close", "closed", "app", "report"}
  /\ app \in {"idle", "closing"}

FlagTells ==
  /\ cb = "open" => ~attempted
  /\ cb = "closed" => session = 0
  /\ session = 1 /\ cb # "opened" /\ ~attempted => app = "idle" /\ lost + 1 =< closings

HintInv ==
  /\ HintTypeOK /\ FlagTells
  /\ lost =< closings
  /\ app = "closing" => lost + 1 =< closings

LEMMA HintKeeps ==
  ASSUME HintInv, Hint!Next
  PROVE  HintInv'
<1>. USE DEF HintInv, HintTypeOK, FlagTells
<1>1. CASE Hint!BeginCallback
  <2>1. /\ cb = "none"
        /\ cb' = IF enabled THEN IF attempted THEN "app" ELSE "open"
                 ELSE IF attempted THEN "close" ELSE "app"
        /\ UNCHANGED <<attempted, session, lost, app, closings>>
    BY <1>1 DEF Hint!BeginCallback
  <2>. QED
    BY <2>1, SMT
<1>2. CASE Hint!CallbackOpens
  BY <1>2, SMT DEF Hint!CallbackOpens, Hint!OpenSession
<1>3. CASE Hint!CallbackCloses
  BY <1>3, SMT DEF Hint!CallbackCloses, Hint!CloseSession
<1>4. CASE Hint!SetAttempted
  <2>1. attempted' <=> cb = "opened"
    BY <1>4 DEF Hint!SetAttempted
  <2>2. /\ cb \in {"opened", "closed"} /\ cb' = "app"
        /\ UNCHANGED <<session, lost, app, closings>>
    BY <1>4 DEF Hint!SetAttempted
  <2>. QED
    BY <2>1, <2>2, SMT
<1>5. CASE Hint!AskIsOpen
  BY <1>5, SMT DEF Hint!AskIsOpen
<1>6. CASE Hint!ReportDuration
  BY <1>6, SMT DEF Hint!ReportDuration
<1>7. CASE Hint!SetEnabled
  BY <1>7, SMT DEF Hint!SetEnabled
<1>8. CASE Hint!ClosePerformanceHint
  BY <1>8, SMT DEF Hint!ClosePerformanceHint, Hint!CloseSession
<1>9. CASE Hint!ClearAttempted
  BY <1>9, SMT DEF Hint!ClearAttempted
<1>. QED
  BY <1>1, <1>2, <1>3, <1>4, <1>5, <1>6, <1>7, <1>8, <1>9 DEF Hint!Next, Hint!Callback

LEMMA HintStarts == ASSUME Hint!Init PROVE HintInv
BY DEF Hint!Init, HintInv, HintTypeOK, FlagTells

-----------------------------------------------------------------------------
(* A stabilized callback: the frames counted from the epoch are never      *)
(* ahead of the calls of the device by more than these may be late.        *)
EvenTypeOK ==
  /\ {epoch, now, due, slot, deadline} \subseteq Int /\ frameCount \in Nat
  /\ doing \in {"idle", "app", "load"}

CountsFromEpoch ==
  /\ doing = "idle" /\ frameCount = 0 => now =< due
  /\ doing = "idle" /\ frameCount > 0 => epoch + frameCount =< due + Lateness
  /\ doing # "idle" => /\ epoch + frameCount =< slot + Lateness /\ due = slot + Period
                       /\ deadline =< slot + Lateness + PartToUse

EvenInv == EvenTypeOK /\ CountsFromEpoch

LEMMA EvenKeeps ==
  ASSUME EvenInv, Even!Next
  PROVE  EvenInv'
<1>. USE PeriodAssumption DEF EvenInv, EvenTypeOK, CountsFromEpoch, Even!Larger
<1>1. CASE Even!Call
  BY <1>1, SMT DEF Even!Call, Even!LateStart, Even!NewEpoch
<1>2. CASE Even!AppReturns
  BY <1>2, SMT DEF Even!AppReturns
<1>3. CASE Even!GenerateLoad
  BY <1>3, SMT DEF Even!GenerateLoad
<1>4. CASE Even!StandStill
  BY <1>4, SMT DEF Even!StandStill
<1>5. CASE Even!OnErrorAfterClose
  BY <1>5, SMT DEF Even!OnErrorAfterClose
<1>. QED
  BY <1>1, <1>2, <1>3, <1>4, <1>5 DEF Even!Next

LEMMA EvenStarts == ASSUME Even!Init PROVE EvenInv
BY SMT DEF Even!Init, EvenInv, EvenTypeOK, CountsFromEpoch

-----------------------------------------------------------------------------
(* Two streams that run as one.                                            *)
DuplexTypeOK ==
  /\ {cushion, minimum, drain, fill, discard, available, old, ahead} \subseteq Nat
  /\ input \in {"stopped", "started"} /\ output \in {"stopped", "started"}

(* Nothing old is left once the first callback has drained the input.      *)
DrainedOfOld ==
  /\ old =< available /\ available =< InputCapacity
  /\ drain =< CallbacksToDrain
  /\ drain < CallbacksToDrain => old = 0
  /\ called => drain = 0
  /\ heard # "old"

(* What is in the input came since it was drained, and more of it than     *)
(* callbacks since only by what the devices drift, by the cushion and by   *)
(* what the app wants there before it reads.                               *)
LittleAvailable ==
  /\ fill =< cushion
  /\ ahead =< 2 * Jitter
  /\ output = "started" /\ drain = 0 => available =< ahead + (cushion - fill) + minimum

DuplexInv == DuplexTypeOK /\ DrainedOfOld /\ LittleAvailable

LEMMA DuplexKeeps ==
  ASSUME DuplexInv, Duplex!Next
  PROVE  DuplexInv'
<1>. USE CountsAssumption, DuplexAssumption
     DEF DuplexInv, DuplexTypeOK, DrainedOfOld, LittleAvailable, Duplex!Smaller, Duplex!counts, Duplex!Ready,
         Duplex!Reads, Duplex!ReadsNothing
<1>1. CASE Duplex!Start
  BY <1>1, SMT DEF Duplex!Start
<1>2. CASE Duplex!Stop
  BY <1>2, SMT DEF Duplex!Stop
<1>3. CASE Duplex!InputBrings
  BY <1>3, SMT DEF Duplex!InputBrings
<1>4. CASE Duplex!DrainCallback
  BY <1>4, SMT DEF Duplex!DrainCallback, Duplex!DrainAll
<1>5. CASE Duplex!FillCallback
  BY <1>5, SMT DEF Duplex!FillCallback
<1>6. CASE Duplex!DiscardCallback
  BY <1>6, SMT DEF Duplex!DiscardCallback, Duplex!ReadsOne
<1>7. CASE Duplex!AppCallback
  BY <1>7, SMT DEF Duplex!AppCallback, Duplex!ReadsOne
<1>. QED
  BY <1>1, <1>2, <1>3, <1>4, <1>5, <1>6, <1>7 DEF Duplex!Next, Duplex!OnAudioReady

LEMMA DuplexStarts == ASSUME Duplex!Init PROVE DuplexInv
BY CountsAssumption, DuplexAssumption, SMT DEF Duplex!Init, DuplexInv, DuplexTypeOK, DrainedOfOld, LittleAvailable

-----------------------------------------------------------------------------
(* What is left of a position when it wraps.                               *)
LEMMA HalfOfWidth == Width = 2 * Place!Half /\ Place!Half \in Nat \ {0}
BY WidthAssumption, SMT DEF Place!Half

LEMMA Wrapped ==
  ASSUME NEW n \in Int, NEW q \in Int, NEW r \in 0 .. Width - 1, n = Width * q + r
  PROVE  n % Width = r
<1> DEFINE p == n \div Width
           s == n % Width
<1>1. n = Width * p + s /\ p \in Int /\ s \in 0 .. Width - 1
  BY WidthAssumption, SMT
<1>. HIDE DEF p, s
<1>2. Width * (p - q) = r - s
  BY <1>1, WidthAssumption, SMT
<1>3. CASE p - q >= 1
  <2>1. Width * (p - q) >= Width
    BY <1>1, <1>3, WidthAssumption, SMT
  <2>. QED
    BY <1>1, <1>2, <2>1, WidthAssumption, SMT
<1>4. CASE p - q =< -1
  <2>1. Width * (p - q) =< -Width
    BY <1>1, <1>4, WidthAssumption, SMT
  <2>. QED
    BY <1>1, <1>2, <2>1, WidthAssumption, SMT
<1>5. CASE p = q
  BY <1>1, <1>2, <1>5, WidthAssumption, SMT
<1>6. p - q >= 1 \/ p - q =< -1 \/ p = q
  BY <1>1, SMT
<1>. QED
  BY <1>3, <1>4, <1>5, <1>6

LEMMA WrappedOnce ==
  ASSUME NEW n \in Int
  PROVE  /\ n < 0 /\ -Width =< n => n % Width = n + Width
         /\ 0 =< n /\ n < Width => n % Width = n
         /\ Width =< n /\ n < 2 * Width => n % Width = n - Width
<1>1. ASSUME n < 0, -Width =< n PROVE n % Width = n + Width
  <2>1. n = Width * (-1) + (n + Width) /\ n + Width \in 0 .. Width - 1 /\ -1 \in Int
    BY <1>1, WidthAssumption, SMT
  <2>. QED
    BY <2>1, Wrapped
<1>2. ASSUME 0 =< n, n < Width PROVE n % Width = n
  <2>1. n = Width * 0 + n /\ n \in 0 .. Width - 1 /\ 0 \in Int
    BY <1>2, WidthAssumption, SMT
  <2>. QED
    BY <2>1, Wrapped
<1>3. ASSUME Width =< n, n < 2 * Width PROVE n % Width = n - Width
  <2>1. n = Width * 1 + (n - Width) /\ n - Width \in 0 .. Width - 1 /\ 1 \in Int
    BY <1>3, WidthAssumption, SMT
  <2>. QED
    BY <2>1, Wrapped
<1>. QED
  BY <1>1, <1>2, <1>3

(* A position that went on by less than half the width is known again.     *)
LEMMA DeltaIsUnseen ==
  ASSUME NEW c \in 0 .. Width - 1, NEW u \in 0 .. Place!Half - 1
  PROVE  Place!Signed(((c + u) % Width) - c) = u
<1> DEFINE h == Place!Half
           w == (c + u) % Width
           n == w - c + h
<1>1. w = c + u \/ w = c + u - Width
  BY HalfOfWidth, WrappedOnce, SMT
<1>2. n \in -Width .. 2 * Width - 1 /\ (n = u + h \/ n = u + h - Width)
  BY <1>1, HalfOfWidth, SMT
<1>. HIDE DEF n
<1>3. n % Width = u + h
  BY <1>2, HalfOfWidth, WrappedOnce, SMT
<1>4. Place!Signed(w - c) = (n % Width) - h
  BY DEF Place!Signed, n
<1>. QED
  BY <1>3, <1>4, HalfOfWidth, SMT

LEMMA OneFurther ==
  ASSUME NEW c \in 0 .. Width - 1, NEW u \in 0 .. Place!Half - 2
  PROVE  (((c + u) % Width) + 1) % Width = (c + (u + 1)) % Width
<1> DEFINE w == (c + u) % Width
<1>0. /\ c + u \in Int /\ c + u + 1 \in Int /\ c + (u + 1) = c + u + 1
      /\ c + u \in -Width .. 2 * Width - 1 /\ c + u + 1 \in -Width .. 2 * Width - 1
      /\ 0 =< c + u /\ 0 =< c + u + 1
  BY HalfOfWidth, SMT
<1>1. w = IF c + u < Width THEN c + u ELSE c + u - Width
  BY <1>0, WrappedOnce, WidthAssumption, SMT
<1>. HIDE DEF w
<1>5. w \in 0 .. Width - 1
  BY <1>0, <1>1, HalfOfWidth, SMT
<1> DEFINE v == w + 1
<1>2. v \in Int /\ 0 =< v /\ v < 2 * Width /\ v = w + 1
  BY <1>5, WidthAssumption, SMT
<1>. HIDE DEF v
<1>6. v % Width = IF v < Width THEN v ELSE v - Width
  BY <1>2, WrappedOnce, WidthAssumption, SMT
<1>3. (c + (u + 1)) % Width = IF c + u + 1 < Width THEN c + u + 1 ELSE c + u + 1 - Width
  BY <1>0, WrappedOnce, WidthAssumption, SMT
<1>4. v % Width = (c + (u + 1)) % Width
  BY <1>0, <1>1, <1>2, <1>3, <1>5, <1>6, HalfOfWidth, SMT
<1>. QED
  BY <1>4 DEF v, w

(* The counters follow what the device plays, the service's modulo Width.  *)
PlaceInv ==
  /\ position \in 0 .. Width - 1 /\ counter32 \in 0 .. Width - 1
  /\ counter64 \in Int /\ passed \in Nat /\ queued \in Nat /\ flushed \in Nat
  /\ unseen \in 0 .. Place!Half - 1
  /\ position = (counter32 + unseen) % Width
  /\ ~paused => counter64 + unseen =< passed
  /\ ~paused /\ (direction = "output" \/ ~restarted) => counter64 + unseen = passed

LEMMA PlaceKeeps ==
  ASSUME PlaceInv, Place!Next
  PROVE  PlaceInv'
<1>. USE WidthAssumption, HalfOfWidth DEF PlaceInv, Place!counter
<1>0. /\ 0 \in 0 .. Width - 1 /\ 0 % Width = 0 /\ (0 + 0) % Width = 0
      /\ (position + 0) % Width = position /\ (counter32 + 0) % Width = counter32
  <2>1. \A n \in 0 .. Width - 1 : n % Width = n /\ n + 0 = n
    <3>1. SUFFICES ASSUME NEW n \in 0 .. Width - 1 PROVE n % Width = n /\ n + 0 = n
      OBVIOUS
    <3>2. n \in -Width .. 2 * Width - 1 /\ 0 =< n /\ n < Width /\ n + 0 = n
      BY SMT
    <3>. QED
      BY <3>2, WrappedOnce
  <2>2. 0 \in 0 .. Width - 1
    BY SMT
  <2>. QED
    BY <2>1, <2>2
<1>1. CASE Place!Started
  <2>1. queued' \in Nat
    BY <1>1 DEF Place!Started
  <2>. QED
    BY <1>1, <2>1 DEF Place!Started
<1>2. CASE Place!Plays
  <2>1. /\ unseen \in 0 .. Place!Half - 2 /\ unseen' = unseen + 1 /\ passed' = passed + 1
        /\ position' = (position + 1) % Width
        /\ UNCHANGED <<direction, counter64, counter32, flushed, paused, restarted>>
    BY <1>2, SMT DEF Place!Plays
  <2>2. queued' \in Nat
    BY <1>2, SMT DEF Place!Plays
  <2>3. position' = (counter32 + (unseen + 1)) % Width
    BY <2>1, OneFurther
  <2>4. position' \in 0 .. Width - 1
    BY <2>1, SMT
  <2>. HIDE DEF Place!Half
  <2>. QED
    BY <2>1, <2>2, <2>3, <2>4, SMT
<1>3. CASE Place!Look
  <2>1. Place!Signed(position - counter32) = unseen
    BY DeltaIsUnseen
  <2>2. CASE unseen > 0
    <3>1. /\ counter64' = counter64 + unseen /\ counter32' = position /\ unseen' = 0
          /\ UNCHANGED <<direction, position, queued, passed, flushed, paused, restarted>>
      BY <1>3, <2>1, <2>2 DEF Place!Look, Place!Update32
    <3>. QED
      BY <1>0, <3>1, SMT
  <2>3. CASE unseen = 0
    <3>1. /\ UNCHANGED <<counter64, counter32>> /\ unseen' = 0
          /\ UNCHANGED <<direction, position, queued, passed, flushed, paused, restarted>>
      BY <1>3, <2>1, <2>3 DEF Place!Look, Place!Update32
    <3>. QED
      BY <2>3, <3>1
  <2>. QED
    BY <2>2, <2>3, SMT
<1>4. CASE Place!LookWhileLocked
  BY <1>4 DEF Place!LookWhileLocked
<1>5. CASE Place!Flush
  BY <1>5, SMT DEF Place!Flush
<1>6. CASE Place!Pause
  <2>1. counter64' \in Int
    BY <1>6, SMT DEF Place!Pause, Place!Written
  <2>. QED
    BY <1>6, <2>1 DEF Place!Pause
<1>7. CASE Place!Stop
  <2>1. /\ position' = 0 /\ counter32' = 0 /\ unseen' = 0
        /\ UNCHANGED <<direction, paused>> /\ restarted' = TRUE
        /\ \/ /\ direction = "output"
              /\ counter64' = passed + queued + flushed /\ passed' = passed + queued + flushed
              /\ queued' = 0 /\ flushed' = 0
           \/ direction # "output" /\ UNCHANGED <<counter64, passed, queued, flushed>>
    BY <1>7 DEF Place!Stop, Place!StopCounter, Place!Written
  <2>. QED
    BY <1>0, <2>1, SMT
<1>. QED
  BY <1>1, <1>2, <1>3, <1>4, <1>5, <1>6, <1>7 DEF Place!Next

LEMMA PlaceStarts == ASSUME Place!Init PROVE PlaceInv
<1>1. 0 \in 0 .. Width - 1 /\ (0 + 0) % Width = 0
  BY HalfOfWidth, WrappedOnce, SMT
<1>. QED
  BY <1>1, HalfOfWidth, SMT DEF Place!Init, PlaceInv

-----------------------------------------------------------------------------
(* The functions that are linked have names of their own, and those that   *)
(* are called without a look at the pointer came with the first version,   *)
(* but for release().                                                      *)
Ours == Loader!Functions
OursIndex == 1 .. 17

LEMMA TheFunctions ==
  /\ DOMAIN Ours = OursIndex /\ Len(Ours) = 17
  /\ Ours[1] = Loader!Function("openStream", 0)
  /\ Ours[2] = Loader!Function("setChannelCount", 0)
  /\ Ours[3] = Loader!Function("setUsage", P)
  /\ Ours[4] = Loader!Function("setAllowedCapturePolicy", Q)
  /\ Ours[5] = Loader!Function("setPrivacySensitive", R)
  /\ Ours[6] = Loader!Function("setPackageName", S)
  /\ Ours[7] = Loader!Function("setChannelMask", S_V2)
  /\ Ours[8] = Loader!Function("delete", 0)
  /\ Ours[9] = Loader!Function("read", 0)
  /\ Ours[10] = Loader!Function("getChannelCount", 0)
  /\ Ours[11] = Loader!Function("release", R)
  /\ Ours[12] = Loader!Function("close", 0)
  /\ Ours[13] = Loader!Function("getUsage", P)
  /\ Ours[14] = Loader!Function("getAllowedCapturePolicy", Q)
  /\ Ours[15] = Loader!Function("isPrivacySensitive", R)
  /\ Ours[16] = Loader!Function("getMask", S_V2)
  /\ Ours[17] = Loader!Function("getHardware", U)
<1>. USE DEF Ours, Loader!Functions
<1>1. DOMAIN Ours = OursIndex /\ Len(Ours) = 17
  BY SMT DEF Loader!Builder, Loader!Stream, OursIndex
<1>2. \A i \in 1 .. 8 : Ours[i] = Loader!Builder[i]
  BY SMT DEF Loader!Builder, Loader!Stream
<1>3. \A i \in 1 .. 9 : Ours[8 + i] = Loader!Stream[i]
  BY SMT DEF Loader!Builder, Loader!Stream
<1>. HIDE DEF Ours
<1>4. /\ Ours[1] = Loader!Builder[1] /\ Ours[2] = Loader!Builder[2] /\ Ours[3] = Loader!Builder[3]
      /\ Ours[4] = Loader!Builder[4] /\ Ours[5] = Loader!Builder[5] /\ Ours[6] = Loader!Builder[6]
      /\ Ours[7] = Loader!Builder[7] /\ Ours[8] = Loader!Builder[8]
  BY <1>2, SMT
<1>5. /\ Ours[8 + 1] = Loader!Stream[1] /\ Ours[8 + 2] = Loader!Stream[2] /\ Ours[8 + 3] = Loader!Stream[3]
      /\ Ours[8 + 4] = Loader!Stream[4] /\ Ours[8 + 5] = Loader!Stream[5] /\ Ours[8 + 6] = Loader!Stream[6]
      /\ Ours[8 + 7] = Loader!Stream[7] /\ Ours[8 + 8] = Loader!Stream[8] /\ Ours[8 + 9] = Loader!Stream[9]
  BY <1>3, SMT
<1>6. /\ Ours[9] = Loader!Stream[1] /\ Ours[10] = Loader!Stream[2] /\ Ours[11] = Loader!Stream[3]
      /\ Ours[12] = Loader!Stream[4] /\ Ours[13] = Loader!Stream[5] /\ Ours[14] = Loader!Stream[6]
      /\ Ours[15] = Loader!Stream[7] /\ Ours[16] = Loader!Stream[8] /\ Ours[17] = Loader!Stream[9]
  BY <1>5, SMT
<1>. QED
  BY <1>1, <1>4, <1>6 DEF Loader!Builder, Loader!Stream

LEMMA NamesDiffer ==
  /\ \A i, j \in OursIndex : i # j => Ours[i].name # Ours[j].name
  /\ \A i \in OursIndex : Ours[i].name \notin {"isMMapUsed", "setMMapPolicy", "getMMapPolicy", "none"}
  /\ \A i \in OursIndex : Ours[i].since \in Nat
BY TheFunctions, LevelsAssumption, SMTT(30) DEF OursIndex, Loader!Function

LEMMA TrustedAreOld ==
  \A i \in OursIndex : Ours[i].name \in Loader!Trusted =>
    Ours[i].since = 0 \/ (Ours[i].name = "release" /\ Ours[i].since = R)
BY TheFunctions, SMTT(30) DEF OursIndex, Loader!Function, Loader!Trusted

LEMMA TrustedAreOurs ==
  \A n \in Loader!Trusted : \E i \in OursIndex : Ours[i].name = n
BY TheFunctions, SMTT(30) DEF OursIndex, Loader!Function, Loader!Trusted

(* A library has what its version has, and the code relies on that.        *)
LibraryInv ==
  /\ sdk \in Nat
  /\ library.there => library.old \subseteq {"setChannelCount", "getChannelCount"} /\ library.old \subseteq library.exports
  /\ library.there =>
       \A i \in OursIndex :
         Ours[i].name \in Loader!Trusted /\ sdk >= Ours[i].since => Ours[i].name \in library.exports

IsRight(i) == Ours[i].name \in linked <=> sdk >= Ours[i].since /\ Ours[i].name \in library.exports
Opening(t) == pc[t] = "opening"

(* Every thread inside open() has linked what is before the place it has   *)
(* come to, and what is linked rightly stays so; once nobody is inside,    *)
(* all is.                                                                 *)
OpenInv ==
  /\ pc \in [Threads -> {"idle", "open", "dlopen", "opening", "built", "symbol", "use"}]
  /\ at \in [Threads -> Nat]
  /\ handle => library.there
  /\ ~handle => \A t \in Threads : pc[t] \in {"idle", "open", "dlopen"}
  /\ \A t \in Threads : pc[t] = "dlopen" => at[t] = 1
  /\ \A t \in Threads : Opening(t) => at[t] \in OursIndex /\ \A i \in OursIndex : i < at[t] => IsRight(i)
  /\ handle /\ (\A t \in Threads : ~Opening(t)) => \A i \in OursIndex : IsRight(i)

(* The functions of MMAP are linked in their order, and none that is not   *)
(* there.                                                                  *)
MMapInv ==
  /\ \A name \in {"isMMapUsed", "setMMapPolicy", "getMMapPolicy"} : name \in linked => name \in library.exports
  /\ "getMMapPolicy" \in linked => handle /\ "setMMapPolicy" \in linked /\ "isMMapUsed" \in linked
  /\ \A t \in Threads :
       pc[t] = "symbol" => /\ at[t] \in 1 .. 3
                           /\ at[t] > 1 => "isMMapUsed" \in linked
                           /\ at[t] > 2 => "setMMapPolicy" \in linked
  /\ \A t \in Threads : pc[t] = "use" => {"isMMapUsed", "setMMapPolicy", "getMMapPolicy"} \subseteq linked

FaultInv == fault => \E t \in Threads : Opening(t)

LoaderInv == LibraryInv /\ OpenInv /\ MMapInv /\ FaultInv

(* A function is linked if the version has it and the library exports it,  *)
(* under one name or the other.                                            *)
LEMMA LinksRight ==
  ASSUME LibraryInv, library.there, NEW i \in OursIndex
  PROVE  Loader!Linked(Ours[i]) =
           IF sdk >= Ours[i].since /\ Ours[i].name \in library.exports THEN {Ours[i].name} ELSE {}
BY DEF LibraryInv, Loader!Linked, Loader!Load, Loader!LoadOld, Loader!Exported

LEMMA LoadFunctionKeeps ==
  ASSUME LoaderInv, ~fault, NEW t \in Threads, Loader!LoadFunction(t)
  PROVE  LoaderInv'
<1> DEFINE f == Ours[at[t]]
<1>1. /\ handle /\ library.there /\ at[t] \in OursIndex /\ pc[t] = "opening"
      /\ \A i \in OursIndex : i < at[t] => IsRight(i)
  BY DEF LoaderInv, OpenInv, Opening, Loader!LoadFunction
<1>2. linked' = (linked \ {f.name}) \cup (IF sdk >= f.since /\ f.name \in library.exports THEN {f.name} ELSE {})
  BY <1>1, LinksRight DEF LoaderInv, Loader!LoadFunction, Ours
<1>3. UNCHANGED <<sdk, library, handle, asks, fault>>
  BY DEF Loader!LoadFunction
<1>4. \A i \in OursIndex : i = at[t] \/ IsRight(i) => IsRight(i)'
  <2>1. SUFFICES ASSUME NEW i \in OursIndex, i = at[t] \/ IsRight(i) PROVE IsRight(i)'
    OBVIOUS
  <2>2. CASE i = at[t]
    BY <1>2, <1>3, <2>2 DEF IsRight
  <2>3. CASE i # at[t] /\ IsRight(i)
    <3>1. Ours[i].name # f.name
      BY <1>1, <2>3, NamesDiffer
    <3>. QED
      BY <1>2, <1>3, <2>3, <3>1 DEF IsRight
  <2>. QED
    BY <2>1, <2>2, <2>3
<1>5. \A name \in {"isMMapUsed", "setMMapPolicy", "getMMapPolicy"} : name \in linked' <=> name \in linked
  BY <1>1, <1>2, NamesDiffer
<1>6. /\ pc' \in [Threads -> {"idle", "open", "dlopen", "opening", "built", "symbol", "use"}] /\ at' \in [Threads -> Nat]
      /\ \A u \in Threads : u # t => pc'[u] = pc[u] /\ at'[u] = at[u]
      /\ IF at[t] < 17 THEN at'[t] = at[t] + 1 /\ pc'[t] = "opening"
         ELSE at[t] = 17 /\ at'[t] = 1 /\ pc'[t] \in {"built", "symbol"}
  BY <1>1, TheFunctions, SMT
     DEF LoaderInv, OpenInv, Loader!LoadFunction, Loader!Goes, Loader!Opened, OursIndex, Ours
<1>7. LibraryInv'
  BY <1>3 DEF LoaderInv, LibraryInv
<1>8. OpenInv'
  <2>1. \A i \in OursIndex : i < at'[t] /\ Opening(t)' => IsRight(i)'
    BY <1>1, <1>4, <1>6, SMT DEF OursIndex, Opening
  <2>2. ~Opening(t)' => \A i \in OursIndex : IsRight(i)'
    BY <1>1, <1>4, <1>6, SMT DEF OursIndex, Opening
  <2>3. Opening(t)' => at'[t] \in OursIndex
    BY <1>1, <1>6, SMT DEF OursIndex, Opening
  <2>4. \A u \in Threads : u # t /\ Opening(u)' => at'[u] \in OursIndex /\ \A i \in OursIndex : i < at'[u] => IsRight(i)'
    BY <1>4, <1>6 DEF LoaderInv, OpenInv, Opening
  <2>5. \A u \in Threads : Opening(u)' => at'[u] \in OursIndex /\ \A i \in OursIndex : i < at'[u] => IsRight(i)'
    BY <2>1, <2>3, <2>4
  <2>6. (\A u \in Threads : ~Opening(u)') => \A i \in OursIndex : IsRight(i)'
    BY <2>2
  <2>7. handle' /\ library'.there
    BY <1>1, <1>3
  <2>8. \A u \in Threads : pc'[u] = "dlopen" => at'[u] = 1
    BY <1>6 DEF LoaderInv, OpenInv
  <2>. QED
    BY <1>6, <2>5, <2>6, <2>7, <2>8 DEF OpenInv
<1>9. MMapInv'
  BY <1>1, <1>3, <1>5, <1>6, SMT DEF LoaderInv, MMapInv, Opening
<1>. QED
  BY <1>3, <1>7, <1>8, <1>9 DEF LoaderInv, FaultInv

LEMMA LoadSymbolKeeps ==
  ASSUME LoaderInv, ~fault, NEW t \in Threads, Loader!LoadSymbol(t)
  PROVE  LoaderInv'
<1> DEFINE name == Loader!MMap[at[t]]
<1>1. pc[t] = "symbol" /\ handle /\ library.there /\ at[t] \in 1 .. 3
  BY DEF LoaderInv, OpenInv, MMapInv, Opening, Loader!LoadSymbol
<1>2. /\ at[t] = 1 => name = "isMMapUsed"
      /\ at[t] = 2 => name = "setMMapPolicy"
      /\ at[t] = 3 => name = "getMMapPolicy"
  BY DEF Loader!MMap
<1>3. name \in {"isMMapUsed", "setMMapPolicy", "getMMapPolicy"}
  BY <1>1, <1>2
<1>. HIDE DEF name
<1>4. Loader!Exported(name) <=> name \in library.exports
  BY <1>1, <1>3 DEF LoaderInv, LibraryInv, Loader!Exported
<1>5. linked' = (linked \ {name}) \cup (IF name \in library.exports THEN {name} ELSE {})
  BY <1>4 DEF Loader!LoadSymbol, Loader!Load, name
<1>6. /\ linked \subseteq linked'
      /\ \A n \in linked' : n \in linked \/ (n = name /\ name \in library.exports)
      /\ name \in library.exports => name \in linked'
  BY <1>3, <1>5 DEF LoaderInv, MMapInv, Opening
<1>7. UNCHANGED <<sdk, library, handle, asks, fault>>
  BY DEF Loader!LoadSymbol
<1>8. /\ pc' \in [Threads -> {"idle", "open", "dlopen", "opening", "built", "symbol", "use"}] /\ at' \in [Threads -> Nat]
      /\ \A u \in Threads : u # t => pc'[u] = pc[u] /\ at'[u] = at[u]
      /\ IF name \notin library.exports THEN pc'[t] = "idle"
         ELSE IF at[t] < 3 THEN at'[t] = at[t] + 1 /\ pc'[t] = "symbol"
         ELSE pc'[t] = "use"
  BY <1>1, <1>4, SMT DEF LoaderInv, OpenInv, Loader!LoadSymbol, Loader!Goes, Loader!MMap, name
<1>9. LibraryInv'
  BY <1>7 DEF LoaderInv, LibraryInv
<1>10. OpenInv'
  <2>1. \A i \in OursIndex : IsRight(i) => IsRight(i)'
    <3>1. \A i \in OursIndex : Ours[i].name # name
      BY <1>3, NamesDiffer
    <3>. QED
      BY <1>5, <1>7, <3>1 DEF IsRight
  <2>2. \A u \in Threads : Opening(u)' <=> Opening(u)
    BY <1>1, <1>8 DEF Opening
  <2>3. \A u \in Threads : Opening(u)' => at'[u] = at[u]
    BY <1>1, <1>8 DEF Opening
  <2>. QED
    BY <1>1, <1>7, <1>8, <2>1, <2>2, <2>3 DEF LoaderInv, OpenInv
<1>11. MMapInv'
  BY <1>1, <1>2, <1>3, <1>6, <1>7, <1>8, SMT DEF LoaderInv, MMapInv, Opening
<1>. QED
  BY <1>7, <1>9, <1>10, <1>11 DEF LoaderInv, FaultInv

LEMMA LoaderKeeps ==
  ASSUME LoaderInv, Loader!Next
  PROVE  LoaderInv'
<1>1. PICK t \in Threads :
        Loader!IsSupported(t) \/ Loader!Open(t) \/ Loader!OpenLibrary(t) \/ Loader!LoadFunction(t) \/ Loader!Call(t)
          \/ Loader!Close(t) \/ Loader!LoadSymbols(t) \/ Loader!LoadSymbol(t) \/ Loader!Use(t)
  BY DEF Loader!Next
<1>0. ~fault
  BY DEF Loader!Next
<1>. USE DEF Loader!Goes
<1>2. CASE Loader!IsSupported(t)
  BY <1>0, <1>2, SMT DEF LoaderInv, LibraryInv, OpenInv, MMapInv, FaultInv, Opening, IsRight, Loader!IsSupported
<1>3. CASE Loader!Open(t)
  <2>1. /\ pc[t] = "open" /\ at' = [at EXCEPT ![t] = 1]
        /\ UNCHANGED <<sdk, library, handle, linked, asks, fault>>
        /\ \E step \in {"built", "symbol", "dlopen"} : pc' = [pc EXCEPT ![t] = step] /\ (~handle => step = "dlopen")
    BY <1>3 DEF Loader!Open, Loader!Opened
  <2>2. LibraryInv'
    BY <2>1 DEF LoaderInv, LibraryInv
  <2>3. /\ pc' \in [Threads -> {"idle", "open", "dlopen", "opening", "built", "symbol", "use"}]
        /\ at' \in [Threads -> Nat]
        /\ \A u \in Threads : u # t => pc'[u] = pc[u] /\ at'[u] = at[u]
        /\ pc'[t] \in {"built", "symbol", "dlopen"} /\ at'[t] = 1 /\ (~handle => pc'[t] = "dlopen")
    BY <2>1 DEF LoaderInv, OpenInv
  <2>4. OpenInv'
    BY <2>1, <2>3 DEF LoaderInv, OpenInv, Opening, IsRight
  <2>5. MMapInv'
    BY <2>1, <2>3, SMT DEF LoaderInv, MMapInv
  <2>. QED
    BY <1>0, <2>1, <2>2, <2>4, <2>5 DEF LoaderInv, FaultInv
<1>8. CASE Loader!OpenLibrary(t)
  <2>0. library.there \/ ~handle
    BY DEF LoaderInv, OpenInv
  <2>1. /\ pc[t] = "dlopen" /\ handle' = library.there
        /\ pc' = [pc EXCEPT ![t] = IF library.there THEN "opening" ELSE "idle"]
        /\ UNCHANGED <<sdk, library, linked, at, asks, fault>>
    BY <1>8 DEF Loader!OpenLibrary
  <2>2. LibraryInv'
    BY <2>1 DEF LoaderInv, LibraryInv
  <2>4. /\ pc' \in [Threads -> {"idle", "open", "dlopen", "opening", "built", "symbol", "use"}]
        /\ \A u \in Threads : u # t => pc'[u] = pc[u]
        /\ pc'[t] = IF library.there THEN "opening" ELSE "idle"
    BY <2>1 DEF LoaderInv, OpenInv
  <2>5. OpenInv'
    <3>1. handle \/ handle' => library.there
      BY <2>1 DEF LoaderInv, OpenInv
    <3>2. \A i \in OursIndex : IsRight(i)' <=> IsRight(i)
      BY <2>1 DEF IsRight
    <3>3. \A i \in OursIndex : ~(i < 1)
      BY SMT DEF OursIndex
    <3>4. 1 \in OursIndex
      BY SMT DEF OursIndex
    <3>5. at[t] = 1
      BY <2>1 DEF LoaderInv, OpenInv
    <3>6. CASE library.there
      BY <2>1, <2>4, <3>1, <3>2, <3>3, <3>4, <3>5, <3>6 DEF LoaderInv, OpenInv, Opening
    <3>7. CASE ~library.there
      BY <2>1, <2>4, <3>1, <3>2, <3>7 DEF LoaderInv, OpenInv, Opening
    <3>. QED
      BY <3>6, <3>7
  <2>6. MMapInv'
    BY <2>0, <2>1, <2>4, SMT DEF LoaderInv, MMapInv
  <2>. QED
    BY <1>0, <2>1, <2>2, <2>5, <2>6 DEF LoaderInv, FaultInv
<1>4. CASE Loader!Call(t)
  <2>1. ASSUME \A u \in Threads : ~Opening(u), NEW n \in Loader!Names, Loader!Calls(n), n \notin linked
        PROVE  FALSE
    <3>1. handle /\ library.there /\ \A i \in OursIndex : IsRight(i)
      BY <1>4, <2>1 DEF LoaderInv, OpenInv, Loader!Call
    <3>3. n \in Loader!Trusted /\ (n = "release" => sdk >= R)
      BY <2>1 DEF Loader!Calls, Loader!MayRelease, Loader!Trusted
    <3>4. PICK i \in OursIndex : Ours[i].name = n
      BY <3>3, TrustedAreOurs
    <3>5. sdk >= Ours[i].since
      BY <3>3, <3>4, TrustedAreOld, SMT DEF LoaderInv, LibraryInv
    <3>. QED
      BY <2>1, <3>1, <3>3, <3>4, <3>5 DEF LoaderInv, LibraryInv, IsRight
  <2>2. UNCHANGED <<sdk, library, handle, linked, pc, at, asks>>
    BY <1>4 DEF Loader!Call
  <2>3. fault' => \E u \in Threads : Opening(u)
    BY <1>0, <1>4, <2>1 DEF Loader!Call
  <2>4. FaultInv'
    BY <2>2, <2>3 DEF FaultInv, Opening
  <2>. QED
    BY <2>2, <2>4 DEF LoaderInv, LibraryInv, OpenInv, MMapInv, Opening, IsRight
<1>5. CASE Loader!Close(t)
  BY <1>0, <1>5, SMT DEF LoaderInv, LibraryInv, OpenInv, MMapInv, FaultInv, Opening, IsRight, Loader!Close
<1>6. CASE Loader!LoadSymbols(t)
  <2>1. /\ pc[t] = "idle" /\ pc' = [pc EXCEPT ![t] = IF "getMMapPolicy" \in linked THEN "use" ELSE "open"]
        /\ UNCHANGED <<sdk, library, handle, linked, at, fault>>
    BY <1>6 DEF Loader!LoadSymbols, Loader!MMap
  <2>2. LibraryInv'
    BY <2>1 DEF LoaderInv, LibraryInv
  <2>3. OpenInv'
    BY <2>1 DEF LoaderInv, OpenInv, MMapInv, Opening, IsRight
  <2>4. MMapInv'
    BY <2>1, SMT DEF LoaderInv, OpenInv, MMapInv, Opening
  <2>. QED
    BY <1>0, <2>1, <2>2, <2>3, <2>4 DEF LoaderInv, FaultInv
<1>7. CASE Loader!Use(t)
  BY <1>0, <1>7, SMT DEF LoaderInv, LibraryInv, OpenInv, MMapInv, FaultInv, Opening, IsRight, Loader!Use
<1>. QED
  BY <1>0, <1>1, <1>2, <1>3, <1>4, <1>5, <1>6, <1>7, <1>8, LoadFunctionKeeps, LoadSymbolKeeps

LEMMA LoaderStarts == ASSUME Loader!Init PROVE LoaderInv
<1>1. PICK version \in Levels : library \in Loader!Libraries(version) /\ sdk \in {version - 1, version}
  BY DEF Loader!Init
<1>2. version \in Nat \ {0} /\ sdk \in Nat /\ sdk =< version
  <2>1. version \in Nat \ {0}
    BY <1>1, LevelsAssumption
  <2>. QED
    BY <1>1, <2>1, SMT
<1>3. ASSUME library.there
      PROVE  /\ library.old \subseteq {"setChannelCount", "getChannelCount"}
             /\ \A i \in OursIndex :
                  Ours[i].name \in Loader!Trusted /\ version >= Ours[i].since => Ours[i].name \in library.exports
  <2>1. PICK missing \in (Loader!Names \ Loader!Trusted) \cup {"none"}, mmap \in {1 .. n : n \in 0 .. 3} \cup {{3}},
             old_ \in {{"setChannelCount"}, {"getChannelCount"}} :
          library = [there |-> TRUE, exports |-> Loader!Exports(version, missing, mmap), old |-> old_]
    BY <1>1, <1>3 DEF Loader!Libraries
  <2>2. library.exports = Loader!Exports(version, missing, mmap) /\ library.old = old_
    BY <2>1
  <2>3. \A i \in OursIndex :
          Ours[i].name # missing /\ version >= Ours[i].since => Ours[i].name \in Loader!Exports(version, missing, mmap)
    <3>1. SUFFICES ASSUME NEW i \in OursIndex, Ours[i].name # missing, version >= Ours[i].since
                   PROVE  Ours[i].name \in Loader!Exports(version, missing, mmap)
      OBVIOUS
    <3>2. i \in DOMAIN Ours /\ Ours[i].since =< version
      BY <1>2, <3>1, TheFunctions, NamesDiffer, SMT
    <3>. QED
      BY <3>1, <3>2 DEF Loader!Exports, Ours
  <2>4. \A i \in OursIndex : Ours[i].name \in Loader!Trusted => Ours[i].name # missing
    BY <2>1, NamesDiffer
  <2>. QED
    BY <2>1, <2>2, <2>3, <2>4
<1>4. LibraryInv
  <2>1. ASSUME library.there PROVE library.old \subseteq library.exports
    <3>1. {"setChannelCount", "getChannelCount"} \subseteq Loader!Trusted
      BY DEF Loader!Trusted
    <3>2. \A n \in {"setChannelCount", "getChannelCount"} : \E i \in OursIndex : Ours[i].name = n /\ Ours[i].since = 0
      BY <3>1, TrustedAreOurs, TrustedAreOld
    <3>3. version >= 0
      BY <1>2, SMT
    <3>. QED
      BY <1>3, <2>1, <3>1, <3>2, <3>3
  <2>2. \A i \in OursIndex : sdk >= Ours[i].since => version >= Ours[i].since
    BY <1>2, NamesDiffer, SMT
  <2>3. handle = FALSE
    BY DEF Loader!Init
  <2>. QED
    BY <1>2, <1>3, <2>1, <2>2, <2>3 DEF LibraryInv
<1>. QED
  BY <1>4 DEF LoaderInv, OpenInv, MMapInv, FaultInv, Opening, Loader!Init

LEMMA LoaderSafe == LoaderInv => Loader!LinkedBeforeCalled
BY TheFunctions DEF LoaderInv, OpenInv, MMapInv, FaultInv, IsRight, Opening, Loader!LinkedBeforeCalled, Loader!NobodyOpens, Loader!MMap, Ours

-----------------------------------------------------------------------------
(* The resampler.                                                          *)
IsRow(r) == /\ r \in 0 .. denominator - 1 /\ coefficient = r * taps
            /\ \E k \in Int : phase = r * numerator - k * denominator

(* The coefficients are those of the row that the phase comes to; without  *)
(* rows the cursor of the coefficients rests.                              *)
RowInv == way = "polyphase" => \E r \in 0 .. denominator - 1 : IsRow(r)

(* The delay line holds the last frames from the cursor on, and all of     *)
(* them twice.                                                             *)
Recent(t) == Filter!LastWritten(t)
DelayInv ==
  /\ \A t \in 1 .. taps : x[cursor + t - 1] = Recent(t)
  /\ way # "linear" => \A i \in 0 .. taps - 1 : x[i + taps] = x[i]
  /\ way = "linear" => taps = 2 /\ cursor = 0

ResamplerTypeOK ==
  /\ taps \in TapCounts /\ taps \in Nat \ {0}
  /\ way \in {"linear", "polyphase", "sinc"}
  /\ {numerator, denominator} \subseteq Nat \ {0}
  /\ phase \in Nat /\ written \in Nat
  /\ cursor \in 0 .. taps - 1
  /\ x \in [0 .. 2 * taps - 1 -> Nat]

ResamplerInv == ResamplerTypeOK /\ RowInv /\ DelayInv

(* Arithmetic.                                                             *)
LEMMA Division ==
  ASSUME NEW m \in Nat \ {0}, NEW a \in Int
  PROVE  a = m * (a \div m) + (a % m) /\ a \div m \in Int /\ a % m \in 0 .. m - 1
BY SMT

LEMMA Product ==
  ASSUME NEW m \in Nat \ {0}, NEW n \in Nat \ {0}
  PROVE  m * n \in Nat \ {0}
BY SMT

LEMMA OneMore ==
  ASSUME NEW m \in Int, NEW n \in Int
  PROVE  m * n \in Int /\ (m + 1) * n = m * n + n /\ 0 * n = 0
BY SMT

LEMMA SmallRemainder ==
  ASSUME NEW m \in Nat \ {0}
  PROVE  m % m = 0 /\ \A a \in 0 .. m - 1 : a % m = a
BY SMT

LEMMA LessTimes ==
  ASSUME NEW m \in Int, NEW n \in Int
  PROVE  (m - n) \in Int /\ \A k \in Int : (m - n) * k = m * k - n * k
BY SMT

LEMMA ResamplerStarts == Filter!Init => ResamplerInv
<1>. SUFFICES ASSUME Filter!Init PROVE ResamplerInv
  OBVIOUS
<1>1. PICK ratio \in Rates : numerator = Filter!Reduced(ratio).in /\ denominator = Filter!Reduced(ratio).out
  BY DEF Filter!Init
<1>2. {numerator, denominator} \subseteq Nat \ {0}
  BY <1>1, RatesAssumption
<1>3. taps \in TapCounts /\ taps \in Nat \ {0} /\ way \in {"linear", "polyphase", "sinc"} /\ (way = "linear" => taps = 2)
  BY RatesAssumption DEF Filter!Init, Filter!WayFor
<1>4. ResamplerTypeOK
  BY <1>2, <1>3, SMT DEF ResamplerTypeOK, Filter!Init
<1>5. RowInv
  <2>1. 0 \in 0 .. denominator - 1
    BY <1>2, SMT
  <2>2. coefficient = 0 * taps /\ phase = 0 * numerator - (-1) * denominator
    BY <1>2, <1>3, SMT DEF Filter!Init
  <2>. QED
    BY <2>1, <2>2 DEF RowInv, IsRow
<1>6. DelayInv
  BY <1>3, SMT DEF DelayInv, Recent, Filter!LastWritten, Filter!Init
<1>. QED
  BY <1>4, <1>5, <1>6 DEF ResamplerInv

(* A frame is written.                                                     *)
LEMMA WriteKeeps ==
  ASSUME ResamplerInv, Filter!WriteNextFrame
  PROVE  ResamplerInv'
<1>. USE DEF ResamplerInv, ResamplerTypeOK
<1>1. /\ phase >= denominator /\ phase' = phase - denominator /\ written' = written + 1
      /\ UNCHANGED <<way, taps, numerator, denominator, coefficient>>
  BY DEF Filter!WriteNextFrame, Filter!IsWriteNeeded, Filter!filter
<1>2. \A t \in 2 .. taps : t - 1 \in 1 .. taps /\ Recent(t)' = Recent(t - 1)
  BY <1>1, SMT DEF Recent, Filter!LastWritten
<1>3. Recent(1)' = written'
  BY <1>1, SMT DEF Recent, Filter!LastWritten
<1>4. RowInv'
  <2>. SUFFICES ASSUME way = "polyphase" PROVE \E r \in 0 .. denominator - 1 : IsRow(r)'
    BY <1>1 DEF RowInv
  <2>1. PICK r \in 0 .. denominator - 1 : IsRow(r)
    BY DEF RowInv
  <2>2. PICK k \in Int : phase = r * numerator - k * denominator
    BY <2>1 DEF IsRow
  <2>3. k + 1 \in Int /\ (k + 1) * denominator = k * denominator + denominator
    BY <2>2, SMT
  <2>4. r * numerator \in Int /\ k * denominator \in Int
    BY SMT
  <2>5. phase' = r * numerator - (k + 1) * denominator
    <3>1. PICK a \in Int, b \in Int : a = r * numerator /\ b = k * denominator
      BY <2>4
    <3>2. phase = a - b /\ (k + 1) * denominator = b + denominator
      BY <2>2, <2>3, <3>1
    <3>3. phase - denominator = a - (b + denominator)
      BY <3>2, SMT
    <3>. QED
      BY <1>1, <3>1, <3>2, <3>3
  <2>6. IsRow(r)'
    BY <1>1, <2>1, <2>3, <2>5 DEF IsRow
  <2>. QED
    BY <2>6
<1>5. CASE way = "linear"
  <2>1. x' = [x EXCEPT ![0] = written', ![1] = x[0]] /\ cursor' = cursor
    BY <1>5 DEF Filter!WriteNextFrame, Filter!WriteFrame, Filter!LinearWrite
  <2>2. taps = 2 /\ cursor = 0
    BY <1>5 DEF DelayInv
  <2>3. x'[0] = written' /\ x'[1] = x[0] /\ x' \in [0 .. 2 * taps - 1 -> Nat]
    BY <1>1, <2>1, <2>2, SMT
  <2>4. x[0] = Recent(1)
    BY <2>2, SMT DEF DelayInv
  <2>5. x'[0] = Recent(1)' /\ x'[1] = Recent(2)'
    BY <1>2, <1>3, <2>2, <2>3, <2>4, SMT
  <2>6. DelayInv'
    BY <1>1, <1>5, <2>1, <2>2, <2>5, SMT DEF DelayInv
  <2>. QED
    <3>1. phase' \in Nat /\ written' \in Nat
      BY <1>1, SMT
    <3>. QED
      BY <1>1, <1>4, <2>1, <2>3, <2>6, <3>1
<1>6. CASE way # "linear"
  <2>1. cursor' = (IF cursor = 0 THEN taps - 1 ELSE cursor - 1) /\ x' = [x EXCEPT ![cursor'] = written', ![cursor' + taps] = written']
    BY <1>6 DEF Filter!WriteNextFrame, Filter!WriteFrame, Filter!LinearWrite, Filter!Delayed
  <2>2. cursor' \in 0 .. taps - 1 /\ cursor' + taps \in 0 .. 2 * taps - 1 /\ cursor' \in 0 .. 2 * taps - 1
    BY <2>1, SMT
  <2>3. /\ x' \in [0 .. 2 * taps - 1 -> Nat]
        /\ \A i \in 0 .. 2 * taps - 1 : x'[i] = IF i \in {cursor', cursor' + taps} THEN written' ELSE x[i]
    <3>1. PICK c : c = cursor' /\ c \in 0 .. 2 * taps - 1 /\ c + taps \in 0 .. 2 * taps - 1
      BY <2>2
    <3>2. x' = [x EXCEPT ![c] = written', ![c + taps] = written'] /\ written' \in Nat
      BY <1>1, <2>1, <3>1
    <3>. QED
      BY <3>1, <3>2
  <2>4. \A i \in 0 .. taps - 1 : x'[i + taps] = x'[i]
    <3>. SUFFICES ASSUME NEW i \in 0 .. taps - 1 PROVE x'[i + taps] = x'[i]
      OBVIOUS
    <3>1. i \in 0 .. 2 * taps - 1 /\ i + taps \in 0 .. 2 * taps - 1
      BY SMT
    <3>2. x[i + taps] = x[i]
      BY <1>6 DEF DelayInv
    <3>5. PICK c \in 0 .. taps - 1 : c = cursor'
      BY <2>2
    <3>6. (i + taps = c + taps <=> i = c) /\ i + taps # c /\ i # c + taps
      BY SMT
    <3>3. i + taps = cursor' + taps <=> i = cursor'
      BY <3>5, <3>6
    <3>4. i + taps # cursor' /\ i # cursor' + taps
      BY <3>5, <3>6
    <3>. QED
      BY <2>3, <3>1, <3>2, <3>3, <3>4
  <2>5. ASSUME NEW t \in 1 .. taps PROVE x'[cursor' + t - 1] = Recent(t)'
    <3>1. CASE t = 1
      <4>1. cursor' + t - 1 = cursor'
        <5>1. PICK c \in 0 .. taps - 1 : c = cursor'
          BY <2>2
        <5>2. c + 1 - 1 = c
          BY SMT
        <5>. QED
          BY <3>1, <5>1, <5>2
      <4>. QED
        BY <1>3, <2>2, <2>3, <3>1, <4>1
    <3>2. CASE t # 1
      <4>1. t \in 2 .. taps /\ x[cursor + (t - 1) - 1] = Recent(t - 1)
        BY <3>2, SMT DEF DelayInv
      <4>2. CASE cursor # 0
        <5>1. cursor' + t - 1 = cursor + (t - 1) - 1 /\ cursor' + t - 1 \notin {cursor', cursor' + taps}
              /\ cursor' + t - 1 \in 0 .. 2 * taps - 1
          BY <2>1, <2>2, <3>2, <4>2, SMT
        <5>. QED
          BY <1>2, <2>3, <4>1, <5>1
      <4>3. CASE cursor = 0
        <5>1. /\ cursor' + t - 1 = (t - 2) + taps /\ cursor' + t - 1 \notin {cursor', cursor' + taps}
              /\ cursor' + t - 1 \in 0 .. 2 * taps - 1 /\ t - 2 \in 0 .. taps - 1
              /\ cursor + (t - 1) - 1 = t - 2
          BY <2>1, <2>2, <3>2, <4>3, SMT
        <5>2. x[(t - 2) + taps] = x[t - 2]
          BY <1>6, <5>1 DEF DelayInv
        <5>. QED
          BY <1>2, <2>3, <4>1, <5>1, <5>2
      <4>. QED
        BY <4>2, <4>3
    <3>. QED
      BY <3>1, <3>2
  <2>6. DelayInv'
    BY <1>1, <1>6, <2>4, <2>5 DEF DelayInv
  <2>. QED
    <3>1. phase' \in Nat /\ written' \in Nat
      BY <1>1, SMT
    <3>. QED
      BY <1>1, <1>4, <2>2, <2>3, <2>6, <3>1
<1>. QED
  BY <1>5, <1>6

(* A frame is read.                                                        *)
LEMMA ReadKeeps ==
  ASSUME ResamplerInv, Filter!ReadNextFrame
  PROVE  ResamplerInv'
<1>. USE DEF ResamplerInv, ResamplerTypeOK
<1>1. /\ phase' = phase + numerator
      /\ UNCHANGED <<way, taps, numerator, denominator, cursor, x, written>>
  BY DEF Filter!ReadNextFrame, Filter!filter
<1>2. DelayInv'
  BY <1>1 DEF DelayInv, Recent, Filter!LastWritten
<1>3. RowInv'
  <2>. SUFFICES ASSUME way = "polyphase" PROVE \E r \in 0 .. denominator - 1 : IsRow(r)'
    BY <1>1 DEF RowInv
  <2>1. PICK r \in 0 .. denominator - 1 : IsRow(r)
    BY DEF RowInv
  <2>2. PICK k \in Int : phase = r * numerator - k * denominator
    BY <2>1 DEF IsRow
  <2>3. coefficient' = (r * taps + taps) % (taps * denominator)
    BY <2>1 DEF IsRow, Filter!ReadNextFrame, Filter!AdvanceRow
  <2>7. r \in Int /\ numerator \in Int /\ denominator \in Int /\ taps \in Int
    BY SMT
  <2>4. /\ (r + 1) * taps = r * taps + taps /\ (r + 1) * numerator = r * numerator + numerator
        /\ r * taps \in Int /\ r * numerator \in Int /\ k * denominator \in Int /\ taps * denominator \in Nat \ {0}
    BY <2>7, OneMore, Product
  <2>5. CASE r + 1 < denominator
    <3>1. r + 1 \in 0 .. denominator - 1
      BY <2>5, SMT
    <3>2. 0 =< (r + 1) * taps /\ (r + 1) * taps < taps * denominator
      <4>1. (denominator - (r + 1)) * taps > 0
        BY <2>5, SMT
      <4>2. (denominator - (r + 1)) * taps = taps * denominator - (r + 1) * taps
        BY SMT
      <4>3. (r + 1) * taps >= 0 /\ (r + 1) * taps \in Int
        BY SMT
      <4>. QED
        BY <2>4, <4>1, <4>2, <4>3, SMT
    <3>3. coefficient' = (r + 1) * taps
      <4>1. PICK m \in Nat \ {0} : m = taps * denominator
        BY <2>4
      <4>2. PICK a \in Int : a = r * taps + taps
        BY <2>4, <2>7, SMT
      <4>3. a \in 0 .. m - 1
        BY <2>4, <3>2, <4>1, <4>2, SMT
      <4>. QED
        BY <2>3, <2>4, <4>1, <4>2, <4>3, SmallRemainder
    <3>4. phase' = (r + 1) * numerator - k * denominator
      <4>1. PICK a \in Int, b \in Int : a = r * numerator /\ b = k * denominator
        BY <2>4
      <4>2. (a - b) + numerator = (a + numerator) - b
        BY SMT
      <4>. QED
        BY <1>1, <2>2, <2>4, <4>1, <4>2
    <3>5. IsRow(r + 1)'
      BY <1>1, <3>1, <3>3, <3>4 DEF IsRow
    <3>. QED
      BY <3>1, <3>5
  <2>6. CASE r + 1 = denominator
    <3>1. 0 \in 0 .. denominator - 1 /\ k - numerator \in Int
      BY SMT
    <3>2. coefficient' = 0 * taps
      <4>1. r * taps + taps = taps * denominator
        BY <2>4, <2>6, SMT
      <4>. QED
        BY <2>3, <2>4, <2>7, <4>1, SmallRemainder, OneMore
    <3>3. phase' = 0 * numerator - (k - numerator) * denominator
      <4>1. phase' = denominator * numerator - k * denominator
        <5>1. PICK a \in Int, b \in Int : a = r * numerator /\ b = k * denominator
          BY <2>4
        <5>2. denominator * numerator = a + numerator
          BY <2>4, <2>6, <5>1
        <5>3. (a - b) + numerator = (a + numerator) - b
          BY SMT
        <5>. QED
          BY <1>1, <2>2, <5>1, <5>2, <5>3
      <4>2. (k - numerator) * denominator = k * denominator - numerator * denominator
        BY <2>7, LessTimes
      <4>3. denominator * numerator = numerator * denominator /\ 0 * numerator = 0
        BY SMT
      <4>4. PICK a \in Int, b \in Int : a = numerator * denominator /\ b = k * denominator
        BY <2>4, <2>7, OneMore
      <4>5. a - b = 0 - (b - a)
        BY SMT
      <4>. QED
        BY <4>1, <4>2, <4>3, <4>4, <4>5
    <3>4. IsRow(0)'
      BY <1>1, <3>1, <3>2, <3>3 DEF IsRow
    <3>. QED
      BY <3>1, <3>4
  <2>. QED
    BY <2>5, <2>6, SMT
<1>. QED
  BY <1>1, <1>2, <1>3, SMT

LEMMA ResamplerKeeps ==
  ASSUME ResamplerInv, Filter!Next
  PROVE  ResamplerInv'
BY WriteKeeps, ReadKeeps DEF Filter!Next

(* Division with remainder has one outcome.                                *)
LEMMA RemainderIs ==
  ASSUME NEW m \in Nat \ {0}, NEW a \in Int, NEW k \in Int, NEW p \in 0 .. m - 1, p = a - k * m
  PROVE  a % m = p
<1>1. PICK q \in Int, r \in 0 .. m - 1 : r = a % m /\ a = m * q + r
  <2>1. a = m * (a \div m) + (a % m) /\ a \div m \in Int /\ a % m \in 0 .. m - 1
    BY Division
  <2>. QED
    BY <2>1
<1>2. m * q \in Int /\ k * m \in Int
  BY SMT
<1>3. (q - k) * m = p - r
  <2>1. (q - k) * m = m * q - k * m
    BY SMT
  <2>2. PICK b \in Int, c \in Int : b = m * q /\ c = k * m
    BY <1>2
  <2>3. a = b + r /\ p = a - c
    BY <1>1, <2>2
  <2>4. b - c = p - r
    BY <2>3, SMT
  <2>. QED
    BY <2>1, <2>2, <2>4
<1>4. q = k
  <2>1. ~(q - k >= 1)
    <3>1. SUFFICES ASSUME q - k >= 1 PROVE FALSE
      OBVIOUS
    <3>2. (q - k) * m >= m
      BY <3>1, SMT
    <3>. QED
      BY <1>3, <3>2, SMT
  <2>2. ~(q - k =< -1)
    <3>1. SUFFICES ASSUME q - k =< -1 PROVE FALSE
      OBVIOUS
    <3>2. (q - k) * m =< -m
      BY <3>1, SMT
    <3>. QED
      BY <1>3, <3>2, SMT
  <2>. QED
    BY <2>1, <2>2, SMT
<1>5. (q - k) * m = 0
  BY <1>4, SMT
<1>. QED
  BY <1>1, <1>3, <1>5, SMT

LEMMA ResamplerSafe == ResamplerInv => Filter!FilterInPlace
<1>. SUFFICES ASSUME ResamplerInv, ~Filter!IsWriteNeeded PROVE Filter!FilterInPlace
  BY DEF Filter!FilterInPlace
<1>. USE DEF ResamplerInv, ResamplerTypeOK
<1>1. phase \in 0 .. denominator - 1
  BY SMT DEF Filter!IsWriteNeeded
<1>2. Filter!Window = [t \in 1 .. taps |-> Filter!LastWritten(t)]
  BY DEF DelayInv, Filter!Window, Recent
<1>3. ASSUME way = "polyphase" PROVE Filter!RowPhase(coefficient \div taps) = phase
  <2>1. PICK r \in 0 .. denominator - 1 : IsRow(r)
    BY <1>3 DEF RowInv
  <2>2. PICK k \in Int : phase = r * numerator - k * denominator
    BY <2>1 DEF IsRow
  <2>3. (r * taps) \div taps = r
    BY SMT
  <2>4. r * numerator \in Int
    BY SMT
  <2>5. (r * numerator) % denominator = phase
    BY <1>1, <2>2, <2>4, RemainderIs
  <2>. QED
    BY <2>1, <2>3, <2>5 DEF IsRow, Filter!RowPhase
<1>4. ASSUME way = "sinc"
      PROVE  /\ Filter!IndexHigh < Filter!Rows
             /\ Filter!IndexLow * denominator =< phase * (Filter!Rows - 1)
             /\ phase * (Filter!Rows - 1) < Filter!IndexHigh * denominator
  <2>1. PICK steps \in Nat : steps = Filter!Rows - 1 /\ steps >= 1 /\ Filter!Rows \in Nat
    <3>1. 2 * taps =< MaxCoefficients /\ MaxCoefficients \in Nat
      BY RatesAssumption
    <3>2. MaxCoefficients \div taps >= 2 /\ MaxCoefficients \div taps \in Nat
      BY <3>1, SMT
    <3>. QED
      BY <3>2, SMT DEF Filter!Rows
  <2>2. PICK total \in Nat : total = phase * steps
    BY SMT
  <2>3. PICK low \in Int : low = total \div denominator
    BY SMT
  <2>4. low * denominator =< total /\ total < (low + 1) * denominator
    <3>0. denominator \in Nat \ {0} /\ total \in Int
      BY SMT
    <3>7. /\ total = denominator * (total \div denominator) + (total % denominator)
          /\ total % denominator \in 0 .. denominator - 1
      BY <3>0, Division
    <3>1. total = denominator * low + (total % denominator) /\ total % denominator \in 0 .. denominator - 1
      BY <2>3, <3>7
    <3>2. PICK a \in Int : a = denominator * low
      BY SMT
    <3>3. low * denominator = a /\ (low + 1) * denominator = a + denominator
      BY <3>2, SMT
    <3>4. PICK r \in 0 .. denominator - 1 : r = total % denominator
      BY <3>1
    <3>5. total = a + r
      BY <3>1, <3>2, <3>4
    <3>6. a =< total /\ total < a + denominator
      BY <3>0, <3>5, SMT
    <3>. QED
      BY <3>3, <3>6
  <2>5. total < steps * denominator
    <3>1. (denominator - phase) * steps > 0
      <4>1. denominator - phase \in Nat \ {0} /\ steps \in Nat \ {0}
        BY <1>1, <2>1, SMT
      <4>. QED
        BY <4>1, Product, SMT
    <3>2. (denominator - phase) * steps = steps * denominator - phase * steps
      BY SMT
    <3>3. steps * denominator \in Nat
      BY SMT
    <3>. QED
      BY <2>2, <3>1, <3>2, <3>3, SMT
  <2>6. low < steps
    <3>1. SUFFICES ASSUME low >= steps PROVE FALSE
      BY SMT
    <3>2. (low - steps) * denominator >= 0
      BY <3>1, SMT
    <3>3. (low - steps) * denominator = low * denominator - steps * denominator
      BY LessTimes, SMT
    <3>4. PICK a \in Int, b \in Int : a = low * denominator /\ b = steps * denominator
      BY SMT
    <3>5. a < b
      <4>1. a =< total /\ total < b
        BY <2>4, <2>5, <3>4
      <4>. QED
        BY <4>1, SMT
    <3>6. a - b >= 0
      BY <3>2, <3>3, <3>4
    <3>. QED
      BY <3>5, <3>6, SMT
  <2>7. Filter!Rows - 1 = steps /\ Filter!IndexLow = low /\ Filter!IndexHigh = low + 1
    BY <2>1, <2>2, <2>3 DEF Filter!IndexLow, Filter!IndexHigh
  <2>8. low + 1 < Filter!Rows
    BY <2>1, <2>6, SMT
  <2>. QED
    BY <2>2, <2>4, <2>7, <2>8
<1>. QED
  BY <1>2, <1>3, <1>4 DEF Filter!FilterInPlace

-----------------------------------------------------------------------------
(* The graph that frames are pulled through.                               *)
Count(n) == lastCall[n]
SinkCount == lastCall[Flow!TheSink]
OnStack(n) == \E i \in DOMAIN stack : stack[i].node = n
Done(n) == lastCall[n] = SinkCount /\ SinkCount # -1 /\ ~OnStack(n)
Entry == [node : Flow!Nodes, count : Int, port : Nat \ {0}, frames : Nat]

FlowTypeOK ==
  /\ graph \in Graphs
  /\ lastCall \in [Flow!Nodes -> Int] /\ lastFrames \in [Flow!Nodes -> Nat] /\ left \in [Flow!Nodes -> Nat]
  /\ stack \in Seq(Entry)
  /\ answer \in Nat \cup {Flow!None}
  /\ {wanted, put, given} \subseteq Int
  /\ processed \subseteq Flow!Nodes

(* Who has a count can be reached from the sink, and none is ahead of it.  *)
CountedInv ==
  \A n \in Flow!Nodes : /\ -1 =< lastCall[n] /\ lastCall[n] =< SinkCount
                        /\ lastCall[n] # -1 => n \in Flow!Upstream

(* Who is on the stack has the count of this pull, once.                   *)
StackInv ==
  /\ stack # <<>> => SinkCount # -1
  /\ \A i \in DOMAIN stack : stack[i].count = SinkCount /\ lastCall[stack[i].node] = SinkCount
  /\ \A i, j \in DOMAIN stack : i # j => stack[i].node # stack[j].node

(* A node waits for the port that it pulls.                                *)
PortInv ==
  /\ \A i \in DOMAIN stack : stack[i].port =< Len(graph[stack[i].node]) + 1
  /\ \A i \in DOMAIN stack : i # Len(stack) => /\ stack[i].port =< Len(graph[stack[i].node])
                                               /\ stack[i + 1].node = graph[stack[i].node][stack[i].port]
  /\ stack # <<>> /\ answer # Flow!None => Flow!Top.port =< Len(Flow!Inputs)

(* Who has processed has the count and has left the stack.                 *)
ProcessedInv == \A n \in processed : lastCall[n] = SinkCount /\ ~OnStack(n)

(* In a simple graph all nodes that are done in this pull made as many     *)
(* frames as the source, and these are those that are on their way.        *)
InTransit == IF (stack # <<>> \/ answer # Flow!None) /\ Done(1) THEN lastFrames[1] ELSE 0

SimpleInv ==
  /\ \A i, j \in DOMAIN stack : i < j => stack[i].node > stack[j].node
  /\ \A n \in Flow!Nodes : Done(n) => Done(1) /\ lastFrames[n] = lastFrames[1]
  /\ \A i \in DOMAIN stack :
       stack[i].port > 1 => /\ Done(1) /\ stack[i].frames = lastFrames[1]
                            /\ \A k \in 1 .. stack[i].port - 1 : Done(graph[stack[i].node][k])
  /\ answer # Flow!None => Done(1) /\ answer = lastFrames[1]
  /\ stack # <<>> /\ answer # Flow!None => Done(Flow!Inputs[Flow!Top.port])
  /\ put = given + left[1] + InTransit

CountsInv == CountedInv /\ StackInv /\ PortInv /\ ProcessedInv

FlowInv == FlowTypeOK /\ CountsInv /\ (Flow!Simple => SimpleInv)

USE DEF SinkCount

LEMMA TheGraph ==
  ASSUME graph \in Graphs
  PROVE  /\ Flow!TheSink \in Nat \ {0} /\ Flow!Nodes = 1 .. Flow!TheSink
         /\ Flow!TheSink \in Flow!Nodes /\ 1 \in Flow!Nodes
         /\ \A n \in Flow!Nodes : /\ graph[n] \in Seq(Nat) /\ DOMAIN graph[n] = 1 .. Len(graph[n])
                                  /\ Len(graph[n]) \in Nat
                                  /\ \A i \in DOMAIN graph[n] : graph[n][i] \in {0} \cup Flow!Nodes
BY GraphsAssumption, SMT DEF Flow!TheSink, Flow!Nodes

LEMMA UpstreamClosed ==
  ASSUME graph \in Graphs
  PROVE  /\ Flow!TheSink \in Flow!Upstream
         /\ \A n \in Flow!Upstream : \A i \in DOMAIN graph[n] :
              graph[n][i] # Flow!Open => graph[n][i] \in Flow!Upstream
<1>1. Flow!TheSink \in Flow!Upstream
  BY TheGraph DEF Flow!Upstream
<1>2. ASSUME NEW n \in Flow!Upstream, NEW i \in DOMAIN graph[n], graph[n][i] # Flow!Open
      PROVE  graph[n][i] \in Flow!Upstream
  <2>1. n \in Flow!Nodes /\ graph[n][i] \in Flow!Nodes
    BY <1>2, TheGraph DEF Flow!Upstream, Flow!Open
  <2>2. \A s \in SUBSET Flow!Nodes : Flow!TheSink \in s /\ Flow!WithInputs(s) => graph[n][i] \in s
    BY <1>2 DEF Flow!Upstream, Flow!WithInputs
  <2>. QED
    BY <2>1, <2>2 DEF Flow!Upstream
<1>. QED
  BY <1>1, <1>2

LEMMA Sequence ==
  ASSUME NEW Entries, NEW q \in Seq(Entries)
  PROVE  /\ Len(q) \in Nat /\ DOMAIN q = 1 .. Len(q)
         /\ q # <<>> <=> Len(q) # 0
         /\ \A i \in DOMAIN q : q[i] \in Entries
BY SMT

(* The stack after a push and after a pop.                                 *)
LEMMA Pushed ==
  ASSUME stack \in Seq(Entry), NEW e \in Entry, stack' = Append(stack, e)
  PROVE  /\ DOMAIN stack' = DOMAIN stack \cup {Len(stack) + 1} /\ Len(stack') = Len(stack) + 1
         /\ stack'[Len(stack) + 1] = e /\ \A i \in DOMAIN stack : stack'[i] = stack[i] /\ i < Len(stack) + 1
         /\ stack' # <<>> /\ DOMAIN stack = 1 .. Len(stack) /\ Len(stack) \in Nat
BY SMT

LEMMA Popped ==
  ASSUME stack \in Seq(Entry), stack # <<>>, stack' = Flow!Below
  PROVE  /\ Len(stack') = Len(stack) - 1 /\ DOMAIN stack' = 1 .. Len(stack) - 1
         /\ \A i \in DOMAIN stack' : stack'[i] = stack[i] /\ i \in DOMAIN stack /\ i < Len(stack)
         /\ DOMAIN stack = DOMAIN stack' \cup {Len(stack)} /\ Len(stack) \in Nat \ {0}
         /\ Len(stack) \in DOMAIN stack /\ Len(stack) \notin DOMAIN stack'
         /\ Flow!Top \in Entry /\ Flow!Top = stack[Len(stack)]
         /\ stack' \in Seq(Entry)
<1>1. Len(stack) \in Nat \ {0} /\ DOMAIN stack = 1 .. Len(stack) /\ Flow!Top = stack[Len(stack)]
  BY SMT DEF Flow!Top
<1>2. Flow!Top \in Entry
  BY <1>1, SMT
<1>3. Len(stack') = Len(stack) - 1 /\ DOMAIN stack' = 1 .. Len(stack) - 1
  BY <1>1, SMT DEF Flow!Below
<1>4. \A i \in 1 .. Len(stack) - 1 : stack'[i] = stack[i]
  BY <1>1, SMT DEF Flow!Below
<1>5. stack' \in Seq(Entry)
  BY <1>1, SMT DEF Flow!Below
<1>. QED
  BY <1>1, <1>2, <1>3, <1>4, <1>5, SMT

LEMMA TopChanged ==
  ASSUME stack \in Seq(Entry), stack # <<>>, NEW e \in Entry, stack' = Append(Flow!Below, e)
  PROVE  /\ Len(stack') = Len(stack) /\ DOMAIN stack' = DOMAIN stack /\ stack' # <<>>
         /\ Flow!Top \in Entry /\ Flow!Top = stack[Len(stack)]
         /\ Len(stack) \in DOMAIN stack /\ Len(stack) \in Nat
         /\ stack'[Len(stack)] = e
         /\ \A i \in DOMAIN stack : i # Len(stack) => stack'[i] = stack[i]
         /\ stack' \in Seq(Entry)
<1>1. Len(stack) \in Nat \ {0} /\ DOMAIN stack = 1 .. Len(stack) /\ Len(stack) \in DOMAIN stack /\ Flow!Top = stack[Len(stack)]
  BY SMT DEF Flow!Top
<1>2. Flow!Top \in Entry
  BY <1>1, SMT
<1>. DEFINE b == Flow!Below
<1>3. /\ b \in Seq(Entry) /\ Len(b) = Len(stack) - 1
      /\ \A i \in 1 .. Len(stack) - 1 : b[i] = stack[i]
  BY <1>1, SMT DEF Flow!Below
<1>4. stack' = Append(b, e)
  OBVIOUS
<1>. HIDE DEF b
<1>8. /\ Append(b, e) \in Seq(Entry) /\ Len(Append(b, e)) = Len(b) + 1
      /\ Append(b, e)[Len(b) + 1] = e /\ \A i \in 1 .. Len(b) : Append(b, e)[i] = b[i]
  BY <1>3, SMT
<1>9. Len(b) + 1 = Len(stack)
  BY <1>1, <1>3, SMT
<1>5. /\ stack' \in Seq(Entry) /\ Len(stack') = Len(stack) /\ stack'[Len(stack)] = e
      /\ \A i \in 1 .. Len(stack) - 1 : stack'[i] = b[i]
  BY <1>3, <1>4, <1>8, <1>9
<1>6. DOMAIN stack' = 1 .. Len(stack) /\ stack' # <<>>
  BY <1>1, <1>5, Sequence
<1>7. \A i \in DOMAIN stack : i # Len(stack) => stack'[i] = stack[i]
  BY <1>1, <1>3, <1>5, SMT
<1>. QED
  BY <1>1, <1>2, <1>5, <1>6, <1>7

-----------------------------------------------------------------------------
(* The steps.                                                              *)
LEMMA FlowStarts == Flow!Init => FlowInv
<1>. SUFFICES ASSUME Flow!Init PROVE FlowInv
  OBVIOUS
<1>. USE DEF Flow!Init
<1>1. FlowTypeOK
  BY SMT DEF FlowTypeOK, Flow!None
<1>2. CountsInv
  BY TheGraph, SMT DEF CountsInv, CountedInv, StackInv, PortInv, ProcessedInv, OnStack
<1>3. SimpleInv
  BY TheGraph, SMT DEF SimpleInv, InTransit, Done, Flow!None
<1>. QED
  BY <1>1, <1>2, <1>3 DEF FlowInv

LEMMA SinkPullDataKeeps ==
  ASSUME FlowInv, Flow!SinkPullData
  PROVE  FlowInv'
<1>. DEFINE e == [node |-> Flow!TheSink, count |-> SinkCount + 1, port |-> 1, frames |-> wanted]
<1>0. graph \in Graphs /\ FlowTypeOK /\ CountsInv
  BY DEF FlowInv, FlowTypeOK
<1>1. /\ stack = <<>> /\ lastCall' = [lastCall EXCEPT ![Flow!TheSink] = SinkCount + 1]
      /\ stack' = Append(stack, e) /\ answer' = Flow!None /\ processed' = {}
      /\ UNCHANGED <<graph, lastFrames, left, wanted, reads, put, given>>
      /\ SinkCount \in Int
  BY <1>0, TheGraph, SMT DEF Flow!SinkPullData, Flow!PullData, FlowTypeOK
<1>2. e \in Entry
  BY <1>0, <1>1, TheGraph, SMT DEF Flow!SinkPullData, Entry, FlowTypeOK
<1>3. stack' = <<e>> /\ DOMAIN stack' = {1} /\ Len(stack') = 1 /\ stack'[1] = e /\ stack' \in Seq(Entry)
  BY <1>1, <1>2, SMT
<1>4. lastCall'[Flow!TheSink] = SinkCount + 1 /\ \A n \in Flow!Nodes \ {Flow!TheSink} : lastCall'[n] = lastCall[n]
  BY <1>0, <1>1, TheGraph DEF FlowTypeOK
<1>5. /\ Flow!Nodes' = Flow!Nodes /\ Flow!TheSink' = Flow!TheSink /\ Flow!Upstream' = Flow!Upstream
      /\ Flow!Simple' = Flow!Simple /\ Entry' = Entry
  BY <1>1 DEF Flow!Nodes, Flow!TheSink, Flow!Upstream, Flow!WithInputs, Flow!Simple, Flow!Sources, Entry
<1>6. FlowTypeOK'
  BY <1>0, <1>1, <1>3, <1>5, TheGraph, SMT DEF FlowTypeOK
<1>7. CountsInv'
  <2>1. CountedInv'
    <3>1. Flow!TheSink \in Flow!Nodes /\ Flow!TheSink \in Flow!Upstream
      BY <1>0, TheGraph, UpstreamClosed
    <3>2. -1 =< SinkCount /\ SinkCount \in Int
      BY <1>0, <1>1, <3>1 DEF CountsInv, CountedInv
    <3>3. -1 =< SinkCount + 1 /\ SinkCount + 1 =< SinkCount + 1
      BY <3>2, SMT
    <3>4. ASSUME NEW k \in Flow!Nodes \ {Flow!TheSink}
          PROVE  -1 =< lastCall[k] /\ lastCall[k] =< SinkCount + 1 /\ (lastCall[k] # -1 => k \in Flow!Upstream)
      <4>1. -1 =< lastCall[k] /\ lastCall[k] =< SinkCount /\ (lastCall[k] # -1 => k \in Flow!Upstream)
        BY <1>0 DEF CountsInv, CountedInv
      <4>2. lastCall[k] \in Int
        BY <1>0 DEF FlowTypeOK
      <4>. QED
        BY <3>2, <4>1, <4>2, SMT
    <3>. QED
      BY <1>4, <1>5, <3>1, <3>3, <3>4 DEF CountedInv
  <2>2. StackInv'
    BY <1>0, <1>1, <1>3, <1>4, <1>5, TheGraph, SMT DEF CountsInv, CountedInv, StackInv
  <2>3. PortInv'
    BY <1>0, <1>1, <1>3, <1>5, TheGraph, SMT DEF PortInv
  <2>4. ProcessedInv'
    BY <1>1 DEF ProcessedInv
  <2>. QED
    BY <2>1, <2>2, <2>3, <2>4 DEF CountsInv
<1>8. ASSUME Flow!Simple PROVE SimpleInv'
  <2>1. \A n \in Flow!Nodes : ~Done(n)'
    BY <1>0, <1>1, <1>3, <1>4, <1>5, TheGraph, SMT DEF Done, OnStack, CountsInv, CountedInv, FlowTypeOK
  <2>2. put = given + left[1]
    <3>1. InTransit = 0
      BY DEF InTransit, Flow!SinkPullData
    <3>2. put = given + left[1] + InTransit
      BY <1>8 DEF FlowInv, SimpleInv
    <3>. QED
      BY <1>0, <3>1, <3>2, TheGraph, SMT DEF FlowTypeOK
  <2>3. InTransit' = 0
    BY <1>5, <2>1, TheGraph, <1>0 DEF InTransit
  <2>4. given' + left'[1] + 0 = put'
    BY <1>0, <1>1, <2>2, TheGraph, SMT DEF FlowTypeOK
  <2>. QED
    BY <1>1, <1>3, <1>5, <2>1, <2>3, <2>4, TheGraph, SMT DEF SimpleInv
<1>. QED
  BY <1>5, <1>6, <1>7, <1>8 DEF FlowInv

(* A port pulls: it is open, its node has the count already, or the node   *)
(* goes on the stack.                                                      *)
LEMMA InputPullDataKeeps ==
  ASSUME FlowInv, Flow!InputPullData
  PROVE  FlowInv'
<1>. DEFINE top == Flow!Top
            n == Len(stack)
            from == graph[top.node][top.port]
            amount == Flow!Lesser(Buffer, top.frames)
            e == [node |-> from, count |-> top.count, port |-> 1, frames |-> amount]
<1>0. graph \in Graphs /\ FlowTypeOK /\ CountsInv
  BY DEF FlowInv, FlowTypeOK
<1>1. /\ stack # <<>> /\ answer = Flow!None /\ top.port =< Len(graph[top.node])
      /\ UNCHANGED <<graph, lastFrames, left, wanted, processed, reads, put, given>>
  BY DEF Flow!InputPullData, Flow!Inputs
<1>2. /\ n \in Nat /\ n # 0 /\ DOMAIN stack = 1 .. n /\ n \in DOMAIN stack /\ top = stack[n] /\ top \in Entry
      /\ \A i \in DOMAIN stack : stack[i] \in Entry
  BY <1>0, <1>1, Sequence, SMT DEF FlowTypeOK, Flow!Top
<1>3. /\ top.node \in Flow!Nodes /\ top.port \in DOMAIN graph[top.node] /\ from \in {0} \cup Flow!Nodes
      /\ amount \in Nat /\ top.count = SinkCount /\ SinkCount \in Int /\ Flow!Nodes \subseteq Nat
  <2>1. top.node \in Flow!Nodes /\ top.count \in Int /\ top.port \in Nat \ {0} /\ top.frames \in Nat
    BY <1>2 DEF Entry
  <2>2. top.count = SinkCount
    BY <1>0, <1>2 DEF CountsInv, StackInv
  <2>3. amount \in Nat
    BY <2>1, GraphsAssumption, SMT DEF Flow!Lesser
  <2>4. Len(graph[top.node]) \in Nat /\ DOMAIN graph[top.node] = 1 .. Len(graph[top.node])
    BY <1>0, <2>1, TheGraph
  <2>5. top.port \in DOMAIN graph[top.node]
    BY <1>1, <2>1, <2>4, SMT
  <2>6. from \in {0} \cup Flow!Nodes
    BY <1>0, <2>1, <2>5, TheGraph
  <2>7. Flow!Nodes \subseteq Nat
    BY <1>0, TheGraph, SMT
  <2>. QED
    BY <2>1, <2>2, <2>3, <2>5, <2>6, <2>7
<1>12. /\ from = graph[top.node][top.port] /\ top = Flow!Top /\ n = Len(stack)
       /\ \A i \in DOMAIN stack : stack[i].node \in Flow!Nodes /\ stack[i].node \in Nat
  BY <1>2, <1>3 DEF Entry
<1>13. from # 0 => e \in Entry
  BY <1>3, SMT DEF Entry
<1>10. lastCall[from] \in Int \/ from = 0
  BY <1>0, <1>3 DEF FlowTypeOK
<1>11. e.node = from /\ e.count = top.count /\ e.port = 1 /\ e.frames = amount
  OBVIOUS
<1>4. \/ from = Flow!Open /\ answer' = amount /\ UNCHANGED <<lastCall, stack>>
      \/ /\ from \in Flow!Nodes /\ lastCall[from] >= SinkCount
         /\ answer' = lastFrames[from] /\ UNCHANGED <<lastCall, stack>>
      \/ /\ from \in Flow!Nodes /\ lastCall[from] < SinkCount
         /\ answer' = Flow!None /\ stack' = Append(stack, e) /\ lastCall' = [lastCall EXCEPT ![from] = SinkCount]
  <2>1. \/ from = Flow!Open /\ answer' = amount /\ UNCHANGED <<lastCall, stack>>
        \/ from # Flow!Open /\ Flow!PullData(from, amount, top.count)
    BY DEF Flow!InputPullData, Flow!Inputs
  <2>2. ASSUME from # Flow!Open, Flow!PullData(from, amount, SinkCount)
        PROVE  \/ /\ from \in Flow!Nodes /\ ~(SinkCount > lastCall[from])
                  /\ answer' = lastFrames[from] /\ UNCHANGED <<lastCall, stack>>
               \/ /\ from \in Flow!Nodes /\ SinkCount > lastCall[from]
                  /\ answer' = Flow!None /\ stack' = Append(stack, e) /\ lastCall' = [lastCall EXCEPT ![from] = SinkCount]
    BY <1>3, <2>2 DEF Flow!PullData, Flow!Open
  <2>. QED
    BY <1>3, <1>10, <2>1, <2>2, SMT DEF Flow!Open
<1>. HIDE DEF top, n, from, amount, e
<1>5. /\ Flow!Nodes' = Flow!Nodes /\ Flow!TheSink' = Flow!TheSink /\ Flow!Upstream' = Flow!Upstream
      /\ Flow!Simple' = Flow!Simple /\ Entry' = Entry
  BY <1>1 DEF Flow!Nodes, Flow!TheSink, Flow!Upstream, Flow!WithInputs, Flow!Simple, Flow!Sources, Entry
<1>14. ASSUME SimpleInv, NEW i \in DOMAIN stack
       PROVE  stack[i].node >= top.node
  <2>1. stack[i].node \in Nat /\ top.node \in Nat
    BY <1>2, <1>12
  <2>2. CASE i = n
    <3>1. stack[i].node = top.node
      BY <1>2, <2>2
    <3>. QED
      BY <2>1, <3>1, SMT
  <2>3. CASE i # n
    <3>1. i < n
      BY <1>2, <2>3, SMT
    <3>2. stack[i].node > top.node
      BY <1>2, <1>14, <3>1 DEF SimpleInv
    <3>. QED
      BY <2>1, <3>2, SMT
  <2>. QED
    BY <2>2, <2>3
<1>6. ASSUME UNCHANGED <<lastCall, stack>>, answer' \in Nat
      PROVE  FlowTypeOK' /\ CountsInv'
  <2>1. FlowTypeOK'
    BY <1>0, <1>1, <1>5, <1>6 DEF FlowTypeOK
  <2>2. CountedInv' /\ StackInv' /\ ProcessedInv'
    BY <1>0, <1>1, <1>5, <1>6 DEF CountsInv, CountedInv, StackInv, ProcessedInv, OnStack
  <2>3. PortInv'
    BY <1>0, <1>1, <1>5, <1>6, <1>12 DEF CountsInv, PortInv, Flow!Top, Flow!Inputs
  <2>. QED
    BY <2>1, <2>2, <2>3 DEF CountsInv
<1>7. CASE from = Flow!Open /\ answer' = amount /\ UNCHANGED <<lastCall, stack>>
  <2>1. ~Flow!Simple
    BY <1>3, <1>11, <1>12, <1>7 DEF Flow!Simple
  <2>. QED
    BY <1>3, <1>11, <1>12, <1>5, <1>6, <1>7, <2>1 DEF FlowInv
<1>8. CASE /\ from \in Flow!Nodes /\ lastCall[from] >= SinkCount
           /\ answer' = lastFrames[from] /\ UNCHANGED <<lastCall, stack>>
  <2>1. answer' \in Nat
    BY <1>0, <1>8 DEF FlowTypeOK
  <2>2. ASSUME Flow!Simple PROVE SimpleInv'
    <3>1. SimpleInv
      BY <2>2 DEF FlowInv
    <3>2. from < top.node
      BY <1>3, <1>11, <1>12, <2>2 DEF Flow!Simple
    <3>3. \A i \in DOMAIN stack : stack[i].node >= top.node
      BY <1>14, <3>1
    <3>4. ~OnStack(from)
      BY <1>0, <1>2, <1>3, <1>11, <1>12, <3>2, <3>3, <1>8, TheGraph, SMT DEF OnStack, Entry
    <3>5. lastCall[from] = SinkCount /\ SinkCount # -1
      <4>1. SinkCount # -1
        BY <1>0, <1>1 DEF CountsInv, StackInv
      <4>2. lastCall[from] =< SinkCount /\ lastCall[from] \in Int
        BY <1>0, <1>8 DEF CountsInv, CountedInv, FlowTypeOK
      <4>. QED
        BY <1>3, <1>8, <4>1, <4>2, SMT
    <3>6. Done(from)
      BY <3>4, <3>5 DEF Done
    <3>7. Done(1) /\ answer' = lastFrames[1]
      BY <1>8, <3>1, <3>6 DEF SimpleInv
    <3>8. \A k \in Flow!Nodes : Done(k)' = Done(k)
      BY <1>5, <1>8 DEF Done, OnStack
    <3>9. InTransit = lastFrames[1] /\ InTransit' = lastFrames[1]
      BY <1>0, <1>1, <1>8, <3>7, <3>8, TheGraph DEF InTransit
    <3>10. put' = given' + left'[1] + InTransit'
      BY <1>1, <3>1, <3>9 DEF SimpleInv
    <3>11. Done(Flow!Inputs[Flow!Top.port])'
      BY <1>1, <1>3, <1>11, <1>12, <1>8, <3>6, <3>8 DEF Flow!Inputs, Flow!Top
    <3>12. \A i \in DOMAIN stack' :
             stack'[i].port > 1 => /\ Done(1)' /\ stack'[i].frames = lastFrames'[1]
                                   /\ \A k \in 1 .. stack'[i].port - 1 : Done(graph[stack[i].node][k])'
      BY <1>1, <1>5, <1>8, <3>1 DEF SimpleInv, Done, OnStack
    <3>13. \A k \in Flow!Nodes' : Done(k)' => Done(1)' /\ lastFrames'[k] = lastFrames'[1]
      BY <1>1, <1>5, <1>8, <3>1 DEF SimpleInv, Done, OnStack
    <3>14. Done(1)' /\ answer' = lastFrames'[1]
      BY <1>0, <1>1, <3>7, <3>8, TheGraph
    <3>15. \A i, j \in DOMAIN stack' : i < j => stack'[i].node > stack'[j].node
      BY <1>8, <3>1 DEF SimpleInv
    <3>. QED
      BY <1>1, <1>8, <3>10, <3>11, <3>12, <3>13, <3>14, <3>15 DEF SimpleInv
  <2>. QED
    BY <1>5, <1>6, <1>8, <2>1, <2>2 DEF FlowInv
<1>9. CASE /\ from \in Flow!Nodes /\ lastCall[from] < SinkCount
           /\ answer' = Flow!None /\ stack' = Append(stack, e) /\ lastCall' = [lastCall EXCEPT ![from] = SinkCount]
  <2>1. e \in Entry
    <3>1. 0 \notin Flow!Nodes
      BY <1>0, TheGraph, SMT
    <3>. QED
      BY <1>9, <1>13, <3>1
  <2>2. /\ DOMAIN stack' = DOMAIN stack \cup {n + 1} /\ Len(stack') = n + 1 /\ n + 1 \notin DOMAIN stack
        /\ stack'[n + 1] = e /\ \A i \in DOMAIN stack : stack'[i] = stack[i] /\ i < n + 1
        /\ stack' \in Seq(Entry) /\ stack' # <<>>
    <3>. HIDE DEF e
    <3>. QED
      BY <1>0, <1>2, <1>9, <2>1, Pushed, SMT DEF FlowTypeOK
  <2>3. lastCall'[from] = SinkCount /\ \A k \in Flow!Nodes \ {from} : lastCall'[k] = lastCall[k]
    BY <1>0, <1>9 DEF FlowTypeOK
  <2>4. SinkCount' = SinkCount /\ SinkCount # -1
    BY <1>0, <1>1, <1>3, <1>11, <1>12, <1>5, <1>9, <2>3, TheGraph, SMT DEF CountsInv, StackInv, FlowTypeOK
  <2>5. \A i \in DOMAIN stack : stack[i].node # from
    BY <1>0, <1>9, <1>3, <1>11, <1>12, SMT DEF CountsInv, StackInv
  <2>6. FlowTypeOK'
    <3>1. lastCall' \in [Flow!Nodes -> Int]
      BY <1>0, <1>3, <1>9 DEF FlowTypeOK
    <3>. QED
      BY <1>0, <1>1, <1>5, <1>9, <2>2, <3>1 DEF FlowTypeOK
  <2>7. CountedInv'
    <3>1. lastCall[top.node] = SinkCount
      BY <1>0, <1>2 DEF CountsInv, StackInv
    <3>2. from \in Flow!Upstream
      <4>1. top.node \in Flow!Upstream
        BY <1>0, <1>3, <2>4, <3>1 DEF CountsInv, CountedInv
      <4>2. from # 0
        BY <1>3, <1>9, <1>0, TheGraph, SMT
      <4>. QED
        BY <1>0, <1>3, <1>12, <4>1, <4>2, UpstreamClosed DEF Flow!Open
    <3>3. -1 =< SinkCount
      BY <1>0, TheGraph DEF CountsInv, CountedInv
    <3>4. ASSUME NEW k \in Flow!Nodes
          PROVE  -1 =< lastCall'[k] /\ lastCall'[k] =< SinkCount /\ (lastCall'[k] # -1 => k \in Flow!Upstream)
      <4>1. CASE k = from
        BY <1>3, <2>3, <3>2, <3>3, <4>1, SMT
      <4>2. CASE k # from
        BY <1>0, <2>3, <4>2 DEF CountsInv, CountedInv
      <4>. QED
        BY <4>1, <4>2
    <3>. QED
      BY <1>5, <2>4, <3>4 DEF CountedInv
  <2>8. StackInv'
    <3>1. ASSUME NEW i \in DOMAIN stack'
          PROVE  stack'[i].count = SinkCount' /\ lastCall'[stack'[i].node] = SinkCount'
      <4>1. CASE i = n + 1
        BY <1>3, <1>11, <2>2, <2>3, <2>4, <4>1
      <4>2. CASE i \in DOMAIN stack
        BY <1>0, <1>12, <2>2, <2>3, <2>4, <2>5, <4>2 DEF CountsInv, StackInv
      <4>. QED
        BY <2>2, <4>1, <4>2
    <3>2. ASSUME NEW i \in DOMAIN stack', NEW j \in DOMAIN stack', i # j
          PROVE  stack'[i].node # stack'[j].node
      <4>1. CASE i = n + 1
        BY <1>11, <2>2, <2>5, <3>2, <4>1
      <4>2. CASE j = n + 1
        BY <1>11, <2>2, <2>5, <3>2, <4>2
      <4>3. CASE i \in DOMAIN stack /\ j \in DOMAIN stack
        BY <1>0, <2>2, <3>2, <4>3 DEF CountsInv, StackInv
      <4>. QED
        BY <2>2, <4>1, <4>2, <4>3
    <3>. QED
      BY <2>4, <3>1, <3>2 DEF StackInv
  <2>9. PortInv'
    <3>1. ASSUME NEW i \in DOMAIN stack'
          PROVE  stack'[i].port =< Len(graph'[stack'[i].node]) + 1
      <4>1. CASE i = n + 1
        BY <1>0, <1>1, <1>9, <1>11, <2>2, <4>1, TheGraph, SMT
      <4>2. CASE i \in DOMAIN stack
        BY <1>0, <1>1, <2>2, <4>2 DEF CountsInv, PortInv
      <4>. QED
        BY <2>2, <4>1, <4>2
    <3>2. ASSUME NEW i \in DOMAIN stack', i # Len(stack')
          PROVE  /\ stack'[i].port =< Len(graph'[stack'[i].node])
                 /\ stack'[i + 1].node = graph'[stack'[i].node][stack'[i].port]
      <4>1. i \in DOMAIN stack /\ stack'[i] = stack[i]
        BY <2>2, <3>2
      <4>2. CASE i = n
        BY <1>1, <1>2, <1>11, <1>12, <2>2, <4>1, <4>2
      <4>3. CASE i # n
        <5>1. i + 1 \in DOMAIN stack
          BY <1>2, <4>1, <4>3, SMT
        <5>. QED
          BY <1>0, <1>1, <1>12, <2>2, <4>1, <4>3, <5>1 DEF CountsInv, PortInv
      <4>. QED
        BY <4>2, <4>3
    <3>. QED
      BY <1>9, <3>1, <3>2 DEF PortInv
  <2>10. ProcessedInv'
    <3>. SUFFICES ASSUME NEW k \in processed PROVE lastCall'[k] = SinkCount' /\ ~OnStack(k)'
      BY <1>1 DEF ProcessedInv
    <3>1. k \in Flow!Nodes /\ lastCall[k] = SinkCount /\ ~OnStack(k)
      BY <1>0 DEF CountsInv, ProcessedInv, FlowTypeOK
    <3>2. k # from
      BY <1>3, <1>9, <1>10, <3>1, SMT
    <3>. QED
      BY <1>11, <2>2, <2>3, <2>4, <3>1, <3>2 DEF OnStack
  <2>11. ASSUME Flow!Simple PROVE SimpleInv'
    <3>1. SimpleInv
      BY <2>11 DEF FlowInv
    <3>2. from < top.node
      BY <1>3, <1>11, <1>12, <2>11 DEF Flow!Simple
    <3>3. \A i, j \in DOMAIN stack' : i < j => stack'[i].node > stack'[j].node
      <4>1. \A i \in DOMAIN stack : stack[i].node >= top.node
        BY <1>14, <3>1
      <4>. SUFFICES ASSUME NEW i \in DOMAIN stack', NEW j \in DOMAIN stack', i < j
                    PROVE  stack'[i].node > stack'[j].node
        OBVIOUS
      <4>2. i \in DOMAIN stack
        BY <1>2, <2>2, SMT
      <4>3. CASE j = n + 1
        <5>1. stack'[i].node = stack[i].node /\ stack'[j].node = from
          BY <1>11, <2>2, <4>2, <4>3
        <5>2. stack[i].node >= top.node /\ stack[i].node \in Nat
          BY <1>12, <4>1, <4>2
        <5>. QED
          BY <1>3, <1>9, <3>2, <5>1, <5>2, SMT
      <4>4. CASE j \in DOMAIN stack
        BY <2>2, <3>1, <4>2, <4>4 DEF SimpleInv
      <4>. QED
        BY <2>2, <4>3, <4>4
    <3>4. \A k \in Flow!Nodes : Done(k)' <=> Done(k)
      <4>1. PICK m : m = from
        OBVIOUS
      <4>2. lastCall[m] # SinkCount
        BY <1>3, <1>9, <1>10, <4>1, SMT
      <4>3. n + 1 \in DOMAIN stack' /\ stack'[n + 1].node = m
        BY <1>11, <2>2, <4>1
      <4>4. ~Done(m) /\ ~Done(m)'
        BY <4>2, <4>3 DEF Done, OnStack
      <4>5. \A k \in Flow!Nodes \ {m} : OnStack(k)' <=> OnStack(k)
        BY <1>11, <2>2, <4>1 DEF OnStack
      <4>. QED
        BY <1>0, <2>3, <2>4, <4>1, <4>4, <4>5 DEF Done
    <3>5. \A k \in Flow!Nodes' : Done(k)' => Done(1)' /\ lastFrames'[k] = lastFrames'[1]
      BY <1>0, <1>1, <1>5, <3>1, <3>4, TheGraph DEF SimpleInv
    <3>6. \A i \in DOMAIN stack' :
             stack'[i].port > 1 => /\ Done(1)' /\ stack'[i].frames = lastFrames'[1]
                                   /\ \A k \in 1 .. stack'[i].port - 1 : Done(graph[stack[i].node][k])'
      <4>. SUFFICES ASSUME NEW i \in DOMAIN stack', stack'[i].port > 1
                    PROVE  /\ Done(1)' /\ stack'[i].frames = lastFrames'[1]
                           /\ \A k \in 1 .. stack'[i].port - 1 : Done(graph[stack[i].node][k])'
        OBVIOUS
      <4>1. i \in DOMAIN stack /\ stack'[i] = stack[i]
        <5>1. CASE i = n + 1
          BY <1>11, <2>2, <5>1, SMT
        <5>. QED
          BY <2>2, <5>1
      <4>2. /\ Done(1) /\ stack[i].frames = lastFrames[1]
            /\ \A k \in 1 .. stack[i].port - 1 : Done(graph[stack[i].node][k])
        BY <4>1, <3>1 DEF SimpleInv
      <4>3. \A k \in 1 .. stack[i].port - 1 : graph[stack[i].node][k] \in Flow!Nodes
        <5>1. stack[i].node \in Flow!Nodes /\ stack[i].port \in Nat \ {0}
          BY <1>2, <4>1 DEF Entry
        <5>2. stack[i].port =< Len(graph[stack[i].node]) + 1
          BY <1>0, <4>1 DEF CountsInv, PortInv
        <5>3. /\ Len(graph[stack[i].node]) \in Nat
              /\ DOMAIN graph[stack[i].node] = 1 .. Len(graph[stack[i].node])
          BY <1>0, <5>1, TheGraph
        <5>4. 1 .. stack[i].port - 1 \subseteq DOMAIN graph[stack[i].node]
          BY <5>1, <5>2, <5>3, SMT
        <5>. QED
          BY <1>0, <2>11, <5>1, <5>4, TheGraph DEF Flow!Simple, Flow!Open
      <4>. QED
        BY <1>0, <1>1, <3>4, <4>1, <4>2, <4>3, TheGraph
    <3>7. InTransit' = InTransit
      BY <1>0, <1>1, <2>2, <3>4, TheGraph DEF InTransit
    <3>8. put' = given' + left'[1] + InTransit'
      BY <1>1, <3>1, <3>7 DEF SimpleInv
    <3>. QED
      BY <1>9, <3>3, <3>5, <3>6, <3>8 DEF SimpleInv
  <2>. QED
    BY <1>5, <2>6, <2>7, <2>8, <2>9, <2>10, <2>11 DEF FlowInv, CountsInv
<1>. QED
  BY <1>4, <1>7, <1>8, <1>9

(* The port has its answer, and the next port is to pull.                  *)
LEMMA PortPulledKeeps ==
  ASSUME FlowInv, Flow!PortPulled
  PROVE  FlowInv'
<1>0. graph \in Graphs /\ FlowTypeOK /\ CountsInv
  BY DEF FlowInv, FlowTypeOK
<1>1. /\ stack # <<>> /\ answer # Flow!None /\ answer' = Flow!None
      /\ stack' = Append(Flow!Below, [Flow!Top EXCEPT !.port = @ + 1, !.frames = answer])
      /\ UNCHANGED <<graph, lastCall, lastFrames, left, wanted, processed, reads, put, given>>
  BY DEF Flow!PortPulled
<1>2. answer \in Nat /\ stack \in Seq(Entry)
  BY <1>0, <1>1 DEF FlowTypeOK
<1>3. PICK top \in Entry : top = Flow!Top
  BY <1>1, <1>2, Sequence, SMT DEF Flow!Top
<1>4. PICK e : e = [top EXCEPT !.port = @ + 1, !.frames = answer]
  OBVIOUS
<1>5. e \in Entry /\ e.node = top.node /\ e.count = top.count /\ e.port = top.port + 1 /\ e.frames = answer
  <2>1. e.node = top.node /\ e.count = top.count /\ e.port = top.port + 1 /\ e.frames = answer
    BY <1>4 DEF Entry
  <2>2. top.node \in Flow!Nodes /\ top.count \in Int /\ top.port + 1 \in Nat \ {0}
    BY SMT DEF Entry
  <2>3. e = [node |-> top.node, count |-> top.count, port |-> top.port + 1, frames |-> answer]
    BY <1>4 DEF Entry
  <2>. QED
    BY <1>2, <2>1, <2>2, <2>3 DEF Entry
<1>6. PICK n \in Nat : n = Len(stack)
  BY <1>2, Sequence
<1>7. /\ Len(stack') = n /\ DOMAIN stack' = DOMAIN stack /\ stack' # <<>> /\ n \in DOMAIN stack
      /\ top = stack[n] /\ stack'[n] = e /\ \A i \in DOMAIN stack : i # n => stack'[i] = stack[i]
      /\ stack' \in Seq(Entry)
  BY <1>1, <1>2, <1>3, <1>4, <1>5, <1>6, TopChanged
<1>8. \A i \in DOMAIN stack : stack'[i].node = stack[i].node /\ stack'[i].count = stack[i].count
  BY <1>5, <1>7
<1>9. /\ Flow!Nodes' = Flow!Nodes /\ Flow!TheSink' = Flow!TheSink /\ Flow!Upstream' = Flow!Upstream
      /\ Flow!Simple' = Flow!Simple /\ Entry' = Entry
  BY <1>1 DEF Flow!Nodes, Flow!TheSink, Flow!Upstream, Flow!WithInputs, Flow!Simple, Flow!Sources, Entry
<1>10. top.port =< Len(graph[top.node]) /\ top.port \in Nat \ {0}
  BY <1>0, <1>1, <1>3 DEF CountsInv, PortInv, Flow!Inputs, Entry
<1>11. \A k : OnStack(k)' <=> OnStack(k)
  BY <1>7, <1>8 DEF OnStack
<1>12. FlowTypeOK'
  BY <1>0, <1>1, <1>7, <1>9 DEF FlowTypeOK
<1>13. CountsInv'
  <2>1. CountedInv' /\ ProcessedInv'
    BY <1>0, <1>1, <1>9, <1>11 DEF CountsInv, CountedInv, ProcessedInv
  <2>2. StackInv'
    <3>1. \A i \in DOMAIN stack' : stack'[i].count = SinkCount /\ lastCall[stack'[i].node] = SinkCount
      BY <1>0, <1>7, <1>8 DEF CountsInv, StackInv
    <3>2. \A i, j \in DOMAIN stack' : i # j => stack'[i].node # stack'[j].node
      BY <1>0, <1>7, <1>8 DEF CountsInv, StackInv
    <3>3. SinkCount' = SinkCount /\ SinkCount # -1
      BY <1>0, <1>1, <1>9 DEF CountsInv, StackInv
    <3>. QED
      BY <1>1, <3>1, <3>2, <3>3 DEF StackInv
  <2>3. PortInv'
    <3>1. ASSUME NEW i \in DOMAIN stack'
          PROVE  stack'[i].port =< Len(graph[stack'[i].node]) + 1
      <4>1. CASE i = n
        <5>1. Len(graph[top.node]) \in Nat
          BY <1>0, <1>3, TheGraph DEF Entry
        <5>2. top.port + 1 =< Len(graph[top.node]) + 1
          BY <1>10, <5>1, SMT
        <5>. QED
          BY <1>5, <1>7, <4>1, <5>2
      <4>2. CASE i # n
        BY <1>0, <1>7, <4>2 DEF CountsInv, PortInv
      <4>. QED
        BY <4>1, <4>2
    <3>2. ASSUME NEW i \in DOMAIN stack', i # n
          PROVE  /\ stack'[i].port =< Len(graph[stack'[i].node])
                 /\ stack'[i + 1].node = graph[stack'[i].node][stack'[i].port]
      <4>1. i + 1 \in DOMAIN stack
        BY <1>2, <1>6, <1>7, <3>2, Sequence, SMT
      <4>. QED
        BY <1>0, <1>6, <1>7, <1>8, <3>2, <4>1 DEF CountsInv, PortInv
    <3>. QED
      BY <1>1, <1>7, <3>1, <3>2 DEF PortInv
  <2>. QED
    BY <2>1, <2>2, <2>3 DEF CountsInv
<1>14. ASSUME Flow!Simple PROVE SimpleInv'
  <2>1. SimpleInv
    BY <1>14 DEF FlowInv
  <2>2. \A k : Done(k)' <=> Done(k)
    BY <1>1, <1>9, <1>11 DEF Done
  <2>3. \A i, j \in DOMAIN stack' : i < j => stack'[i].node > stack'[j].node
    BY <1>7, <1>8, <2>1 DEF SimpleInv
  <2>4. \A k \in Flow!Nodes' : Done(k)' => Done(1)' /\ lastFrames'[k] = lastFrames'[1]
    BY <1>1, <1>9, <2>1, <2>2 DEF SimpleInv
  <2>5. ASSUME NEW i \in DOMAIN stack', stack'[i].port > 1
        PROVE  /\ Done(1) /\ stack'[i].frames = lastFrames[1]
               /\ \A k \in 1 .. stack'[i].port - 1 : Done(graph[stack'[i].node][k])
    <3>1. CASE i = n
      <4>1. Done(1) /\ answer = lastFrames[1] /\ Done(graph[top.node][top.port])
        BY <1>1, <1>3, <2>1 DEF SimpleInv, Flow!Inputs
      <4>2. ASSUME NEW k \in 1 .. top.port - 1 PROVE Done(graph[top.node][k])
        <5>1. top.port > 1
          BY <1>10, SMT
        <5>. QED
          BY <1>7, <2>1, <5>1 DEF SimpleInv
      <4>3. \A k \in 1 .. (top.port + 1) - 1 : k = top.port \/ k \in 1 .. top.port - 1
        BY <1>10, SMT
      <4>4. \A k \in 1 .. (top.port + 1) - 1 : Done(graph[top.node][k])
        BY <4>1, <4>2, <4>3
      <4>. QED
        BY <1>5, <1>7, <3>1, <4>1, <4>4
    <3>2. CASE i # n
      BY <1>7, <2>1, <2>5, <3>2 DEF SimpleInv
    <3>. QED
      BY <3>1, <3>2
  <2>6. \A i \in DOMAIN stack' :
          stack'[i].port > 1 => /\ Done(1)' /\ stack'[i].frames = lastFrames'[1]
                                /\ \A k \in 1 .. stack'[i].port - 1 : Done(graph[stack[i].node][k])'
    <3>1. \A i \in DOMAIN stack : \A k : Done(graph[stack[i].node][k])' <=> Done(graph[stack'[i].node][k])
      BY <1>1, <1>8, <2>2
    <3>. QED
      BY <1>1, <1>7, <2>2, <2>5, <3>1
  <2>7. InTransit' = InTransit
    BY <1>1, <1>7, <2>2 DEF InTransit
  <2>8. put' = given' + left'[1] + InTransit'
    BY <1>1, <2>1, <2>7 DEF SimpleInv
  <2>. QED
    BY <1>1, <2>3, <2>4, <2>6, <2>8 DEF SimpleInv
<1>. QED
  BY <1>9, <1>12, <1>13, <1>14 DEF FlowInv

(* All ports are pulled: the node processes and returns.                   *)
LEMMA ProcessKeeps ==
  ASSUME FlowInv, Flow!Process
  PROVE  FlowInv'
<1>. DEFINE made == IF Flow!Top.frames > 0 THEN Flow!OnProcess(Flow!Top.node, Flow!Top.frames) ELSE Flow!Top.frames
<1>0. graph \in Graphs /\ FlowTypeOK /\ CountsInv
  BY DEF FlowInv, FlowTypeOK
<1>1. stack # <<>> /\ stack \in Seq(Entry)
  BY <1>0 DEF Flow!Process, FlowTypeOK
<1>2. PICK top \in Entry : top = Flow!Top
  BY <1>1, Sequence, SMT DEF Flow!Top
<1>3. PICK n \in Nat : n = Len(stack)
  BY <1>1, Sequence
<1>4. PICK amount : amount = made
  OBVIOUS
<1>5. /\ answer = Flow!None /\ top.port > Len(graph[top.node]) /\ stack' = Flow!Below
      /\ left' = (IF top.node \in Flow!Sources THEN [left EXCEPT ![top.node] = @ - amount] ELSE left)
      /\ lastFrames' = [lastFrames EXCEPT ![top.node] = amount]
      /\ processed' \subseteq processed \cup {top.node}
      /\ answer' = amount
      /\ UNCHANGED <<graph, lastCall, wanted, reads, put, given>>
  BY <1>2, <1>4 DEF Flow!Process, Flow!Inputs
<1>. HIDE DEF made
<1>6. /\ top.node \in Flow!Nodes /\ top.port \in Nat \ {0} /\ top.frames \in Nat
      /\ 1 \in Flow!Nodes /\ Flow!Nodes \subseteq Nat /\ left[top.node] \in Nat
  <2>1. top.node \in Flow!Nodes /\ top.port \in Nat \ {0} /\ top.frames \in Nat
    BY DEF Entry
  <2>2. 1 \in Flow!Nodes /\ Flow!Nodes \subseteq Nat
    BY <1>0, TheGraph, SMT
  <2>. QED
    BY <1>0, <2>1, <2>2 DEF FlowTypeOK
<1>7. /\ amount \in Nat
      /\ top.node \in Flow!Sources => amount =< left[top.node]
      /\ top.node \notin Flow!Sources => amount = top.frames
  BY <1>2, <1>4, <1>6, SMT DEF made, Flow!OnProcess, Flow!Lesser
<1>8. /\ Len(stack') = n - 1 /\ DOMAIN stack' = 1 .. n - 1
      /\ \A i \in DOMAIN stack' : stack'[i] = stack[i] /\ i \in DOMAIN stack /\ i < n
      /\ DOMAIN stack = DOMAIN stack' \cup {n} /\ n # 0
      /\ n \in DOMAIN stack /\ n \notin DOMAIN stack'
      /\ top = stack[n] /\ stack' \in Seq(Entry)
  BY <1>1, <1>2, <1>3, <1>5, Popped, SMT
<1>9. /\ Flow!Nodes' = Flow!Nodes /\ Flow!TheSink' = Flow!TheSink /\ Flow!Upstream' = Flow!Upstream
      /\ Flow!Simple' = Flow!Simple /\ Entry' = Entry
  BY <1>5 DEF Flow!Nodes, Flow!TheSink, Flow!Upstream, Flow!WithInputs, Flow!Simple, Flow!Sources, Entry
<1>10. /\ lastFrames'[top.node] = amount
       /\ \A k \in Flow!Nodes \ {top.node} : lastFrames'[k] = lastFrames[k] /\ left'[k] = left[k]
       /\ top.node \in Flow!Sources => left'[top.node] = left[top.node] - amount
       /\ top.node \notin Flow!Sources => left' = left
  BY <1>0, <1>5, <1>6 DEF FlowTypeOK
<1>11. \A i \in DOMAIN stack' : stack'[i].node # top.node
  BY <1>0, <1>8 DEF CountsInv, StackInv
<1>12. \A k \in Flow!Nodes \ {top.node} : OnStack(k)' <=> OnStack(k)
  BY <1>8 DEF OnStack
<1>13. ~OnStack(top.node)'
  BY <1>11 DEF OnStack
<1>14. lastCall[top.node] = SinkCount /\ SinkCount # -1
  BY <1>0, <1>1, <1>8 DEF CountsInv, StackInv
<1>15. FlowTypeOK'
  <2>1. left' \in [Flow!Nodes -> Nat]
    <3>1. CASE top.node \in Flow!Sources
      <4>1. left[top.node] - amount \in Nat
        BY <1>6, <1>7, <3>1, SMT
      <4>. QED
        BY <1>0, <1>5, <3>1, <4>1 DEF FlowTypeOK
    <3>2. CASE top.node \notin Flow!Sources
      BY <1>0, <1>5, <3>2 DEF FlowTypeOK
    <3>. QED
      BY <3>1, <3>2
  <2>2. lastFrames' \in [Flow!Nodes -> Nat] /\ processed' \subseteq Flow!Nodes /\ answer' \in Nat \cup {Flow!None}
    BY <1>0, <1>5, <1>6, <1>7 DEF FlowTypeOK
  <2>. QED
    BY <1>0, <1>5, <1>8, <1>9, <2>1, <2>2 DEF FlowTypeOK
<1>16. CountsInv'
  <2>1. CountedInv'
    BY <1>0, <1>5, <1>9 DEF CountsInv, CountedInv
  <2>2. StackInv'
    <3>1. \A i \in DOMAIN stack' : stack'[i].count = SinkCount /\ lastCall[stack'[i].node] = SinkCount
      BY <1>0, <1>8 DEF CountsInv, StackInv
    <3>2. \A i, j \in DOMAIN stack' : i # j => stack'[i].node # stack'[j].node
      BY <1>0, <1>8 DEF CountsInv, StackInv
    <3>3. SinkCount' = SinkCount
      BY <1>5, <1>9
    <3>. QED
      BY <1>5, <1>14, <3>1, <3>2, <3>3 DEF StackInv
  <2>3. PortInv'
    <3>1. ASSUME NEW i \in DOMAIN stack'
          PROVE  stack'[i].port =< Len(graph[stack'[i].node])
      BY <1>0, <1>3, <1>8, SMT DEF CountsInv, PortInv
    <3>2. ASSUME NEW i \in DOMAIN stack'
          PROVE  Len(graph[stack'[i].node]) \in Nat /\ stack'[i].port \in Nat
      <4>1. stack[i] \in Entry /\ stack'[i] = stack[i]
        BY <1>1, <1>8, Sequence
      <4>2. stack[i].node \in Flow!Nodes /\ stack[i].port \in Nat
        BY <4>1 DEF Entry
      <4>. QED
        BY <1>0, <4>1, <4>2, TheGraph
    <3>3. \A i \in DOMAIN stack' : stack'[i].port =< Len(graph[stack'[i].node]) + 1
      BY <3>1, <3>2, SMT
    <3>4. ASSUME NEW i \in DOMAIN stack', i # n - 1
          PROVE  stack'[i + 1].node = graph[stack'[i].node][stack'[i].port]
      <4>1. i + 1 \in DOMAIN stack' /\ i # n
        BY <1>8, <3>4, SMT
      <4>. QED
        BY <1>0, <1>3, <1>8, <4>1 DEF CountsInv, PortInv
    <3>5. ASSUME stack' # <<>> PROVE Len(stack') \in DOMAIN stack'
      BY <1>8, <3>5, Sequence, SMT
    <3>. QED
      BY <1>5, <1>8, <3>1, <3>3, <3>4, <3>5 DEF PortInv, Flow!Top, Flow!Inputs
  <2>4. ProcessedInv'
    BY <1>0, <1>5, <1>9, <1>12, <1>13, <1>14 DEF CountsInv, ProcessedInv, FlowTypeOK
  <2>. QED
    BY <2>1, <2>2, <2>3, <2>4 DEF CountsInv
<1>17. ASSUME Flow!Simple PROVE SimpleInv'
  <2>1. SimpleInv /\ Flow!Sources = {1}
    BY <1>17 DEF FlowInv, Flow!Simple
  <2>2. Done(top.node)' /\ ~Done(top.node)
    BY <1>5, <1>8, <1>9, <1>13, <1>14 DEF Done, OnStack
  <2>3. \A k \in Flow!Nodes \ {top.node} : Done(k)' <=> Done(k)
    BY <1>5, <1>9, <1>12 DEF Done
  <2>4. \A i, j \in DOMAIN stack' : i < j => stack'[i].node > stack'[j].node
    BY <1>8, <2>1 DEF SimpleInv
  <2>5. ASSUME stack' # <<>> PROVE Done(Flow!Inputs[Flow!Top.port])'
    <3>1. n - 1 \in DOMAIN stack' /\ n - 1 \in DOMAIN stack /\ n - 1 # n /\ (n - 1) + 1 = n
      BY <1>8, <2>5, Sequence, SMT
    <3>2. graph[stack'[n - 1].node][stack'[n - 1].port] = top.node
      BY <1>0, <1>3, <1>8, <3>1 DEF CountsInv, PortInv
    <3>3. (Flow!Inputs[Flow!Top.port])' = top.node
      BY <1>5, <1>8, <3>2 DEF Flow!Inputs, Flow!Top
    <3>. QED
      BY <2>2, <3>3 DEF Done, OnStack
  <2>6. Done(1)' /\ lastFrames'[1] = amount
    <3>1. CASE top.node = 1
      BY <1>10, <2>2, <3>1
    <3>2. CASE top.node # 1
      <4>1. top.node \notin Flow!Sources /\ graph[top.node] # <<>>
        BY <1>6, <2>1, <3>2 DEF Flow!Sources
      <4>2. top.port > 1
        BY <1>0, <1>5, <1>6, <4>1, TheGraph, SMT
      <4>3. Done(1) /\ top.frames = lastFrames[1]
        BY <1>8, <2>1, <4>2 DEF SimpleInv
      <4>. QED
        BY <1>6, <1>7, <1>10, <2>3, <3>2, <4>1, <4>3
    <3>. QED
      BY <3>1, <3>2
  <2>7. top.node = 1 => \A k \in Flow!Nodes : ~Done(k)
    BY <2>1, <2>2 DEF SimpleInv
  <2>8. \A k \in Flow!Nodes : Done(k)' => lastFrames'[k] = lastFrames'[1]
    <3>1. CASE top.node = 1
      BY <2>3, <2>7, <3>1
    <3>2. CASE top.node # 1
      BY <1>6, <1>10, <2>1, <2>3, <2>6, <3>2 DEF SimpleInv
    <3>. QED
      BY <3>1, <3>2
  <2>9. ASSUME NEW i \in DOMAIN stack', stack'[i].port > 1
        PROVE  /\ stack'[i].frames = lastFrames'[1]
               /\ \A k \in 1 .. stack'[i].port - 1 : Done(graph[stack[i].node][k])'
    <3>1. /\ Done(1) /\ stack[i].frames = lastFrames[1] /\ stack[i] \in Entry
          /\ \A k \in 1 .. stack[i].port - 1 : Done(graph[stack[i].node][k])
      BY <1>1, <1>8, <2>1, <2>9, Sequence DEF SimpleInv
    <3>2. top.node # 1
      BY <1>6, <2>7, <3>1
    <3>3. lastFrames'[1] = lastFrames[1]
      BY <1>6, <1>10, <3>2
    <3>4. stack[i].port =< Len(graph[stack[i].node]) + 1
      BY <1>0, <1>8 DEF CountsInv, PortInv
    <3>5. \A k \in 1 .. stack[i].port - 1 : graph[stack[i].node][k] \in Flow!Nodes
      <4>1. stack[i].node \in Flow!Nodes /\ stack[i].port \in Nat \ {0}
        BY <3>1 DEF Entry
      <4>2. /\ Len(graph[stack[i].node]) \in Nat
            /\ DOMAIN graph[stack[i].node] = 1 .. Len(graph[stack[i].node])
        BY <1>0, <4>1, TheGraph
      <4>3. 1 .. stack[i].port - 1 \subseteq DOMAIN graph[stack[i].node]
        BY <3>4, <4>1, <4>2, SMT
      <4>. QED
        BY <1>0, <1>17, <4>1, <4>3, TheGraph DEF Flow!Simple, Flow!Open
    <3>. QED
      <4>1. \A k \in Flow!Nodes : Done(k) => Done(k)'
        BY <2>2, <2>3
      <4>2. \A k : (graph[stack[i].node][k])' = graph[stack[i].node][k]
        BY <1>5, <1>8
      <4>3. ASSUME NEW k \in 1 .. stack[i].port - 1 PROVE Done(graph[stack[i].node][k])'
        <5>1. PICK m \in Flow!Nodes : m = graph[stack[i].node][k]
          BY <3>5
        <5>2. Done(m)'
          BY <3>1, <4>1, <5>1
        <5>3. (graph[stack[i].node][k])' = m
          BY <4>2, <5>1
        <5>. QED
          BY <5>2, <5>3 DEF Done, OnStack
      <4>. QED
        BY <1>8, <3>1, <3>3, <4>3
  <2>10. put' = given' + left'[1] + InTransit'
    <3>1. InTransit' = amount
      BY <1>5, <1>7, <2>6, SMT DEF InTransit, Flow!None
    <3>2. put = given + left[1] + InTransit
      BY <2>1 DEF SimpleInv
    <3>3. CASE top.node = 1
      <4>1. InTransit = 0
        BY <1>6, <2>7, <3>3 DEF InTransit
      <4>2. left'[1] = left[1] - amount
        BY <1>10, <2>1, <3>3
      <4>. QED
        BY <1>0, <1>5, <1>6, <1>7, <3>1, <3>2, <4>1, <4>2, SMT DEF FlowTypeOK
    <3>4. CASE top.node # 1
      <4>1. Done(1) /\ lastFrames'[1] = lastFrames[1] /\ left'[1] = left[1]
        BY <1>6, <1>10, <2>3, <2>6, <3>4
      <4>2. InTransit = amount
        BY <1>1, <2>6, <4>1 DEF InTransit
      <4>. QED
        BY <1>5, <3>1, <3>2, <4>1, <4>2
    <3>. QED
      BY <3>3, <3>4
  <2>. QED
    BY <1>5, <1>9, <2>4, <2>5, <2>6, <2>8, <2>9, <2>10 DEF SimpleInv
<1>. QED
  BY <1>9, <1>15, <1>16, <1>17 DEF FlowInv

(* The frames reach whoever reads.                                         *)
LEMMA SinkPulledKeeps ==
  ASSUME FlowInv, Flow!SinkPulled
  PROVE  FlowInv'
<1>0. graph \in Graphs /\ FlowTypeOK /\ CountsInv
  BY DEF FlowInv, FlowTypeOK
<1>1. /\ stack = <<>> /\ answer \in Nat /\ answer' = Flow!None /\ answer # Flow!None
      /\ given' = given + answer /\ wanted' \in Int /\ given' \in Int
      /\ UNCHANGED <<graph, lastCall, lastFrames, left, stack, processed, reads, put>>
  BY <1>0, SMT DEF Flow!SinkPulled, FlowTypeOK, Flow!None
<1>2. /\ Flow!Nodes' = Flow!Nodes /\ Flow!TheSink' = Flow!TheSink /\ Flow!Upstream' = Flow!Upstream
      /\ Flow!Simple' = Flow!Simple /\ Entry' = Entry
  BY <1>1 DEF Flow!Nodes, Flow!TheSink, Flow!Upstream, Flow!WithInputs, Flow!Simple, Flow!Sources, Entry
<1>3. \A k : Done(k)' <=> Done(k)
  BY <1>1, <1>2 DEF Done, OnStack
<1>4. FlowTypeOK'
  BY <1>0, <1>1, <1>2, SMT DEF FlowTypeOK
<1>5. CountsInv'
  BY <1>0, <1>1, <1>2 DEF CountsInv, CountedInv, StackInv, PortInv, ProcessedInv, OnStack
<1>6. ASSUME Flow!Simple PROVE SimpleInv'
  <2>1. SimpleInv
    BY <1>6 DEF FlowInv
  <2>2. InTransit = answer
    BY <1>1, <2>1 DEF SimpleInv, InTransit
  <2>3. InTransit' = 0
    BY <1>1 DEF InTransit
  <2>4. put = given + left[1] + answer
    BY <2>1, <2>2 DEF SimpleInv
  <2>5. put' = given' + left'[1] + InTransit'
    <3>1. left[1] \in Nat /\ given \in Int /\ put \in Int
      BY <1>0, TheGraph DEF FlowTypeOK
    <3>2. put' = put /\ left'[1] = left[1]
      BY <1>1
    <3>. HIDE DEF Flow!Nodes
    <3>. QED
      BY <1>1, <2>3, <2>4, <3>1, <3>2, SMT
  <2>6. \A k \in Flow!Nodes' : Done(k)' => Done(1)' /\ lastFrames'[k] = lastFrames'[1]
    BY <1>1, <1>2, <1>3, <2>1 DEF SimpleInv
  <2>7. DOMAIN stack' = {}
    BY <1>1, SMT
  <2>. QED
    BY <1>1, <2>5, <2>6, <2>7 DEF SimpleInv
<1>. QED
  BY <1>2, <1>4, <1>5, <1>6 DEF FlowInv

(* Between two pulls the app reads, fills a source or resets the graph.    *)
LEMMA BetweenPullsKeeps ==
  ASSUME FlowInv, Flow!Read \/ Flow!SetData \/ Flow!PullReset
  PROVE  FlowInv'
<1>0. graph \in Graphs /\ FlowTypeOK /\ CountsInv
  BY DEF FlowInv, FlowTypeOK
<1>1. /\ stack = <<>> /\ answer = Flow!None
      /\ UNCHANGED <<graph, stack, answer, processed, given>>
  BY DEF Flow!Read, Flow!SetData, Flow!PullReset, Flow!Idle
<1>2. /\ Flow!Nodes' = Flow!Nodes /\ Flow!TheSink' = Flow!TheSink /\ Flow!Upstream' = Flow!Upstream
      /\ Flow!Simple' = Flow!Simple /\ Entry' = Entry
  BY <1>1 DEF Flow!Nodes, Flow!TheSink, Flow!Upstream, Flow!WithInputs, Flow!Simple, Flow!Sources, Entry
<1>3. DOMAIN stack = {} /\ \A k : ~OnStack(k) /\ ~OnStack(k)'
  BY <1>1, SMT DEF OnStack
<1>4. InTransit = 0 /\ InTransit' = 0
  BY <1>1 DEF InTransit
<1>5. ASSUME FlowTypeOK', CountedInv', ProcessedInv',
             Flow!Simple => /\ \A k \in Flow!Nodes : Done(k)' => Done(1)' /\ lastFrames'[k] = lastFrames'[1]
                            /\ put' = given' + left'[1]
      PROVE  FlowInv'
  <2>1. CountsInv'
    BY <1>1, <1>3, <1>5 DEF CountsInv, StackInv, PortInv
  <2>2. ASSUME Flow!Simple PROVE SimpleInv'
    <3>1. put' = given' + left'[1] + InTransit'
      BY <1>0, <1>2, <1>4, <1>5, <2>2, TheGraph, SMT DEF FlowTypeOK
    <3>. QED
      BY <1>1, <1>2, <1>3, <1>5, <2>2, <3>1 DEF SimpleInv
  <2>. QED
    BY <1>2, <1>5, <2>1, <2>2 DEF FlowInv
<1>6. Flow!Simple => put = given + left[1]
  <2>1. Flow!Simple => put = given + left[1] + InTransit
    BY DEF FlowInv, SimpleInv
  <2>. QED
    BY <1>0, <1>4, <2>1, TheGraph, SMT DEF FlowTypeOK
<1>7. CASE Flow!Read
  <2>1. UNCHANGED <<lastCall, lastFrames, left, put>> /\ wanted' \in Int
    BY <1>7, SMT DEF Flow!Read
  <2>2. FlowTypeOK' /\ CountedInv' /\ ProcessedInv'
    BY <1>0, <1>1, <1>2, <1>3, <2>1 DEF FlowTypeOK, CountsInv, CountedInv, ProcessedInv
  <2>3. \A k : Done(k)' <=> Done(k)
    BY <1>1, <1>2, <1>3, <2>1 DEF Done
  <2>4. Flow!Simple => \A k \in Flow!Nodes : Done(k)' => Done(1)' /\ lastFrames'[k] = lastFrames'[1]
    BY <2>1, <2>3 DEF FlowInv, SimpleInv
  <2>. QED
    BY <1>1, <1>5, <1>6, <2>1, <2>2, <2>4
<1>8. CASE Flow!SetData
  <2>1. UNCHANGED <<lastCall, lastFrames, wanted>>
    BY <1>8 DEF Flow!SetData
  <2>2. PICK s \in Flow!Sources, more \in 1 .. Largest :
          left[s] = 0 /\ left' = [left EXCEPT ![s] = more] /\ put' = put + more
    BY <1>8 DEF Flow!SetData
  <2>3. more \in Nat /\ s \in Flow!Nodes
    BY SMT DEF Flow!Sources
  <2>4. left' \in [Flow!Nodes -> Nat] /\ left'[s] = more /\ put' \in Int
    BY <1>0, <2>2, <2>3, SMT DEF FlowTypeOK
  <2>5. FlowTypeOK' /\ CountedInv' /\ ProcessedInv'
    BY <1>0, <1>1, <1>2, <1>3, <2>1, <2>4 DEF FlowTypeOK, CountsInv, CountedInv, ProcessedInv
  <2>6. \A k : Done(k)' <=> Done(k)
    BY <1>1, <1>2, <1>3, <2>1 DEF Done
  <2>7. Flow!Simple => \A k \in Flow!Nodes : Done(k)' => Done(1)' /\ lastFrames'[k] = lastFrames'[1]
    BY <2>1, <2>6 DEF FlowInv, SimpleInv
  <2>8. Flow!Simple => s = 1
    BY DEF Flow!Simple
  <2>9. Flow!Simple => put' = given' + left'[1]
    BY <1>0, <1>1, <1>6, <2>2, <2>3, <2>4, <2>8, SMT DEF FlowTypeOK
  <2>. QED
    BY <1>5, <2>5, <2>7, <2>9
<1>9. CASE Flow!PullReset
  <2>1. UNCHANGED <<left, wanted, put>>
    BY <1>9 DEF Flow!PullReset
  <2>2. /\ lastCall' = [k \in Flow!Nodes |-> IF k \in Flow!Upstream THEN -1 ELSE lastCall[k]]
        /\ lastFrames' = [k \in Flow!Nodes |-> IF k \in Flow!Upstream THEN 0 ELSE lastFrames[k]]
    BY <1>9 DEF Flow!PullReset
  <2>3. \A k \in Flow!Nodes : lastCall'[k] = -1
    BY <1>0, <2>2 DEF CountsInv, CountedInv
  <2>4. lastCall' \in [Flow!Nodes -> Int] /\ lastFrames' \in [Flow!Nodes -> Nat]
    BY <1>0, <2>2, SMT DEF FlowTypeOK
  <2>5. SinkCount' = -1
    BY <1>0, <1>2, <2>3, TheGraph
  <2>6. FlowTypeOK'
    BY <1>0, <1>1, <1>2, <2>1, <2>4 DEF FlowTypeOK
  <2>7. CountedInv' /\ ProcessedInv'
    BY <1>0, <1>1, <1>2, <1>3, <2>3, <2>5, SMT DEF CountedInv, ProcessedInv, FlowTypeOK
  <2>8. \A k : ~Done(k)'
    BY <2>5 DEF Done
  <2>. QED
    BY <1>1, <1>5, <1>6, <2>1, <2>6, <2>7, <2>8
<1>. QED
  BY <1>7, <1>8, <1>9

LEMMA FlowKeeps ==
  ASSUME FlowInv, Flow!Next
  PROVE  FlowInv'
BY SinkPullDataKeeps, InputPullDataKeeps, PortPulledKeeps, ProcessKeeps, SinkPulledKeeps, BetweenPullsKeeps
   DEF Flow!Next

LEMMA FlowRests ==
  ASSUME FlowInv, UNCHANGED flow
  PROVE  FlowInv'
<1>. USE DEF flow
<1>1. /\ Flow!Nodes' = Flow!Nodes /\ Flow!TheSink' = Flow!TheSink /\ Flow!Upstream' = Flow!Upstream
      /\ Flow!Simple' = Flow!Simple /\ Entry' = Entry
  BY DEF Flow!Nodes, Flow!TheSink, Flow!Upstream, Flow!WithInputs, Flow!Simple, Flow!Sources, Entry
<1>2. \A k : (OnStack(k)' <=> OnStack(k)) /\ (Done(k)' <=> Done(k))
  BY <1>1 DEF Done, OnStack
<1>3. FlowTypeOK'
  BY <1>1 DEF FlowInv, FlowTypeOK
<1>4. CountsInv'
  BY <1>1, <1>2 DEF FlowInv, CountsInv, CountedInv, StackInv, PortInv, ProcessedInv, Flow!Top, Flow!Inputs
<1>5. ASSUME Flow!Simple PROVE SimpleInv'
  <2>1. InTransit' = InTransit
    BY <1>2 DEF InTransit
  <2>. QED
    BY <1>1, <1>2, <1>5, <2>1 DEF FlowInv, SimpleInv, Flow!Top, Flow!Inputs, Done, OnStack
<1>. QED
  BY <1>1, <1>3, <1>4, <1>5 DEF FlowInv

LEMMA FlowSafe == FlowInv => Flow!OncePerPull
<1>. SUFFICES ASSUME FlowInv PROVE Flow!OncePerPull
  OBVIOUS
<1>0. graph \in Graphs /\ FlowTypeOK /\ CountsInv
  BY DEF FlowInv, FlowTypeOK
<1>1. \A i, j \in DOMAIN stack : i # j => stack[i].node # stack[j].node
  BY <1>0 DEF CountsInv, StackInv
<1>2. \A i \in DOMAIN stack : stack[i].node \notin processed
  BY <1>0 DEF CountsInv, ProcessedInv, OnStack
<1>3. ASSUME Flow!Simple, stack # <<>>, answer = Flow!None, Flow!Top.port > Len(Flow!Inputs),
             NEW k \in DOMAIN Flow!Inputs
      PROVE  lastCall[Flow!Inputs[k]] = lastCall[Flow!TheSink] /\ lastFrames[Flow!Inputs[k]] = Flow!Top.frames
  <2>1. PICK n \in DOMAIN stack : Flow!Top = stack[n] /\ stack[n] \in Entry
    BY <1>0, <1>3, Sequence, SMT DEF FlowTypeOK, Flow!Top
  <2>2. stack[n].node \in Flow!Nodes /\ stack[n].port \in Nat \ {0}
    BY <2>1 DEF Entry
  <2>3. /\ Len(graph[stack[n].node]) \in Nat /\ DOMAIN graph[stack[n].node] = 1 .. Len(graph[stack[n].node])
        /\ \A i \in DOMAIN graph[stack[n].node] : graph[stack[n].node][i] \in {0} \cup Flow!Nodes
    BY <1>0, <2>2, TheGraph
  <2>4. stack[n].port > 1 /\ k \in 1 .. stack[n].port - 1
    BY <1>3, <2>1, <2>2, <2>3, SMT DEF Flow!Inputs
  <2>5. stack[n].frames = lastFrames[1] /\ Done(graph[stack[n].node][k])
    BY <1>3, <2>4 DEF FlowInv, SimpleInv
  <2>6. graph[stack[n].node][k] \in Flow!Nodes
    BY <1>3, <2>1, <2>2, <2>3 DEF Flow!Inputs, Flow!Simple, Flow!Open
  <2>. QED
    BY <1>3, <2>1, <2>5, <2>6 DEF FlowInv, SimpleInv, Flow!Inputs, Done
<1>4. ASSUME Flow!Simple, Flow!Idle, answer = Flow!None PROVE put = given + left[1]
  <2>1. InTransit = 0
    BY <1>4 DEF InTransit, Flow!Idle
  <2>2. put = given + left[1] + InTransit
    BY <1>4 DEF FlowInv, SimpleInv
  <2>. QED
    BY <1>0, <2>1, <2>2, TheGraph, SMT DEF FlowTypeOK
<1>. QED
  BY <1>1, <1>2, <1>3, <1>4 DEF Flow!OncePerPull, Flow!Calls

-----------------------------------------------------------------------------
(* The parts together: the part that runs keeps its invariant.             *)
ClientsInv ==
  /\ part = "hint" => HintInv
  /\ part = "even" => EvenInv
  /\ part = "duplex" => DuplexInv
  /\ part = "place" => PlaceInv
  /\ part = "loader" => LoaderInv
  /\ part = "resampler" => ResamplerInv
  /\ part = "graph" => FlowInv

LEMMA ClientsStart == Init => ClientsInv
BY HintStarts, EvenStarts, DuplexStarts, PlaceStarts, LoaderStarts, ResamplerStarts, FlowStarts DEF Init, ClientsInv

LEMMA Rests ==
  ASSUME ClientsInv, UNCHANGED vars
  PROVE  ClientsInv'
<1>. USE DEF vars, ClientsInv
<1>1. part' = "hint" => HintInv'
  BY DEF hint, HintInv, HintTypeOK, FlagTells
<1>2. part' = "even" => EvenInv'
  BY DEF even, EvenInv, EvenTypeOK, CountsFromEpoch
<1>3. part' = "duplex" => DuplexInv'
  BY DEF duplex, DuplexInv, DuplexTypeOK, DrainedOfOld, LittleAvailable
<1>4. part' = "place" => PlaceInv'
  BY DEF place, PlaceInv
<1>5. part' = "loader" => LoaderInv'
  BY DEF loader, LoaderInv, LibraryInv, OpenInv, MMapInv, FaultInv, Opening, IsRight
<1>6. part' = "resampler" => ResamplerInv'
  BY DEF resampler, ResamplerInv, ResamplerTypeOK, RowInv, IsRow, DelayInv, Recent, Filter!LastWritten
<1>7. part' = "graph" => FlowInv'
  BY FlowRests
<1>. QED
  BY <1>1, <1>2, <1>3, <1>4, <1>5, <1>6, <1>7

LEMMA ClientsStep ==
  ASSUME ClientsInv, [Next]_vars
  PROVE  ClientsInv'
<1>1. CASE part = "hint" /\ Hint!Next /\ part' = part
  BY <1>1, HintKeeps DEF ClientsInv
<1>2. CASE part = "even" /\ Even!Next /\ part' = part
  BY <1>2, EvenKeeps DEF ClientsInv
<1>3. CASE part = "duplex" /\ Duplex!Next /\ part' = part
  BY <1>3, DuplexKeeps DEF ClientsInv
<1>4. CASE part = "place" /\ Place!Next /\ part' = part
  BY <1>4, PlaceKeeps DEF ClientsInv
<1>5. CASE part = "loader" /\ Loader!Next /\ part' = part
  BY <1>5, LoaderKeeps DEF ClientsInv
<1>6. CASE part = "resampler" /\ Filter!Next /\ part' = part
  BY <1>6, ResamplerKeeps DEF ClientsInv
<1>7. CASE part = "graph" /\ Flow!Next /\ part' = part
  BY <1>7, FlowKeeps DEF ClientsInv
<1>8. CASE part \notin {"hint", "even", "duplex", "place", "loader", "resampler", "graph"} /\ part' = part
  BY <1>8 DEF ClientsInv
<1>9. CASE UNCHANGED vars
  BY <1>9, Rests
<1>. QED
  BY <1>1, <1>2, <1>3, <1>4, <1>5, <1>6, <1>7, <1>8, <1>9 DEF Next

LEMMA ClientsInvariant == Spec => []ClientsInv
BY ClientsStart, ClientsStep, PTL DEF Spec

(* However the callback and the app's threads, which both close sessions   *)
(* of ADPF, come between one another's looks and changes, no start or      *)
(* close leaves more than one session open, beside the one in use.         *)
THEOREM SessionsBoundedAlways == Spec => []SessionsBounded
<1>1. ClientsInv => SessionsBounded
  BY SMT DEF ClientsInv, SessionsBounded, HintInv, HintTypeOK, Hint!SessionsBounded
<1>. QED
  BY <1>1, ClientsInvariant, PTL

(* No callback is kept busy beyond its part of the period, however late    *)
(* the first callbacks were, however long the stream stood still and       *)
(* whatever the app takes.                                                 *)
THEOREM LoadLeavesTimeAlways == Spec => []LoadLeavesTime
<1>1. ClientsInv => LoadLeavesTime
  BY SMT DEF ClientsInv, LoadLeavesTime, EvenInv, EvenTypeOK, CountsFromEpoch, Even!LoadLeavesTime
<1>. QED
  BY <1>1, ClientsInvariant, PTL

(* A full-duplex app is given nothing recorded before it started, and no   *)
(* latency builds up between its two streams: what the input holds is      *)
(* bounded by the cushion, what the app wants there and the drift.         *)
THEOREM FreshInputAlways == Spec => []FreshInput
<1>1. ClientsInv => FreshInput
  BY CountsAssumption, DuplexAssumption, SMT DEF ClientsInv, FreshInput, DuplexInv, DuplexTypeOK, DrainedOfOld, LittleAvailable, Duplex!NothingOldHeard, Duplex!Equilibrium
<1>. QED
  BY <1>1, ClientsInvariant, PTL

(* The frames counted as read are those the device has played, and those   *)
(* that stops found unplayed, whatever the width at which the service's    *)
(* position wraps, if somebody looks at least twice while it goes round.   *)
THEOREM ReadFollowsPlayAlways == Spec => []ReadFollowsPlay
<1>1. ClientsInv => ReadFollowsPlay
  BY SMT DEF ClientsInv, ReadFollowsPlay, PlaceInv, Place!ReadFollowsPlay
<1>. QED
  BY <1>1, ClientsInvariant, PTL

(* No null pointer of AAudio is called, on any version, with any library   *)
(* and any number of threads, unless one has called while another was      *)
(* still linking; and whoever opens the library after that finds all that  *)
(* phone and library have.                                                 *)
THEOREM LinkedBeforeCalledAlways == Spec => []LinkedBeforeCalled
<1>1. ClientsInv => LinkedBeforeCalled
  BY LoaderSafe DEF ClientsInv, LinkedBeforeCalled
<1>. QED
  BY <1>1, ClientsInvariant, PTL

(* Polyphase, sinc and linear resampler: for any ratio of rates and number *)
(* of taps, each frame that is read is made of the last frames written, in *)
(* their order, with the coefficients of its phase, wherever the cursor in *)
(* the delay line and in the table of coefficients stands.                 *)
THEOREM FilterInPlaceAlways == Spec => []FilterInPlace
<1>1. ClientsInv => FilterInPlace
  BY ResamplerSafe DEF ClientsInv, FilterInPlace
<1>. QED
  BY <1>1, ClientsInvariant, PTL

(* A pull through a flow graph of any shape, cycles among them, asks no    *)
(* node to process twice and none that waits for itself; in a simple graph *)
(* each node processes what its inputs made in this pull, and every frame  *)
(* of the source comes out once.                                           *)
THEOREM OncePerPullAlways == Spec => []OncePerPull
<1>1. ClientsInv => OncePerPull
  BY FlowSafe DEF ClientsInv, OncePerPull
<1>. QED
  BY <1>1, ClientsInvariant, PTL
=============================================================================
