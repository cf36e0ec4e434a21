------------------------- MODULE DriversProofs -------------------------
(***************************************************************************)
(* Proofs about Drivers, for buffers of any size: what the code of the     *)
(* drivers takes for granted is so, and each of the five drivers           *)
(* implements Output.                                                      *)
(***************************************************************************)
EXTENDS Drivers, FiniteSetTheorems, SequenceTheorems, TLAPS

Block == 0 .. Ids - 1

SharedInv == next \in Block /\ failures \in Nat

(* InitContext and the thread: the ready channel is open until the thread  *)
(* has begun.                                                              *)
ReadyInv ==
  /\ ready \in {0, 1}
  /\ ~mux => thread = "off" /\ ready = 0
  /\ thread = "start" => driver = "browser" \/ ready = 0

(* What writei has not taken yet is part of a period.                      *)
AlsaInv ==
  /\ device \in Seq(Block) /\ rest \in Seq(Block)
  /\ Len(device) =< Capacity
  /\ Len(rest) =< Period
  /\ thread # "write" => rest = <<>>

(* Each buffer is free or in the queue, not both and not twice.            *)
DarwinInv ==
  /\ unqueued \in Seq(AudioQueue!Buffer) /\ device \in Seq(AudioQueue!Buffer)
  /\ contents \in [AudioQueue!Buffer -> 0 .. Ids]
  /\ AudioQueue!BuffersKept
  /\ AudioQueue!SomethingToAppend

(* Until a driver was chosen the device holds nothing; then it holds no    *)
(* more than there is room for: frames of WASAPI, or headers of WinMM,     *)
(* each at most once.                                                      *)
WasapiInv == device \in Seq(Block) /\ Len(device) =< Capacity

WinmmInv ==
  /\ device \in Seq(Win!Header)
  /\ Win!IsInjective(device)
  /\ Win!HeaderForBuffer

WindowsInv ==
  /\ backend \in {"none", "wasapi", "winmm", "null"}
  /\ contents \in [Win!Header -> 0 .. Ids]
  /\ thread \in {"off", "start"} => backend = "none"
  /\ thread = "null" => backend = "null"
  /\ backend \in {"none", "null"} => device = <<>>
  /\ backend = "wasapi" => WasapiInv
  /\ backend = "winmm" => WinmmInv

(* The worklet has asked once, and not before it held less than half of an *)
(* answer; without worklets nothing is asked for.                          *)
BrowserInv ==
  /\ buf \in Seq(Block) /\ answers \in Seq(Seq(Block))
  /\ \A i \in DOMAIN answers : Len(answers[i]) = Answer
  /\ requests \in Nat /\ waitRecv \in BOOLEAN
  /\ JS!OneMessage
  /\ waitRecv => 2 * Len(buf) < Answer
  /\ ~worklet => ~waitRecv
  /\ Len(buf) =< JS!Bound
  /\ resumes \in Nat /\ (resumes > 0 => thread = "page")

DriversInv ==
  /\ SharedInv
  /\ driver \in Built
  /\ ReadyInv
  /\ driver = "oboe" => Oboe!OboeInv
  /\ driver = "alsa" => AlsaInv
  /\ driver = "darwin" => DarwinInv
  /\ driver = "windows" => WindowsInv
  /\ driver = "browser" => BrowserInv

-----------------------------------------------------------------------------
(* The blocks that are mixed, and what is taken from a sequence.           *)
LEMMA Constants ==
  /\ Ids \in Nat /\ Ids > 1
  /\ 3 * Frames \in 1 .. Ids - 1
  /\ Period \in 1 .. Ids - 1 /\ Capacity \in 1 .. Ids - 1 /\ Answer \in 1 .. Ids - 1
  /\ Buffers \in Nat \ {0} /\ Frames \in Nat \ {0} /\ MaxAsk \in 1 .. 3 * Frames
<1>1. Ids \in Nat \ {0}
  BY IdsAssumption
<1>2. 1 \in 1 .. Ids - 1
  BY IdsSuffice
<1>3. Buffers \in Nat \ {0}
  BY SizesAssumption
<1>4. QED
  BY <1>1, <1>2, <1>3, IdsSuffice, AskAssumption

LEMMA NextInRange ==
  ASSUME next \in Block, NEW k \in Nat
  PROVE  (next + k) % Ids \in Block
BY IdsAssumption DEF Block

LEMMA BlocksInRange ==
  ASSUME next \in Block, NEW k \in Nat
  PROVE  /\ Blocks(k) \in Seq(Block)
         /\ Len(Blocks(k)) = k
<1>1. \A i \in 1 .. k : (next + i - 1) % Ids \in Block
  BY IdsAssumption DEF Block
<1>2. QED
  BY <1>1 DEF Blocks

LEMMA AppendInRange ==
  ASSUME NEW S, NEW s \in Seq(S), NEW t \in Seq(S)
  PROVE  s \o t \in Seq(S) /\ Len(s \o t) = Len(s) + Len(t)
OBVIOUS

LEMMA DroppedInRange ==
  ASSUME NEW S, NEW s \in Seq(S), NEW k \in 0 .. Len(s)
  PROVE  /\ Dropped(s, k) \in Seq(S) /\ Len(Dropped(s, k)) = Len(s) - k
         /\ Taken(s, k) \in Seq(S) /\ Len(Taken(s, k)) = k
         /\ Taken(s, k) \o Dropped(s, k) = s
<1>1. Dropped(s, k) \in Seq(S) /\ Len(Dropped(s, k)) = Len(s) - k
  BY DEF Dropped
<1>2. Taken(s, k) \in Seq(S) /\ Len(Taken(s, k)) = k
  BY DEF Taken
<1> DEFINE whole == Taken(s, k) \o Dropped(s, k)
<1>3. whole \in Seq(S) /\ Len(whole) = Len(s)
  BY <1>1, <1>2, AppendInRange
<1>4. ASSUME NEW i \in 1 .. Len(s)
      PROVE  whole[i] = s[i]
  <2>1. CASE i =< k
    <3>1. whole[i] = Taken(s, k)[i]
      BY <1>1, <1>2, <2>1
    <3>2. QED
      BY <2>1, <3>1 DEF Taken
  <2>2. CASE i > k
    <3>1. whole[i] = Dropped(s, k)[i - k]
      BY <1>1, <1>2, <2>2
    <3>2. i - k \in 1 .. Len(s) - k
      BY <2>2
    <3>3. Dropped(s, k)[i - k] = s[k + 1 + (i - k) - 1]
      BY <3>2 DEF Dropped
    <3>4. QED
      BY <3>1, <3>3
  <2>3. i \in Nat /\ k \in Nat
    OBVIOUS
  <2> HIDE DEF whole
  <2>4. QED
    BY <2>1, <2>2, <2>3
<1>5. whole = s
  <2> HIDE DEF whole
  <2>1. QED
    BY <1>3, <1>4
<1>6. QED
  BY <1>1, <1>2, <1>5

LEMMA EmptySubSeq ==
  ASSUME NEW S, NEW s \in Seq(S)
  PROVE  /\ SubSeq(s, 1, 0) = <<>>
         /\ SubSeq(s, 1, Len(s)) = s
         /\ SubSeq(s, Len(s) + 1, Len(s)) = <<>>
OBVIOUS

(* Writing a part of what is left leaves the whole as it was.              *)
LEMMA WrittenPart ==
  ASSUME NEW S, NEW r \in Seq(S), NEW s \in Seq(S), NEW k \in 0 .. Len(s)
  PROVE  (r \o Taken(s, k)) \o Dropped(s, k) = r \o s
<1>1. PICK t \in Seq(S) : t = Taken(s, k)
  BY DroppedInRange
<1>2. PICK d \in Seq(S) : d = Dropped(s, k)
  BY DroppedInRange
<1>3. (r \o t) \o d = r \o (t \o d)
  BY ConcatAssociative, SMTT(20)
<1>4. t \o d = s
  BY <1>1, <1>2, DroppedInRange
<1>5. QED
  BY <1>1, <1>2, <1>3, <1>4

(* What is taken from the first part of a sequence is taken from it.       *)
LEMMA DroppedOfFirst ==
  ASSUME NEW S, NEW s \in Seq(S), NEW t \in Seq(S), NEW k \in 0 .. Len(s)
  PROVE  Dropped(s, k) \o t = SubSeq(s \o t, k + 1, Len(s \o t))
<1> DEFINE left == Dropped(s, k) \o t
           right == SubSeq(s \o t, k + 1, Len(s \o t))
<1>1. Dropped(s, k) \in Seq(S) /\ Len(Dropped(s, k)) = Len(s) - k
  BY DroppedInRange
<1>2. left \in Seq(S) /\ Len(left) = Len(s) + Len(t) - k
  BY <1>1, AppendInRange
<1>3. s \o t \in Seq(S) /\ Len(s \o t) = Len(s) + Len(t)
  BY AppendInRange
<1>4. right \in Seq(S) /\ Len(right) = Len(s) + Len(t) - k
  BY <1>3
<1>5. ASSUME NEW i \in 1 .. Len(s) + Len(t) - k
      PROVE  left[i] = right[i]
  <2>1. right[i] = (s \o t)[k + i]
    BY <1>3
  <2>2. CASE i =< Len(s) - k
    <3>1. left[i] = Dropped(s, k)[i]
      BY <1>1, <2>2
    <3>2. Dropped(s, k)[i] = s[k + i]
      BY <2>2 DEF Dropped
    <3>3. (s \o t)[k + i] = s[k + i]
      BY <2>2
    <3> HIDE DEF left, right
    <3>4. QED
      BY <2>1, <3>1, <3>2, <3>3
  <2>3. CASE i > Len(s) - k
    <3>1. left[i] = t[i - (Len(s) - k)]
      BY <1>1, <2>3
    <3>2. (s \o t)[k + i] = t[k + i - Len(s)]
      BY <2>3
    <3>3. i - (Len(s) - k) = k + i - Len(s)
      OBVIOUS
    <3> HIDE DEF left, right
    <3>4. QED
      BY <2>1, <3>1, <3>2, <3>3
  <2>4. i \in Int /\ Len(s) - k \in Int
    OBVIOUS
  <2> HIDE DEF left, right
  <2>5. QED
    BY <2>2, <2>3, <2>4
<1> HIDE DEF left, right
<1>6. left = right
  BY <1>2, <1>4, <1>5, SeqEqual
<1>7. QED
  BY <1>6 DEF left, right

LEMMA OneElement ==
  ASSUME NEW S, NEW s \in Seq(S), Len(s) = 1
  PROVE  Tail(s) = <<>>
<1>1. Tail(s) \in Seq(S) /\ Len(Tail(s)) = 0
  OBVIOUS
<1>2. QED
  BY <1>1, EmptySeq

(* The steps of the promise, for whatever waits to be heard.               *)
LEMMA Mixes ==
  ASSUME NEW k \in 1 .. Ids - 1, Len(Waiting) + k =< Bound,
         Reads(k), Waiting' = Waiting \o Blocks(k)
  PROVE  Promised!Next
BY DEF Promised!Next, Promised!Mix, Reads, Blocks

LEMMA Hears ==
  ASSUME NEW k \in 1 .. Len(Waiting), Waiting' = SubSeq(Waiting, k + 1, Len(Waiting)),
         UNCHANGED next
  PROVE  Promised!Next
BY DEF Promised!Next, Promised!Hear

LEMMA Loses ==
  ASSUME failures' # failures \/ (driver = "windows" /\ Win!Away),
         NEW first \in 1 .. Len(Waiting) + 1, NEW last \in 0 .. Len(Waiting),
         Waiting' = SubSeq(Waiting, first, last),
         NEW k \in 0 .. Ids - 1, Reads(k)
  PROVE  Promised!Next
BY DEF Promised!Next, Promised!Lose, Reads

LEMMA ReadsNothing ==
  ASSUME next \in Block, UNCHANGED next
  PROVE  Reads(0)
BY IdsAssumption DEF Reads, Block

(* What remains of a sequence of which all, or only the end, is lost.      *)
LEMMA LosesAll ==
  ASSUME failures' # failures \/ (driver = "windows" /\ Win!Away),
         NEW S, Waiting \in Seq(S), Waiting' = <<>>,
         NEW k \in 0 .. Ids - 1, Reads(k)
  PROVE  Promised!Next
<1>1. Waiting' = SubSeq(Waiting, 1, 0)
  BY EmptySubSeq
<1>2. QED
  BY <1>1, Loses

LEMMA LosesTheNew ==
  ASSUME failures' # failures \/ (driver = "windows" /\ Win!Away),
         NEW S, Waiting \in Seq(S), Waiting' = Waiting,
         NEW k \in 0 .. Ids - 1, Reads(k)
  PROVE  Promised!Next
<1>1. Waiting' = SubSeq(Waiting, 1, Len(Waiting))
  BY EmptySubSeq
<1>2. QED
  BY <1>1, Loses

-----------------------------------------------------------------------------
(* ALSA: periods are mixed only when the last one was written.             *)
LEMMA AlsaStep ==
  ASSUME SharedInv, AlsaInv, driver = "alsa", driver' = "alsa",
         \/ ALSA!Thread \/ ALSA!Device
  PROVE  /\ AlsaInv' /\ SharedInv'
         /\ [Promised!Next]_<<next, Waiting>>
<1> USE DEF AlsaInv, SharedInv
<1>1. Waiting = device \o rest /\ Waiting' = device' \o rest' /\ Bound = Capacity + Period
  BY DEF Waiting, Bound, ALSA!Waiting, ALSA!Bound
<1>2. Waiting \in Seq(Block) /\ Len(Waiting) = Len(device) + Len(rest)
  BY <1>1
<1>3. CASE ALSA!Open
  BY <1>1, <1>3 DEF ALSA!Open, ALSA!own, ALSA!Aborts, ALSA!Works, ALSA!Fails
<1>4. CASE ALSA!Read
  <2>1. /\ rest' = Blocks(Period) /\ Reads(Period)
        /\ device' = device /\ thread' = "write" /\ rest = <<>> /\ failures' = failures
    BY <1>4 DEF ALSA!Read, ALSA!Reads, ALSA!Blocks, Reads, Blocks
  <2>2. Period \in 1 .. Ids - 1
    BY Constants
  <2>3. rest' \in Seq(Block) /\ Len(rest') = Period
    BY <2>1, <2>2, BlocksInRange
  <2>4. next' \in Block
    BY <2>1, <2>2, NextInRange DEF Reads
  <2>5. Waiting' = Waiting \o Blocks(Period) /\ Len(Waiting) + Period =< Bound
    BY <1>1, <1>2, <2>1, <2>2, Constants
  <2>6. Promised!Next
    BY <2>1, <2>2, <2>5, Mixes
  <2>7. QED
    BY <2>1, <2>2, <2>3, <2>4, <2>6
<1>5. ASSUME NEW k \in 1 .. Len(rest), ALSA!Write(k)
      PROVE  AlsaInv' /\ SharedInv' /\ UNCHANGED <<next, Waiting>>
  <2>1. /\ device' = device \o Taken(rest, k) /\ rest' = Dropped(rest, k)
        /\ Len(device) + k =< Capacity /\ next' = next /\ failures' = failures
        /\ thread' = IF rest' = <<>> THEN "read" ELSE "write"
    BY <1>5 DEF ALSA!Write, ALSA!Taken, ALSA!Dropped, Taken, Dropped
  <2>2. /\ Dropped(rest, k) \in Seq(Block) /\ Len(Dropped(rest, k)) = Len(rest) - k
        /\ Taken(rest, k) \in Seq(Block) /\ Len(Taken(rest, k)) = k
        /\ Taken(rest, k) \o Dropped(rest, k) = rest
    BY DroppedInRange
  <2>3. device' \in Seq(Block) /\ Len(device') = Len(device) + k
    BY <2>1, <2>2, AppendInRange
  <2>4. Waiting' = Waiting
    <3>1. Waiting' = (device \o Taken(rest, k)) \o Dropped(rest, k)
      BY <1>1, <2>1
    <3>2. k \in 0 .. Len(rest)
      OBVIOUS
    <3>3. (device \o Taken(rest, k)) \o Dropped(rest, k) = device \o rest
      BY <3>2, WrittenPart
    <3>4. QED
      BY <1>1, <3>1, <3>3
  <2>5. Len(rest') =< Period
    BY <2>1, <2>2, Constants
  <2>6. QED
    BY <2>1, <2>2, <2>3, <2>4, <2>5
<1>6. CASE ALSA!Recover
  <2>1. /\ failures' # failures /\ failures' \in Nat /\ next' = next /\ rest' = rest /\ thread' = thread
        /\ device' = device \/ device' = <<>>
    BY <1>6 DEF ALSA!Recover, ALSA!Fails
  <2>2. CASE device' = device
    BY <1>1, <2>1, <2>2
  <2>3. CASE device' = <<>>
    <3>1. Waiting' = rest
      BY <1>1, <2>1, <2>3
    <3>2. SubSeq(Waiting, Len(device) + 1, Len(Waiting)) = rest
      BY <1>1
    <3>3. Promised!Next
      <4>1. Len(device) + 1 \in 1 .. Len(Waiting) + 1 /\ Len(Waiting) \in 0 .. Len(Waiting)
        BY <1>2
      <4>2. Reads(0) /\ 0 \in 0 .. Ids - 1
        BY <2>1, ReadsNothing, Constants
      <4>3. QED
        BY <2>1, <3>1, <3>2, <4>1, <4>2, Loses
    <3>4. QED
      BY <2>1, <2>3, <3>3, Constants
  <2>4. QED
    BY <2>1, <2>2, <2>3
<1>7. CASE ALSA!GiveUp
  <2>1. failures' # failures /\ failures' \in Nat /\ next' = next /\ rest' = <<>> /\ device' = <<>>
    BY <1>7 DEF ALSA!GiveUp, ALSA!Fails
  <2>2. Waiting' = <<>>
    BY <1>1, <2>1
  <2>3. Promised!Next
    BY <1>2, <2>1, <2>2, LosesAll, ReadsNothing, Constants
  <2>4. QED
    BY <2>1, <2>3, Constants
<1>8. CASE ALSA!Device
  <2>1. /\ device # <<>> /\ device' = Tail(device) /\ rest' = rest
        /\ next' = next /\ thread' = thread /\ failures' = failures
    BY <1>8 DEF ALSA!Device, ALSA!own
  <2>2. device' \in Seq(Block) /\ Len(device') = Len(device) - 1 /\ Len(device) > 0
    BY <2>1
  <2>3. Waiting' = SubSeq(Waiting, 2, Len(Waiting))
    BY <1>1, <2>1, <2>2
  <2>4. Promised!Next
    <3>1. 1 \in 1 .. Len(Waiting)
      BY <1>2, <2>2
    <3>2. Waiting' = SubSeq(Waiting, 1 + 1, Len(Waiting))
      BY <2>3
    <3>3. QED
      BY <2>1, <3>1, <3>2, Hears
  <2>5. QED
    BY <2>1, <2>2, <2>4, Constants
<1>9. QED
  BY <1>3, <1>4, <1>5, <1>6, <1>7, <1>8 DEF ALSA!Thread

-----------------------------------------------------------------------------
(* Oboe: its invariant is that of the binding by itself; Loop mixes when   *)
(* nothing it mixed is left, and a callback takes from the front of buf_.  *)
LEMMA OboePromise ==
  ASSUME SharedInv, Oboe!OboeInv, driver = "oboe", driver' = "oboe",
         \/ Oboe!Thread \/ Oboe!Device \/ Oboe!Environment
  PROVE  /\ Oboe!OboeInv' /\ SharedInv'
         /\ [Promised!Next]_<<next, Waiting>>
<1> DEFINE Values == 0 .. Ids
<1>1. Oboe!OboeInv'
  <2>1. [Oboe!Next]_Oboe!vars
    BY DEF Oboe!Next
  <2>2. Frames \in Nat \ {0} /\ MaxAsk \in 1 .. 3 * Frames
    BY AskAssumption
  <2>3. Oboe!OboeInv /\ [Oboe!Next]_Oboe!vars => Oboe!OboeInv'
    BY <2>2, Oboe!OboeStep, IdsAssumption, MaxFailuresAssumption
  <2>4. QED
    BY <2>1, <2>3
<1>2. Waiting = buf \o tmp /\ Waiting' = buf' \o tmp' /\ Bound = 2 * Oboe!Chunk - 1
  BY DEF Waiting, Bound, Oboe!Waiting, Oboe!Bound
<1>3. buf \in Seq(Values) /\ tmp \in Seq(Values) /\ ask \in 0 .. MaxAsk
  BY DEF Oboe!OboeInv
<1>4. Waiting \in Seq(Values) /\ Len(Waiting) = Len(buf) + Len(tmp)
  BY <1>2, <1>3
<1>5. Oboe!Chunk = 3 * Frames /\ 3 * Frames \in 1 .. Ids - 1
  BY Constants DEF Oboe!Chunk
<1>6. ASSUME UNCHANGED <<next, buf, tmp>>, failures' = failures \/ Fails
      PROVE  SharedInv' /\ UNCHANGED <<next, Waiting>>
  BY <1>2, <1>6 DEF SharedInv, Fails
<1>7. CASE Oboe!Open
  BY <1>1, <1>6, <1>7 DEF Oboe!Open, Oboe!own, Oboe!Works, Oboe!Fails, Fails
<1>8. CASE Oboe!LookProducer
  BY <1>1, <1>6, <1>8 DEF Oboe!LookProducer, Oboe!own
<1>9. CASE Oboe!Mix
  <2> DEFINE k == 3 * Frames
  <2>1. /\ tmp' = Blocks(k) /\ Reads(k)
        /\ buf' = buf /\ thread = "mix" /\ failures' = failures
    BY <1>5, <1>9 DEF Oboe!Mix, Oboe!Reads, Oboe!Blocks, Reads, Blocks
  <2>2. Len(buf) < k /\ Len(tmp) = 0
    BY <1>5, <2>1 DEF Oboe!OboeInv, Oboe!RoomForChunk
  <2>3. next' \in Block
    BY <1>5, <2>1, NextInRange DEF Reads, SharedInv
  <2>4. Waiting = buf
    BY <1>2, <1>3, <2>2
  <2>5. Waiting' = Waiting \o Blocks(k) /\ Len(Waiting) + k =< Bound
    BY <1>2, <1>3, <1>5, <2>1, <2>2, <2>4
  <2>6. Promised!Next
    BY <1>5, <2>1, <2>5, Mixes
  <2>7. QED
    BY <1>1, <2>1, <2>3, <2>6 DEF SharedInv
<1>10. CASE Oboe!Insert
  <2>1. buf' = buf \o tmp /\ tmp' = <<>> /\ next' = next /\ failures' = failures
    BY <1>10 DEF Oboe!Insert
  <2>2. Waiting' = Waiting
    BY <1>2, <1>4, <2>1
  <2>3. QED
    BY <1>1, <2>1, <2>2 DEF SharedInv
<1>11. CASE Oboe!AudioReady
  BY <1>1, <1>6, <1>11 DEF Oboe!AudioReady, Oboe!shared
<1>12. CASE Oboe!Take
  <2>1. /\ Len(buf) >= ask /\ buf' = Dropped(buf, ask)
        /\ tmp' = tmp /\ next' = next /\ failures' = failures
    BY <1>12 DEF Oboe!Take, Oboe!Dropped, Dropped
  <2>2. ask \in 0 .. Len(buf) /\ ask \in Nat
    BY <1>3, <2>1, Constants
  <2>3. Waiting' = SubSeq(Waiting, ask + 1, Len(Waiting))
    BY <1>2, <1>3, <2>1, <2>2, DroppedOfFirst
  <2>4. CASE ask = 0
    <3>1. Waiting' = Waiting
      BY <1>4, <2>3, <2>4, EmptySubSeq
    <3>2. QED
      BY <1>1, <2>1, <3>1 DEF SharedInv
  <2>5. CASE ask # 0
    <3>1. ask \in 1 .. Len(Waiting)
      BY <1>3, <1>4, <2>2, <2>5
    <3>2. Promised!Next
      BY <2>1, <2>3, <3>1, Hears
    <3>3. QED
      BY <1>1, <2>1, <3>2 DEF SharedInv
  <2>6. QED
    BY <2>4, <2>5
<1>13. CASE Oboe!Sleep
  BY <1>1, <1>6, <1>13 DEF Oboe!Sleep, Oboe!shared
<1>14. CASE Oboe!SpuriousWakeup
  BY <1>1, <1>6, <1>14 DEF Oboe!SpuriousWakeup
<1>15. QED
  BY <1>7, <1>8, <1>9, <1>10, <1>11, <1>12, <1>13, <1>14
  DEF Oboe!Thread, Oboe!Device, Oboe!Environment

-----------------------------------------------------------------------------
(* Buffers in the queue of a device, for Darwin and WinMM: each of them    *)
(* once, so that there are no more than there are buffers, and what is     *)
(* heard of them is what was in them when they were queued.                *)
Places == 1 .. Buffers
Contents == 0 .. Ids
Distinct(s) == \A i, j \in 1 .. Len(s) : s[i] = s[j] => i = j
ContentsOf(c, s) == [i \in DOMAIN s |-> c[s[i]]]

LEMMA DistinctBound ==
  ASSUME NEW n \in Nat, NEW s \in Seq(1 .. n), Distinct(s)
  PROVE  Len(s) =< n
<1>1. s \in Injection(1 .. Len(s), 1 .. n)
  BY DEF Distinct, Injection, IsInjective
<1>2. IsFiniteSet(1 .. n) /\ Cardinality(1 .. n) = n
  BY FS_Interval
<1>3. Cardinality(1 .. Len(s)) = Len(s)
  <2>1. PICK m \in Nat : m = Len(s)
    OBVIOUS
  <2>2. Cardinality(1 .. m) = m
    BY FS_Interval
  <2>3. QED
    BY <2>1, <2>2
<1>4. Cardinality(1 .. Len(s)) =< Cardinality(1 .. n)
  BY <1>1, <1>2, FS_Injection
<1>5. QED
  BY <1>2, <1>3, <1>4

LEMMA DistinctAppend ==
  ASSUME NEW S, NEW s \in Seq(S), Distinct(s), NEW b \in S,
         \A i \in 1 .. Len(s) : s[i] # b
  PROVE  Distinct(Append(s, b))
BY DEF Distinct

LEMMA DistinctTail ==
  ASSUME NEW S, NEW s \in Seq(S), Distinct(s), s # <<>>
  PROVE  /\ Tail(s) \in Seq(S) /\ Distinct(Tail(s)) /\ Len(Tail(s)) = Len(s) - 1
         /\ \A i \in 1 .. Len(s) - 1 : Tail(s)[i] = s[i + 1]
BY DEF Distinct

LEMMA ContentsType ==
  ASSUME NEW c \in [Places -> Contents], NEW s \in Seq(Places)
  PROVE  /\ ContentsOf(c, s) \in Seq(Contents)
         /\ Len(ContentsOf(c, s)) = Len(s)
         /\ \A i \in 1 .. Len(s) : ContentsOf(c, s)[i] = c[s[i]]
<1>1. DOMAIN s = 1 .. Len(s) /\ \A i \in 1 .. Len(s) : c[s[i]] \in Contents
  OBVIOUS
<1>2. QED
  BY <1>1 DEF ContentsOf

(* A buffer that is not in the queue may be filled again.                  *)
LEMMA ContentsFilled ==
  ASSUME NEW c \in [Places -> Contents], NEW s \in Seq(Places), NEW b \in Places, NEW v \in Contents,
         \A i \in 1 .. Len(s) : s[i] # b
  PROVE  /\ ContentsOf([c EXCEPT ![b] = v], s) = ContentsOf(c, s)
         /\ ContentsOf([c EXCEPT ![b] = v], Append(s, b)) = Append(ContentsOf(c, s), v)
<1> DEFINE d == [c EXCEPT ![b] = v]
<1>1. d \in [Places -> Contents] /\ d[b] = v /\ \A i \in 1 .. Len(s) : d[s[i]] = c[s[i]]
  OBVIOUS
<1> HIDE DEF d
<1>2. ContentsOf(d, s) = ContentsOf(c, s)
  BY <1>1, ContentsType, SeqEqual
<1>3. PICK longer \in Seq(Places) : longer = Append(s, b) /\ Len(longer) = Len(s) + 1
  <2>1. Append(s, b) \in Seq(Places) /\ Len(Append(s, b)) = Len(s) + 1
    OBVIOUS
  <2>2. QED
    BY <2>1, Zenon
<1>4. /\ ContentsOf(d, longer) \in Seq(Contents)
      /\ Len(ContentsOf(d, longer)) = Len(s) + 1
      /\ \A i \in 1 .. Len(s) + 1 : ContentsOf(d, longer)[i] = d[longer[i]]
  <2>1. /\ ContentsOf(d, longer) \in Seq(Contents)
        /\ Len(ContentsOf(d, longer)) = Len(longer)
        /\ \A i \in 1 .. Len(longer) : ContentsOf(d, longer)[i] = d[longer[i]]
    BY <1>1, ContentsType, Zenon
  <2>2. QED
    BY <1>3, <2>1
<1>5. /\ ContentsOf(c, s) \in Seq(Contents) /\ Len(ContentsOf(c, s)) = Len(s)
      /\ \A i \in 1 .. Len(s) : ContentsOf(c, s)[i] = c[s[i]]
  BY ContentsType
<1>6. /\ Append(ContentsOf(c, s), v) \in Seq(Contents)
      /\ Len(Append(ContentsOf(c, s), v)) = Len(s) + 1
  BY <1>5
<1>7. ASSUME NEW i \in 1 .. Len(s) + 1
      PROVE  ContentsOf(d, longer)[i] = Append(ContentsOf(c, s), v)[i]
  <2>1. CASE i = Len(s) + 1
    BY <1>1, <1>3, <1>4, <1>5, <2>1
  <2>2. CASE i \in 1 .. Len(s)
    <3>1. longer[i] = s[i] /\ Append(ContentsOf(c, s), v)[i] = ContentsOf(c, s)[i]
      BY <1>3, <1>5, <2>2
    <3>2. QED
      BY <1>1, <1>4, <1>5, <2>2, <3>1
  <2>3. i = Len(s) + 1 \/ i \in 1 .. Len(s)
    OBVIOUS
  <2>4. QED
    BY <2>1, <2>2, <2>3
<1>8. ContentsOf(d, longer) = Append(ContentsOf(c, s), v)
  BY <1>4, <1>6, <1>7, SeqEqual
<1>9. QED
  BY <1>2, <1>3, <1>8 DEF d

LEMMA ContentsTail ==
  ASSUME NEW c \in [Places -> Contents], NEW s \in Seq(Places), s # <<>>
  PROVE  ContentsOf(c, Tail(s)) = SubSeq(ContentsOf(c, s), 2, Len(s))
<1>1. /\ Tail(s) \in Seq(Places) /\ Len(Tail(s)) = Len(s) - 1
      /\ \A i \in 1 .. Len(s) - 1 : Tail(s)[i] = s[i + 1]
  OBVIOUS
<1>2. /\ ContentsOf(c, s) \in Seq(Contents) /\ Len(ContentsOf(c, s)) = Len(s)
      /\ \A i \in 1 .. Len(s) : ContentsOf(c, s)[i] = c[s[i]]
  BY ContentsType
<1>3. /\ ContentsOf(c, Tail(s)) \in Seq(Contents) /\ Len(ContentsOf(c, Tail(s))) = Len(s) - 1
      /\ \A i \in 1 .. Len(s) - 1 : ContentsOf(c, Tail(s))[i] = c[Tail(s)[i]]
  <2>1. PICK t \in Seq(Places) : t = Tail(s) /\ Len(t) = Len(s) - 1
    BY <1>1
  <2>2. /\ ContentsOf(c, t) \in Seq(Contents) /\ Len(ContentsOf(c, t)) = Len(t)
        /\ \A i \in 1 .. Len(t) : ContentsOf(c, t)[i] = c[t[i]]
    BY ContentsType
  <2>3. QED
    BY <2>1, <2>2
<1> DEFINE rest1 == SubSeq(ContentsOf(c, s), 2, Len(s))
<1>4. /\ rest1 \in Seq(Contents) /\ Len(rest1) = Len(s) - 1
      /\ \A i \in 1 .. Len(s) - 1 : rest1[i] = ContentsOf(c, s)[i + 1]
  BY <1>2
<1> HIDE DEF rest1
<1>5. \A i \in 1 .. Len(s) - 1 : ContentsOf(c, Tail(s))[i] = rest1[i]
  BY <1>1, <1>2, <1>3, <1>4
<1>6. ContentsOf(c, Tail(s)) = rest1
  BY <1>3, <1>4, <1>5, SeqEqual
<1>7. QED
  BY <1>6 DEF rest1

LEMMA OneBlock ==
  ASSUME next \in Block
  PROVE  Blocks(1) = <<next>>
<1>1. \A i \in 1 .. 1 : (next + i - 1) % Ids = next
  BY IdsAssumption DEF Block
<1>2. QED
  BY <1>1 DEF Blocks

LEMMA AppendsBlock ==
  ASSUME next \in Block, NEW S, NEW s \in Seq(S), next \in S
  PROVE  Append(s, next) = s \o Blocks(1)
<1>1. Append(s, next) = s \o <<next>>
  OBVIOUS
<1>2. QED
  BY <1>1, OneBlock

-----------------------------------------------------------------------------
(* WASAPI: never more is mixed than there is room for; while there is no   *)
(* device what is mixed is thrown away.                                    *)
LEMMA WasapiStep ==
  ASSUME SharedInv, WindowsInv, driver = "windows", driver' = "windows",
         backend = "wasapi", UNCHANGED <<backend, contents>>,
         \/ Win!Render \/ Win!PlayPeriod \/ Win!Plug
  PROVE  /\ WindowsInv' /\ SharedInv'
         /\ [Promised!Next]_<<next, Waiting>>
<1>1. Waiting = device /\ Waiting' = device' /\ Bound = Capacity
  BY DEF Waiting, Bound, Win!Waiting, Win!Bound
<1>2. device \in Seq(Block) /\ Len(device) =< Capacity /\ Capacity \in 1 .. Ids - 1
  BY Constants DEF WindowsInv, WasapiInv
<1>3. next \in Block /\ failures \in Nat /\ thread \notin {"off", "start", "null"}
  BY DEF WindowsInv, SharedInv
<1>4. ASSUME device' \in Seq(Block), Len(device') =< Capacity, next' \in Block, failures' \in Nat,
             thread' \notin {"off", "start", "null"}
      PROVE  WindowsInv' /\ SharedInv'
  BY <1>4 DEF WindowsInv, WasapiInv, SharedInv
<1>5. ASSUME device' = <<>>, NEW k \in 0 .. Ids - 1, Reads(k),
             \/ failures' = failures + 1
             \/ thread = "restart" /\ failures' = failures,
             thread' \notin {"off", "start", "null"}
      PROVE  WindowsInv' /\ SharedInv' /\ Promised!Next
  <2>1. next' \in Block
    BY <1>3, <1>5, NextInRange DEF Reads
  <2>2. failures' # failures \/ (driver = "windows" /\ Win!Away)
    BY <1>3, <1>5 DEF Win!Away
  <2>3. Promised!Next
    BY <1>1, <1>2, <1>5, <2>2, LosesAll
  <2>4. QED
    BY <1>2, <1>3, <1>4, <1>5, <2>1, <2>3
<1>6. ASSUME UNCHANGED <<next, device>>, failures' = failures \/ failures' = failures + 1,
             thread' \notin {"off", "start", "null"}
      PROVE  WindowsInv' /\ SharedInv' /\ UNCHANGED <<next, Waiting>>
  BY <1>1, <1>2, <1>3, <1>4, <1>6
<1>7. Win!Room \in 0 .. Ids - 1
  <2>1. Len(device) \in Nat /\ Ids \in Nat
    BY <1>2, Constants
  <2>2. QED
    BY <1>2, <2>1 DEF Win!Room
<1>8. CASE Win!WaitForEvent
  BY <1>6, <1>8 DEF Win!WaitForEvent, Win!Works, Win!Fails, Win!Aborts
<1>9. CASE Win!Write
  <2>1. /\ Reads(Win!Room) /\ device' = device \o Blocks(Win!Room)
        /\ thread' \in {"wait", "poll"} /\ failures' = failures
    BY <1>9 DEF Win!Write, Win!Reads, Win!Blocks, Reads, Blocks
  <2>2. Blocks(Win!Room) \in Seq(Block) /\ Len(Blocks(Win!Room)) = Win!Room
    BY <1>3, <1>7, BlocksInRange
  <2>3. next' \in Block
    BY <1>3, <1>7, <2>1, NextInRange DEF Reads
  <2>4. device' \in Seq(Block) /\ Len(device') = Capacity
    BY <1>2, <2>1, <2>2, AppendInRange DEF Win!Room
  <2>5. WindowsInv' /\ SharedInv'
    BY <1>2, <1>3, <1>4, <2>1, <2>3, <2>4
  <2>6. CASE Win!Room = 0
    <3>1. Blocks(Win!Room) = <<>>
      BY <2>2, <2>6
    <3>2. device' = device
      BY <1>2, <2>1, <3>1
    <3>3. next' = next
      BY <1>3, <2>1, <2>6, IdsAssumption DEF Reads, Block
    <3>4. QED
      BY <1>1, <2>5, <3>2, <3>3
  <2>7. CASE Win!Room # 0
    <3>1. Win!Room \in 1 .. Ids - 1
      BY <1>7, <2>7
    <3>2. Len(Waiting) + Win!Room =< Bound
      BY <1>1, <1>2 DEF Win!Room
    <3>3. Promised!Next
      BY <1>1, <2>1, <3>1, <3>2, Mixes
    <3>4. QED
      BY <2>5, <3>3
  <2>8. QED
    BY <2>6, <2>7
<1>10. CASE Win!FindClientGone
  BY <1>6, <1>10 DEF Win!FindClientGone, Win!Restarts
<1>11. CASE Win!FailToWrite
  <2>1. /\ device' = <<>> /\ failures' = failures + 1
        /\ thread' \in {"restart", "done"}
        /\ Reads(Win!Room) \/ UNCHANGED next
    BY <1>11 DEF Win!FailToWrite, Win!Fails, Win!Reads, Reads, Win!Restarts, Win!Aborts
  <2>2. CASE Reads(Win!Room)
    BY <1>5, <1>7, <2>1, <2>2
  <2>3. CASE UNCHANGED next
    <3>1. Reads(0) /\ 0 \in 0 .. Ids - 1
      BY <1>3, <2>3, ReadsNothing, Constants
    <3>2. QED
      BY <1>5, <2>1, <3>1
  <2>4. QED
    BY <2>1, <2>2, <2>3
<1>12. CASE Win!Poll
  BY <1>6, <1>12 DEF Win!Poll, Win!Works, Win!Fails, Win!Restarts, Win!Aborts
<1>13. CASE Win!Restart
  <2>1. /\ device' = <<>> /\ next' = next /\ thread = "restart"
        /\ thread' \in {"wait", "done"}
        /\ failures' = failures \/ failures' = failures + 1
    BY <1>13 DEF Win!Restart, Win!Works, Win!Fails, Win!Aborts
  <2>2. Reads(0) /\ 0 \in 0 .. Ids - 1
    BY <1>3, <2>1, ReadsNothing, Constants
  <2>3. QED
    BY <1>5, <2>1, <2>2
<1>14. CASE Win!Discard
  <2>1. /\ Reads(1) /\ UNCHANGED <<device, thread, failures>> /\ thread = "restart"
    BY <1>14 DEF Win!Discard, Reads
  <2>2. next' \in Block
    BY <1>3, <2>1, NextInRange DEF Reads
  <2>3. Promised!Next
    <3>1. driver = "windows" /\ Win!Away
      BY <2>1 DEF Win!Away
    <3>2. 1 \in 0 .. Ids - 1
      BY Constants
    <3>3. QED
      BY <1>1, <1>2, <2>1, <3>1, <3>2, LosesTheNew
  <2>4. QED
    BY <1>2, <1>3, <1>4, <2>1, <2>2, <2>3
<1>15. CASE Win!PlayPeriod
  <2>1. /\ UNCHANGED <<next, thread, failures>>
        /\ device' = IF device = <<>> THEN device ELSE Tail(device)
    BY <1>15 DEF Win!PlayPeriod
  <2>2. CASE device = <<>>
    BY <1>3, <1>6, <2>1, <2>2
  <2>3. CASE device # <<>>
    <3>1. device' = SubSeq(device, 1 + 1, Len(device)) /\ 1 \in 1 .. Len(device)
      BY <1>2, <2>1, <2>3
    <3>2. device' \in Seq(Block) /\ Len(device') =< Capacity
      BY <1>2, <2>1, <2>3
    <3>3. Promised!Next
      BY <1>1, <2>1, <3>1, Hears
    <3>4. QED
      BY <1>3, <1>4, <2>1, <3>2, <3>3
  <2>4. QED
    BY <2>2, <2>3
<1>16. CASE Win!Plug
  <2>1. /\ UNCHANGED <<next, thread>>
        /\ \/ failures' = failures + 1 /\ device' = <<>>
           \/ device' = device /\ (failures' = failures \/ failures' = failures + 1)
    BY <1>16 DEF Win!Plug, Win!Works, Win!Fails
  <2>2. Reads(0) /\ 0 \in 0 .. Ids - 1
    BY <1>3, <2>1, ReadsNothing, Constants
  <2>3. CASE failures' = failures + 1 /\ device' = <<>>
    BY <1>3, <1>5, <2>1, <2>2, <2>3
  <2>4. CASE device' = device /\ (failures' = failures \/ failures' = failures + 1)
    BY <1>3, <1>6, <2>1, <2>4
  <2>5. QED
    BY <2>1, <2>3, <2>4
<1>17. QED
  BY <1>8, <1>9, <1>10, <1>11, <1>12, <1>13, <1>14, <1>15, <1>16 DEF Win!Render

(* WinMM: what is mixed has a header to go to, one the device does not     *)
(* play, so that what it plays stays as it was.                            *)
LEMMA WinmmStep ==
  ASSUME SharedInv, WindowsInv, driver = "windows", driver' = "windows",
         backend = "winmm", UNCHANGED <<backend, Win!clientVars>>,
         \/ Win!HeaderLoop \/ Win!HeaderDone
  PROVE  /\ WindowsInv' /\ SharedInv'
         /\ [Promised!Next]_<<next, Waiting>>
<1>1. /\ Waiting = ContentsOf(contents, device)
      /\ Waiting' = ContentsOf(contents', device')
      /\ Bound = Buffers
  BY DEF Waiting, Bound, Win!Waiting, Win!Bound, Win!InHeaders, ContentsOf
<1>2. /\ device \in Seq(Places) /\ contents \in [Places -> Contents]
      /\ Distinct(device) /\ Win!HeaderForBuffer
  BY DEF WindowsInv, WinmmInv, Win!Header, Win!IsInjective, Places, Contents, Distinct
<1>3. next \in Block /\ next \in Contents /\ failures \in Nat /\ thread \notin {"off", "start", "null"}
  BY IdsAssumption DEF WindowsInv, SharedInv, Block, Contents
<1>4. ASSUME device' \in Seq(Places), Distinct(device'), contents' \in [Places -> Contents],
             Win!HeaderForBuffer', next' \in Block, failures' \in Nat,
             thread' \notin {"off", "start", "null"}
      PROVE  WindowsInv' /\ SharedInv'
  <2>1. Win!IsInjective(device)'
    BY <1>4 DEF Win!IsInjective, Distinct
  <2>2. QED
    BY <1>4, <2>1 DEF WindowsInv, WinmmInv, SharedInv, Win!Header, Places, Contents
<1>5. Waiting \in Seq(Contents) /\ Len(Waiting) = Len(device)
  BY <1>1, <1>2, ContentsType
<1>6. \A h \in Win!FreeHeaders : h \in Places /\ \A i \in 1 .. Len(device) : device[i] # h
  BY <1>2 DEF Win!FreeHeaders, Win!IsQueued, Win!ToSet, Win!Header, Places
<1>7. Reads(1) => next' \in Block
  BY <1>3, NextInRange DEF Reads
<1>8. 1 \in 1 .. Ids - 1 /\ 1 \in 0 .. Ids - 1 /\ Buffers \in Nat
  BY Constants
<1>9. ASSUME UNCHANGED <<next, device, contents>>, failures' = failures,
             thread' \notin {"off", "start", "null"}, thread' = "append" => Win!FreeHeaders # {}
      PROVE  WindowsInv' /\ SharedInv' /\ UNCHANGED <<next, Waiting>>
  <2>1. Win!HeaderForBuffer'
    BY <1>9 DEF Win!HeaderForBuffer, Win!FreeHeaders, Win!IsQueued, Win!Header
  <2>2. QED
    BY <1>1, <1>2, <1>3, <1>4, <1>9, <2>1
<1>10. CASE Win!Look
  BY <1>9, <1>10 DEF Win!Look
<1>11. CASE Win!BeginWait
  BY <1>9, <1>11 DEF Win!BeginWait
<1>12. CASE Win!AppendBuffer
  <2>1. PICK h \in Win!FreeHeaders :
          /\ contents' = [contents EXCEPT ![h] = next]
          /\ device' = Append(device, h)
          /\ failures' = failures \/ failures' = failures + 1
    BY <1>12 DEF Win!AppendBuffer, Win!Works, Win!Fails
  <2>2. h \in Places /\ \A i \in 1 .. Len(device) : device[i] # h
    BY <1>6
  <2>3. Reads(1) /\ thread' = "look"
    BY <1>12 DEF Win!AppendBuffer, Win!Reads, Reads
  <2>4. device' \in Seq(Places) /\ Len(device') = Len(device) + 1
    BY <1>2, <2>1, <2>2
  <2>5. Distinct(device')
    BY <1>2, <2>1, <2>2, DistinctAppend
  <2>6. Len(device) + 1 =< Buffers
    BY <1>8, <2>4, <2>5, DistinctBound DEF Places
  <2>7. Waiting' = Append(Waiting, next)
    BY <1>1, <1>2, <1>3, <2>1, <2>2, ContentsFilled
  <2>8. Waiting' = Waiting \o Blocks(1)
    BY <1>3, <1>5, <2>7, AppendsBlock
  <2>9. Promised!Next
    BY <1>1, <1>5, <1>8, <2>3, <2>6, <2>8, Mixes
  <2>10. contents' \in [Places -> Contents] /\ failures' \in Nat /\ Win!HeaderForBuffer'
    BY <1>2, <1>3, <2>1, <2>2, <2>3 DEF Win!HeaderForBuffer
  <2>11. QED
    BY <1>4, <1>7, <2>3, <2>4, <2>5, <2>9, <2>10
<1>13. CASE Win!LoseBuffer
  <2>1. PICK h \in Win!FreeHeaders : contents' = [contents EXCEPT ![h] = next]
    BY <1>13 DEF Win!LoseBuffer
  <2>2. h \in Places /\ \A i \in 1 .. Len(device) : device[i] # h
    BY <1>6
  <2>3. /\ Reads(1) /\ thread' = "look" /\ device' = device /\ failures' = failures + 1
    BY <1>13 DEF Win!LoseBuffer, Win!Reads, Reads, Win!Fails
  <2>4. Waiting' = Waiting
    BY <1>1, <1>2, <1>3, <2>1, <2>2, <2>3, ContentsFilled
  <2>5. failures' # failures /\ failures' \in Nat
    BY <1>3, <2>3
  <2>6. Promised!Next
    BY <1>5, <1>8, <2>3, <2>4, <2>5, LosesTheNew
  <2>7. contents' \in [Places -> Contents] /\ Win!HeaderForBuffer'
    BY <1>2, <1>3, <2>1, <2>2, <2>3 DEF Win!HeaderForBuffer
  <2>8. QED
    BY <1>2, <1>4, <1>7, <2>3, <2>5, <2>6, <2>7
<1>14. CASE Win!CloseLoop
  BY <1>9, <1>14 DEF Win!CloseLoop
<1>15. CASE Win!HeaderDone
  <2>1. /\ device # <<>> /\ device' = Tail(device) /\ UNCHANGED <<next, failures, contents>>
        /\ thread' = IF thread = "asleep" THEN "look" ELSE thread
    BY <1>15 DEF Win!HeaderDone, Win!SignalLoop
  <2>2. /\ device' \in Seq(Places) /\ Distinct(device') /\ Len(device') = Len(device) - 1
        /\ \A i \in 1 .. Len(device) - 1 : device'[i] = device[i + 1]
    BY <1>2, <2>1, DistinctTail
  <2>3. Win!FreeHeaders \subseteq Win!FreeHeaders'
    <3> SUFFICES ASSUME NEW h \in Win!FreeHeaders
                 PROVE  h \in Win!Header /\ ~ \E i \in DOMAIN device' : device'[i] = h
      BY DEF Win!FreeHeaders, Win!IsQueued, Win!ToSet, Win!Header
    <3>1. \A i \in 1 .. Len(device) : device[i] # h
      BY <1>6
    <3>2. DOMAIN device' = 1 .. Len(device) - 1 /\ Len(device) \in Nat
      BY <1>2, <2>2
    <3>3. \A i \in 1 .. Len(device) - 1 : i + 1 \in 1 .. Len(device) /\ device'[i] = device[i + 1]
      BY <2>2, <3>2
    <3>4. QED
      BY <3>1, <3>2, <3>3 DEF Win!FreeHeaders
  <2>4. Win!HeaderForBuffer'
    BY <1>2, <2>1, <2>3 DEF Win!HeaderForBuffer
  <2>5. Waiting' = SubSeq(Waiting, 1 + 1, Len(Waiting))
    BY <1>1, <1>2, <1>5, <2>1, ContentsTail
  <2>6. 1 \in 1 .. Len(Waiting)
    BY <1>2, <1>5, <2>1
  <2>7. Promised!Next
    BY <2>1, <2>5, <2>6, Hears
  <2>8. QED
    BY <1>2, <1>3, <1>4, <2>1, <2>2, <2>4, <2>7
<1>16. QED
  BY <1>10, <1>11, <1>12, <1>13, <1>14, <1>15 DEF Win!HeaderLoop

(* Whichever driver is chosen starts with an empty device.                 *)
LEMMA WindowsStep ==
  ASSUME SharedInv, WindowsInv, driver = "windows", driver' = "windows",
         \/ Win!Thread \/ Win!Device \/ Win!Environment
  PROVE  /\ WindowsInv' /\ SharedInv'
         /\ [Promised!Next]_<<next, Waiting>>
<1>1. CASE Win!Open
  <2>1. /\ thread = "start" /\ UNCHANGED <<next, device, contents>>
        /\ backend' \in {backend, "wasapi", "winmm", "null"}
        /\ thread' \in {"wait", "look", "null", "done"}
        /\ thread' = "null" => backend' = "null"
        /\ failures' = failures \/ failures' = failures + 1
    BY <1>1 DEF Win!Open, Win!Works, Win!Fails, Win!Aborts
  <2>2. backend = "none" /\ device = <<>>
    BY <2>1 DEF WindowsInv
  <2>3. Waiting = <<>> /\ Waiting' = <<>>
    BY <2>1, <2>2 DEF Waiting, Win!Waiting, Win!InHeaders
  <2>4. Win!IsInjective(device)' /\ Win!HeaderForBuffer' /\ device' \in Seq(Win!Header)
    BY <2>1, <2>2 DEF Win!IsInjective, Win!HeaderForBuffer
  <2>5. device' \in Seq(Block) /\ Len(device') =< Capacity
    BY <2>1, <2>2, Constants
  <2>6. SharedInv'
    BY <2>1 DEF SharedInv
  <2>7. WindowsInv'
    BY <2>1, <2>2, <2>4, <2>5 DEF WindowsInv, WasapiInv, WinmmInv, Win!Header
  <2>8. QED
    BY <2>1, <2>3, <2>6, <2>7
<1>2. CASE Win!NullLoop
  <2>1. thread = "null" /\ Reads(1) /\ UNCHANGED <<device, thread, failures, backend, contents>>
    BY <1>2 DEF Win!NullLoop, Win!Reads, Reads, Win!own
  <2>2. backend = "null" /\ device = <<>>
    BY <2>1 DEF WindowsInv
  <2>3. Waiting = <<>> /\ Waiting' = <<>>
    BY <2>1, <2>2 DEF Waiting, Win!Waiting
  <2>4. Promised!Next
    <3>1. driver = "windows" /\ Win!Away
      BY <2>2 DEF Win!Away
    <3>2. 1 \in 0 .. Ids - 1 /\ Waiting \in Seq(Block)
      BY <2>3, Constants
    <3>3. QED
      BY <2>1, <2>3, <3>1, <3>2, LosesAll
  <2>5. SharedInv'
    BY <2>1, NextInRange DEF SharedInv, Reads
  <2>6. WindowsInv'
    BY <2>1, <2>2 DEF WindowsInv
  <2>7. QED
    BY <2>4, <2>5, <2>6
<1>3. CASE \/ backend = "wasapi" /\ Win!Render /\ UNCHANGED <<backend, contents>>
           \/ backend = "wasapi" /\ Win!PlayPeriod /\ UNCHANGED <<backend, contents>>
           \/ Win!Environment
  BY <1>3, WasapiStep DEF Win!Environment
<1>4. CASE \/ backend = "winmm" /\ Win!HeaderLoop /\ UNCHANGED <<backend, Win!clientVars>>
           \/ backend = "winmm" /\ Win!HeaderDone /\ UNCHANGED <<backend, Win!clientVars>>
  BY <1>4, WinmmStep
<1>5. QED
  BY <1>1, <1>2, <1>3, <1>4 DEF Win!Thread, Win!Device

-----------------------------------------------------------------------------
(* Darwin: the free buffers and the queued ones, one after the other, are  *)
(* all buffers once.  A buffer that is filled goes from the front of the   *)
(* free ones to the end of the queue, one that was played goes the other   *)
(* way.                                                                    *)
LEMMA Rotation ==
  ASSUME NEW s \in Seq(Places), NEW t \in Seq(Places), s # <<>>, Distinct(s \o t)
  PROVE  /\ Distinct(Tail(s) \o Append(t, Head(s)))
         /\ Distinct(Tail(s) \o t)
         /\ \A b \in Places : (\E i \in 1 .. Len(s \o t) : (s \o t)[i] = b)
              => \E i \in 1 .. Len(s \o t) : (Tail(s) \o Append(t, Head(s)))[i] = b
<1> DEFINE all == s \o t
           turned == Tail(s) \o Append(t, Head(s))
           n == Len(all)
<1>1. /\ all \in Seq(Places) /\ n = Len(s) + Len(t) /\ n \in Nat /\ Len(s) \in Nat \ {0} /\ Len(t) \in Nat
      /\ Head(s) = s[1]
  OBVIOUS
<1>2. Tail(s) \in Seq(Places) /\ Len(Tail(s)) = Len(s) - 1
      /\ \A i \in 1 .. Len(s) - 1 : Tail(s)[i] = s[i + 1]
  OBVIOUS
<1>3. Append(t, Head(s)) \in Seq(Places) /\ Len(Append(t, Head(s))) = Len(t) + 1
      /\ Append(t, Head(s))[Len(t) + 1] = Head(s)
      /\ \A i \in 1 .. Len(t) : Append(t, Head(s))[i] = t[i]
  OBVIOUS
<1>4. turned \in Seq(Places) /\ Len(turned) = n
  BY <1>1, <1>2, <1>3, AppendInRange
<1>5. \A i \in 1 .. n - 1 : turned[i] = all[i + 1]
  <2> SUFFICES ASSUME NEW i \in 1 .. n - 1
               PROVE  turned[i] = all[i + 1]
    OBVIOUS
  <2>1. CASE i \in 1 .. Len(s) - 1
    <3>1. turned[i] = Tail(s)[i]
      BY <1>2, <1>3, <2>1
    <3>2. all[i + 1] = s[i + 1]
      BY <1>1, <2>1
    <3> HIDE DEF turned, all
    <3>3. QED
      BY <1>2, <2>1, <3>1, <3>2
  <2>2. CASE i \in Len(s) .. n - 1
    <3>1. turned[i] = Append(t, Head(s))[i - (Len(s) - 1)]
      BY <1>1, <1>2, <1>3, <2>2
    <3>2. all[i + 1] = t[i + 1 - Len(s)]
      BY <1>1, <2>2
    <3>3. i - (Len(s) - 1) = i + 1 - Len(s) /\ i + 1 - Len(s) \in 1 .. Len(t)
      BY <1>1, <2>2
    <3> HIDE DEF turned, all
    <3>4. QED
      BY <1>3, <3>1, <3>2, <3>3
  <2>3. i \in 1 .. Len(s) - 1 \/ i \in Len(s) .. n - 1
    <3> HIDE DEF n
    <3>1. QED
      BY <1>1
  <2> HIDE DEF turned, all
  <2>4. QED
    BY <2>1, <2>2, <2>3
<1>6. turned[n] = all[1]
  <2>1. turned[n] = Append(t, Head(s))[n - (Len(s) - 1)]
    BY <1>1, <1>2, <1>3
  <2>2. n - (Len(s) - 1) = Len(t) + 1
    BY <1>1
  <2>3. all[1] = s[1]
    BY <1>1
  <2> HIDE DEF turned, all, n
  <2>4. QED
    BY <1>1, <1>3, <2>1, <2>2, <2>3
<1>7. /\ Tail(s) \o t \in Seq(Places) /\ Len(Tail(s) \o t) = n - 1
      /\ \A i \in 1 .. n - 1 : (Tail(s) \o t)[i] = all[i + 1]
  <2>1. Tail(s) \o t \in Seq(Places) /\ Len(Tail(s) \o t) = n - 1
    BY <1>1, <1>2, AppendInRange
  <2>2. ASSUME NEW i \in 1 .. n - 1
        PROVE  (Tail(s) \o t)[i] = all[i + 1]
    BY <1>1, <1>2
  <2>3. QED
    BY <2>1, <2>2
<1> DEFINE shorter == Tail(s) \o t
<1> HIDE DEF turned, all, n, shorter
<1>8. \A i, j \in 1 .. n : all[i] = all[j] => i = j
  BY DEF Distinct, all, n
<1>9. Distinct(turned)
  <2> SUFFICES ASSUME NEW i \in 1 .. n, NEW j \in 1 .. n, turned[i] = turned[j]
               PROVE  i = j
    BY <1>4 DEF Distinct
  <2> DEFINE From(x) == IF x = n THEN 1 ELSE x + 1
  <2>1. \A x \in 1 .. n : From(x) \in 1 .. n /\ turned[x] = all[From(x)]
    <3> TAKE x \in 1 .. n
    <3>1. n \in Nat \ {0}
      BY <1>1
    <3>2. CASE x = n
      BY <1>6, <3>1, <3>2
    <3>3. CASE x # n
      <4>1. x \in 1 .. n - 1 /\ x + 1 \in 1 .. n
        BY <3>1, <3>3
      <4>2. QED
        BY <1>5, <3>3, <4>1
    <3>4. QED
      BY <3>2, <3>3
  <2>2. From(i) = From(j)
    BY <1>8, <2>1
  <2>3. QED
    BY <1>1, <2>2
<1>10. Distinct(shorter)
  <2>1. Len(shorter) = n - 1 /\ \A i \in 1 .. n - 1 : shorter[i] = all[i + 1]
    BY <1>7 DEF shorter
  <2>2. ASSUME NEW i \in 1 .. n - 1, NEW j \in 1 .. n - 1, shorter[i] = shorter[j]
        PROVE  i = j
    <3>1. i + 1 \in 1 .. n /\ j + 1 \in 1 .. n /\ all[i + 1] = all[j + 1]
      BY <1>1, <2>1, <2>2
    <3>2. i + 1 = j + 1
      BY <1>8, <3>1
    <3>3. QED
      BY <3>2
  <2>3. QED
    BY <2>1, <2>2 DEF Distinct
<1>11. ASSUME NEW b \in Places, NEW i \in 1 .. n, all[i] = b
       PROVE  \E j \in 1 .. n : turned[j] = b
  <2>1. CASE i = 1
    BY <1>1, <1>6, <1>11, <2>1
  <2>2. CASE i # 1
    <3>1. i - 1 \in 1 .. n - 1 /\ i - 1 \in 1 .. n /\ i - 1 + 1 = i
      BY <1>1, <2>2
    <3>2. turned[i - 1] = b
      BY <1>5, <1>11, <3>1
    <3>3. QED
      BY <3>1, <3>2
  <2>3. QED
    BY <2>1, <2>2
<1>12. QED
  BY <1>9, <1>10, <1>11 DEF turned, all, n, shorter

LEMMA DarwinStep ==
  ASSUME SharedInv, DarwinInv, driver = "darwin", driver' = "darwin",
         \/ AudioQueue!Thread \/ AudioQueue!Device \/ AudioQueue!Environment
  PROVE  /\ DarwinInv' /\ SharedInv'
         /\ [Promised!Next]_<<next, Waiting>>
<1> DEFINE all == unqueued \o device
<1>1. /\ Waiting = ContentsOf(contents, device)
      /\ Waiting' = ContentsOf(contents', device')
      /\ Bound = Buffers
  BY DEF Waiting, Bound, AudioQueue!Waiting, AudioQueue!Bound, ContentsOf
<1>2. /\ unqueued \in Seq(Places) /\ device \in Seq(Places) /\ contents \in [Places -> Contents]
      /\ all \in Seq(Places) /\ Len(all) = Len(unqueued) + Len(device)
  BY DEF DarwinInv, AudioQueue!Buffer, Places, Contents
<1>3. /\ Distinct(all)
      /\ err \/ \A b \in Places : \E i \in 1 .. Len(all) : all[i] = b
  <2>1. DOMAIN all = 1 .. Len(all)
    BY <1>2
  <2> HIDE DEF all
  <2>2. AudioQueue!IsInjective(all) /\ (err \/ AudioQueue!ToSet(all) = Places)
    BY DEF DarwinInv, AudioQueue!BuffersKept, AudioQueue!Buffer, Places, all
  <2>3. QED
    BY <2>1, <2>2 DEF AudioQueue!IsInjective, AudioQueue!ToSet, Distinct
<1>4. next \in Block /\ next \in Contents /\ failures \in Nat
  BY IdsAssumption DEF SharedInv, Block, Contents
<1>5. ASSUME unqueued' \in Seq(Places), device' \in Seq(Places), contents' \in [Places -> Contents],
             Distinct(all'),
             err' \/ \A b \in Places : \E i \in 1 .. Len(all') : all'[i] = b,
             AudioQueue!SomethingToAppend', next' \in Block, failures' \in Nat
      PROVE  DarwinInv' /\ SharedInv'
  <2>1. all' \in Seq(Places)
    BY <1>5
  <2>2. DOMAIN all' = 1 .. Len(all')
    BY <2>1
  <2>3. AudioQueue!IsInjective(all') /\ (err' \/ AudioQueue!ToSet(all') = Places)
    <3> DEFINE now == all'
    <3>1. now \in Seq(Places) /\ Distinct(now)
      BY <1>5, <2>1
    <3>2. err' \/ \A b \in Places : \E i \in 1 .. Len(now) : now[i] = b
      BY <1>5
    <3> HIDE DEF now
    <3>3. DOMAIN now = 1 .. Len(now) /\ \A i \in 1 .. Len(now) : now[i] \in Places
      BY <3>1
    <3>4. AudioQueue!IsInjective(now)
      BY <3>1, <3>3 DEF AudioQueue!IsInjective, Distinct
    <3>5. err' \/ AudioQueue!ToSet(now) = Places
      BY <3>2, <3>3 DEF AudioQueue!ToSet
    <3>6. QED
      BY <3>4, <3>5 DEF now
  <2>4. AudioQueue!BuffersKept'
    BY <2>3 DEF AudioQueue!BuffersKept, AudioQueue!Buffer, Places
  <2>5. QED
    BY <1>5, <2>4 DEF DarwinInv, SharedInv, AudioQueue!Buffer, Places, Contents
<1>6. Waiting \in Seq(Contents) /\ Len(Waiting) = Len(device)
  BY <1>1, <1>2, ContentsType
<1>7. 1 \in 1 .. Ids - 1 /\ 1 \in 0 .. Ids - 1 /\ Buffers \in Nat
  BY Constants
<1>8. ASSUME UNCHANGED <<next, device, contents, unqueued>>, err => err',
             failures' = failures \/ failures' = failures + 1,
             AudioQueue!SomethingToAppend'
      PROVE  DarwinInv' /\ SharedInv' /\ UNCHANGED <<next, Waiting>>
  <2>1. all' = all
    BY <1>8
  <2>2. Waiting' = Waiting
    BY <1>1, <1>8
  <2> HIDE DEF all
  <2>3. QED
    BY <1>2, <1>3, <1>4, <1>5, <1>8, <2>1, <2>2
<1>9. AudioQueue!SomethingToAppend
  BY DEF DarwinInv
<1>10. CASE AudioQueue!Start
  BY <1>8, <1>10
  DEF AudioQueue!Start, AudioQueue!Works, AudioQueue!Fails, AudioQueue!Aborts, AudioQueue!SomethingToAppend
<1>11. CASE AudioQueue!Wait
  <2>1. AudioQueue!SomethingToAppend'
    BY <1>11 DEF AudioQueue!Wait, AudioQueue!MustWait, AudioQueue!SomethingToAppend, AudioQueue!own
  <2>2. QED
    BY <1>8, <1>11, <2>1 DEF AudioQueue!Wait, AudioQueue!own
<1>12. CASE AudioQueue!Pause
  BY <1>8, <1>12 DEF AudioQueue!Pause, AudioQueue!Works, AudioQueue!Fails, AudioQueue!SomethingToAppend
<1>13. CASE AudioQueue!BeginResume
  BY <1>8, <1>13 DEF AudioQueue!BeginResume, AudioQueue!SomethingToAppend
<1>14. CASE AudioQueue!TryResume
  BY <1>8, <1>14 DEF AudioQueue!TryResume, AudioQueue!Works, AudioQueue!Fails, AudioQueue!SomethingToAppend
<1>15. CASE AudioQueue!FillBuffer
  <2> DEFINE h == Head(unqueued)
  <2>1. /\ unqueued # <<>> /\ unqueued' = Tail(unqueued) /\ Reads(1)
        /\ contents' = [contents EXCEPT ![h] = next]
        /\ thread' = "wait"
        /\ \/ failures' = failures /\ device' = Append(device, h) /\ err' = err
           \/ failures' = failures + 1 /\ device' = device /\ err' = TRUE
    BY <1>15 DEF AudioQueue!FillBuffer, AudioQueue!Reads, Reads, AudioQueue!Works, AudioQueue!Fails
  <2>2. h \in Places /\ Len(unqueued) \in Nat \ {0} /\ Len(device) \in Nat /\ unqueued' \in Seq(Places)
    BY <1>2, <2>1
  <2>3. \A i \in 1 .. Len(device) : device[i] # h
    <3> SUFFICES ASSUME NEW i \in 1 .. Len(device), device[i] = h
                 PROVE  FALSE
      OBVIOUS
    <3>1. all[1] = h /\ all[Len(unqueued) + i] = device[i]
      BY <1>2, <2>1
    <3>2. 1 \in 1 .. Len(all) /\ Len(unqueued) + i \in 1 .. Len(all) /\ Len(unqueued) + i # 1
      BY <1>2, <2>2
    <3> HIDE DEF all, h
    <3>3. QED
      BY <1>3, <3>1, <3>2 DEF Distinct
  <2>4. next' \in Block
    BY <1>4, <2>1, NextInRange DEF Reads
  <2>5. contents' \in [Places -> Contents] /\ AudioQueue!SomethingToAppend'
    BY <1>2, <1>4, <2>1, <2>2 DEF AudioQueue!SomethingToAppend
  <2>6. /\ ContentsOf(contents', device) = ContentsOf(contents, device)
        /\ ContentsOf(contents', Append(device, h)) = Append(ContentsOf(contents, device), next)
    <3>1. contents' = [contents EXCEPT ![h] = next]
      BY <2>1
    <3>2. /\ contents \in [Places -> Contents] /\ device \in Seq(Places)
          /\ h \in Places /\ next \in Contents
      BY <1>2, <1>4, <2>2
    <3> HIDE DEF h
    <3>3. QED
      BY <2>3, <3>1, <3>2, ContentsFilled
  <2>7. /\ Distinct(Tail(unqueued) \o Append(device, h))
        /\ Distinct(Tail(unqueued) \o device)
        /\ \A b \in Places : (\E i \in 1 .. Len(all) : all[i] = b)
             => \E i \in 1 .. Len(all) : (Tail(unqueued) \o Append(device, h))[i] = b
    <3>1. unqueued \in Seq(Places) /\ device \in Seq(Places) /\ unqueued # <<>>
      BY <1>2, <2>1
    <3>2. Distinct(unqueued \o device)
      BY <1>3
    <3>3. QED
      BY <3>1, <3>2, Rotation
  <2>8. CASE failures' = failures /\ device' = Append(device, h) /\ err' = err
    <3>1. device' \in Seq(Places) /\ Len(device') = Len(device) + 1
      BY <1>2, <2>2, <2>8
    <3>2. all' = Tail(unqueued) \o Append(device, h)
      BY <2>1, <2>8
    <3>3. Len(all') = Len(all)
      <4>1. Len(unqueued' \o device') = Len(unqueued') + Len(device')
        BY <2>2, <3>1, AppendInRange
      <4>2. Len(unqueued') = Len(unqueued) - 1
        BY <1>2, <2>1, <2>2
      <4>3. QED
        BY <1>2, <2>2, <3>1, <4>1, <4>2
    <3>4. Distinct(all') /\ (err' \/ \A b \in Places : \E i \in 1 .. Len(all') : all'[i] = b)
      <4> HIDE DEF all, h
      <4>1. QED
        BY <1>3, <2>7, <2>8, <3>2, <3>3
    <3>5. DarwinInv' /\ SharedInv'
      BY <1>4, <1>5, <2>2, <2>4, <2>5, <2>8, <3>1, <3>4
    <3>6. Waiting' = Waiting \o Blocks(1)
      <4>1. Waiting' = Append(Waiting, next)
        BY <1>1, <2>6, <2>8
      <4>2. QED
        BY <1>4, <1>6, <4>1, AppendsBlock
    <3>7. Len(all) =< Buffers
      <4> HIDE DEF all
      <4>1. QED
        BY <1>2, <1>3, <1>7, DistinctBound DEF Places
    <3>8. Len(Waiting) + 1 =< Bound
      <4> HIDE DEF all
      <4>1. QED
        BY <1>1, <1>2, <1>6, <1>7, <2>2, <3>7
    <3>9. Promised!Next
      BY <1>7, <2>1, <3>6, <3>8, Mixes
    <3>10. QED
      BY <3>5, <3>9
  <2>9. CASE failures' = failures + 1 /\ device' = device /\ err' = TRUE
    <3>1. Waiting' = Waiting
      BY <1>1, <2>6, <2>9
    <3>2. failures' # failures /\ failures' \in Nat
      BY <1>4, <2>9
    <3>3. Promised!Next
      BY <1>6, <1>7, <2>1, <3>1, <3>2, LosesTheNew
    <3>4. all' = Tail(unqueued) \o device
      BY <2>1, <2>9
    <3>5. DarwinInv' /\ SharedInv'
      BY <1>2, <1>5, <2>2, <2>4, <2>5, <2>7, <2>9, <3>2, <3>4
    <3>6. QED
      BY <3>3, <3>5
  <2>10. QED
    BY <2>1, <2>8, <2>9
<1>16. CASE AudioQueue!Device
  <2>1. /\ device # <<>> /\ device' = Tail(device)
        /\ unqueued' = Append(unqueued, Head(device))
        /\ UNCHANGED <<next, failures, contents, err, toPause, toResume>>
        /\ thread' = IF thread = "asleep" THEN "wait" ELSE thread
    BY <1>16 DEF AudioQueue!Device, AudioQueue!Signal
  <2>2. /\ device' \in Seq(Places) /\ unqueued' \in Seq(Places) /\ unqueued' # <<>>
        /\ Len(device') = Len(device) - 1 /\ Len(unqueued') = Len(unqueued) + 1
        /\ Len(device) \in Nat \ {0} /\ Len(unqueued) \in Nat
    BY <1>2, <2>1
  <2>3. all' = all
    <3>1. all' \in Seq(Places) /\ Len(all') = Len(all)
      <4>1. /\ unqueued' \o device' \in Seq(Places)
            /\ Len(unqueued' \o device') = Len(unqueued') + Len(device')
        BY <2>2, AppendInRange
      <4>2. QED
        BY <1>2, <2>2, <4>1
    <3>2. ASSUME NEW i \in 1 .. Len(all)
          PROVE  all'[i] = all[i]
      <4>1. CASE i \in 1 .. Len(unqueued)
        BY <1>2, <2>1, <2>2, <4>1
      <4>2. CASE i \in Len(unqueued) + 1 .. Len(all)
        BY <1>2, <2>1, <2>2, <4>2
      <4>3. i \in 1 .. Len(unqueued) \/ i \in Len(unqueued) + 1 .. Len(all)
        <5> HIDE DEF all
        <5>1. QED
          BY <1>2, <2>2
      <4> HIDE DEF all
      <4>4. QED
        BY <4>1, <4>2, <4>3
    <3>3. QED
      BY <1>2, <3>1, <3>2, SeqEqual
  <2>4. AudioQueue!SomethingToAppend'
    BY <2>2 DEF AudioQueue!SomethingToAppend
  <2>5. DarwinInv' /\ SharedInv'
    <3> HIDE DEF all
    <3>1. QED
      BY <1>2, <1>3, <1>4, <1>5, <2>1, <2>2, <2>3, <2>4
  <2>6. Waiting' = SubSeq(Waiting, 1 + 1, Len(Waiting)) /\ 1 \in 1 .. Len(Waiting)
    <3>1. contents' = contents /\ device' = Tail(device) /\ device # <<>>
      BY <2>1
    <3>2. Waiting' = ContentsOf(contents, Tail(device))
      BY <1>1, <3>1
    <3>3. ContentsOf(contents, Tail(device)) = SubSeq(ContentsOf(contents, device), 2, Len(device))
      BY <1>2, <3>1, ContentsTail
    <3>4. Len(ContentsOf(contents, device)) = Len(device)
      BY <1>2, ContentsType
    <3>5. Len(Waiting) = Len(device)
      BY <1>1, <3>4
    <3>6. Waiting' = SubSeq(Waiting, 2, Len(Waiting))
      BY <1>1, <3>2, <3>3, <3>5
    <3>7. 1 \in 1 .. Len(Waiting) /\ 1 + 1 = 2
      BY <2>2, <3>5
    <3>8. QED
      BY <3>6, <3>7
  <2>7. Promised!Next
    BY <2>1, <2>6, Hears
  <2>8. QED
    BY <2>5, <2>7
<1>17. CASE AudioQueue!Suspend
  BY <1>8, <1>17
  DEF AudioQueue!Suspend, AudioQueue!SomethingToAppend, AudioQueue!Notified, AudioQueue!Signal
<1>18. CASE AudioQueue!Resume
  BY <1>8, <1>18
  DEF AudioQueue!Resume, AudioQueue!SomethingToAppend, AudioQueue!Notified, AudioQueue!Signal
<1>19. QED
  BY <1>10, <1>11, <1>12, <1>13, <1>14, <1>15, <1>16, <1>17, <1>18
  DEF AudioQueue!Thread, AudioQueue!Environment

-----------------------------------------------------------------------------
(* The browser: the page answers a request when less than half of an       *)
(* answer is left, and there is no other answer on its way.                *)
LEMMA BrowserStep ==
  ASSUME SharedInv, BrowserInv, ReadyInv, driver = "browser", driver' = "browser",
         \/ JS!Thread \/ JS!Device \/ JS!Environment
  PROVE  /\ BrowserInv' /\ SharedInv'
         /\ [Promised!Next]_<<next, Waiting>>
<1> DEFINE sent == IF answers = <<>> THEN <<>> ELSE Head(answers)
<1>1. /\ Waiting = buf \o sent /\ Waiting' = buf' \o sent'
      /\ Bound = Answer + (Answer - 1) \div 2
  BY DEF Waiting, Bound, JS!Waiting, JS!Bound
<1>2. /\ buf \in Seq(Block) /\ answers \in Seq(Seq(Block))
      /\ \A i \in DOMAIN answers : Len(answers[i]) = Answer
      /\ requests \in Nat /\ waitRecv \in BOOLEAN
      /\ requests + Len(answers) = (IF waitRecv THEN 1 ELSE 0)
      /\ waitRecv => 2 * Len(buf) < Answer
      /\ ~worklet => ~waitRecv
      /\ Len(buf) =< Bound
      /\ resumes \in Nat /\ (resumes > 0 => thread = "page")
  BY DEF BrowserInv, JS!OneMessage, Bound
<1>3. next \in Block /\ failures \in Nat /\ Answer \in 1 .. Ids - 1 /\ Len(buf) \in Nat /\ Len(answers) \in Nat
  BY <1>2, Constants DEF SharedInv
<1>4. Bound \in Nat /\ Answer =< Bound /\ \A k \in Nat : 2 * k < Answer => k + Answer =< Bound
  BY <1>1, <1>3
<1>5. sent \in Seq(Block) /\ Len(sent) = (IF answers = <<>> THEN 0 ELSE Answer)
  <2>1. CASE answers = <<>>
    BY <2>1
  <2>2. CASE answers # <<>>
    <3>1. 1 \in DOMAIN answers /\ Head(answers) = answers[1] /\ answers[1] \in Seq(Block)
      BY <1>2, <2>2
    <3>2. QED
      BY <1>2, <2>2, <3>1
  <2>3. QED
    BY <2>1, <2>2
<1>6. Waiting \in Seq(Block) /\ Len(Waiting) = Len(buf) + Len(sent)
  <2> HIDE DEF sent
  <2>1. QED
    BY <1>1, <1>2, <1>5, AppendInRange
<1>7. ASSUME buf' \in Seq(Block), answers' \in Seq(Seq(Block)),
             \A i \in DOMAIN answers' : Len(answers'[i]) = Answer,
             requests' \in Nat, waitRecv' \in BOOLEAN,
             requests' + Len(answers') = (IF waitRecv' THEN 1 ELSE 0),
             waitRecv' => 2 * Len(buf') < Answer,
             ~worklet' => ~waitRecv', Len(buf') =< Bound,
             resumes' \in Nat, resumes' > 0 => thread' = "page",
             next' \in Block, failures' \in Nat
      PROVE  BrowserInv' /\ SharedInv'
  <2>1. Len(buf') =< JS!Bound'
    BY <1>7 DEF Bound, JS!Bound
  <2>2. QED
    BY <1>7, <2>1 DEF BrowserInv, JS!OneMessage, SharedInv
<1>8. ASSUME UNCHANGED <<next, failures, worklet, buf, waitRecv, requests, answers>>,
             resumes' \in Nat, resumes' > 0 => thread' = "page"
      PROVE  BrowserInv' /\ SharedInv' /\ UNCHANGED <<next, Waiting>>
  <2>1. Waiting' = Waiting
    BY <1>1, <1>8
  <2>2. QED
    BY <1>2, <1>3, <1>7, <1>8, <2>1
<1>9. CASE JS!Open
  BY <1>2, <1>8, <1>9 DEF JS!Open, JS!own
<1>10. CASE JS!OnRequest
  <2>1. /\ requests > 0 /\ requests' = requests - 1 /\ Reads(Answer)
        /\ answers' = Append(answers, Blocks(Answer))
        /\ UNCHANGED <<thread, failures, worklet, buf, waitRecv, resumes>>
    BY <1>10 DEF JS!OnRequest, JS!Reads, JS!Blocks, Reads, Blocks
  <2>2. waitRecv /\ requests = 1 /\ Len(answers) = 0
    BY <1>2, <1>3, <2>1
  <2>3. answers = <<>>
    BY <1>2, <2>2
  <2>4. Blocks(Answer) \in Seq(Block) /\ Len(Blocks(Answer)) = Answer
    BY <1>3, BlocksInRange
  <2>5. answers' = <<Blocks(Answer)>>
    BY <2>1, <2>3
  <2>6. /\ answers' \in Seq(Seq(Block)) /\ Len(answers') = 1
        /\ \A i \in DOMAIN answers' : Len(answers'[i]) = Answer
        /\ sent' = Blocks(Answer)
    BY <2>4, <2>5
  <2>7. next' \in Block
    BY <1>3, <2>1, NextInRange DEF Reads
  <2>8. BrowserInv' /\ SharedInv'
    BY <1>2, <1>3, <1>7, <2>1, <2>2, <2>6, <2>7
  <2>9. Waiting = buf
    BY <1>1, <1>2, <2>3
  <2>10. Waiting' = Waiting \o Blocks(Answer)
    BY <1>1, <2>1, <2>6, <2>9
  <2>11. Len(Waiting) + Answer =< Bound
    BY <1>2, <1>3, <1>4, <2>2, <2>9
  <2>12. Promised!Next
    BY <1>3, <2>1, <2>10, <2>11, Mixes
  <2>13. QED
    BY <2>8, <2>12
<1>11. CASE JS!OnResumeSuccess
  BY <1>2, <1>8, <1>11 DEF JS!OnResumeSuccess
<1>12. CASE JS!OnAudioProcess
  <2>1. /\ ~worklet /\ buf = <<>> /\ buf' = Blocks(Answer) /\ Reads(Answer)
        /\ UNCHANGED <<thread, failures, worklet, waitRecv, requests, answers, resumes>>
    BY <1>12 DEF JS!OnAudioProcess, JS!Reads, JS!Blocks, Reads, Blocks
  <2>2. ~waitRecv /\ Len(answers) = 0
    BY <1>2, <1>3, <2>1
  <2>3. answers = <<>>
    BY <1>2, <2>2
  <2>4. Blocks(Answer) \in Seq(Block) /\ Len(Blocks(Answer)) = Answer
    BY <1>3, BlocksInRange
  <2>5. next' \in Block
    BY <1>3, <2>1, NextInRange DEF Reads
  <2>6. BrowserInv' /\ SharedInv'
    BY <1>2, <1>3, <1>4, <1>7, <2>1, <2>2, <2>4, <2>5
  <2>7. Waiting = <<>> /\ Waiting' = Blocks(Answer)
    BY <1>1, <2>1, <2>3, <2>4
  <2>8. Waiting' = Waiting \o Blocks(Answer) /\ Len(Waiting) + Answer =< Bound
    BY <1>3, <1>4, <2>4, <2>7
  <2>9. Promised!Next
    BY <1>3, <2>1, <2>8, Mixes
  <2>10. QED
    BY <2>6, <2>9
<1>13. CASE JS!Process
  <2>1. /\ worklet /\ buf' = Dropped(buf, 1)
        /\ IF 2 * Len(buf) < Answer THEN JS!Asks ELSE UNCHANGED <<requests, waitRecv>>
        /\ UNCHANGED <<next, thread, failures, worklet, answers, resumes>>
    BY <1>13 DEF JS!Process, JS!Dropped, Dropped, JS!shared
  <2>2. /\ requests' \in Nat /\ waitRecv' \in BOOLEAN
        /\ requests' + Len(answers) = (IF waitRecv' THEN 1 ELSE 0)
        /\ waitRecv' => 2 * Len(buf) < Answer
    <3>1. CASE 2 * Len(buf) < Answer /\ ~waitRecv
      <4>1. requests' = requests + 1 /\ waitRecv' = TRUE
        BY <2>1, <3>1 DEF JS!Asks
      <4>2. requests + Len(answers) = 0
        BY <1>2, <3>1
      <4>3. QED
        BY <1>2, <1>3, <3>1, <4>1, <4>2
    <3>2. CASE 2 * Len(buf) >= Answer \/ waitRecv
      <4>1. UNCHANGED <<requests, waitRecv>>
        BY <1>3, <2>1, <3>2 DEF JS!Asks
      <4>2. QED
        BY <1>2, <4>1
    <3>3. QED
      BY <1>2, <1>3, <3>1, <3>2
  <2>3. sent' = sent
    BY <2>1
  <2>4. CASE buf = <<>>
    <3>1. buf' = <<>>
      BY <2>1, <2>4 DEF Dropped
    <3>2. BrowserInv' /\ SharedInv'
      BY <1>2, <1>3, <1>7, <2>1, <2>2, <2>4, <3>1
    <3>3. QED
      BY <1>1, <2>1, <2>3, <2>4, <3>1, <3>2
  <2>5. CASE buf # <<>>
    <3>1. 1 \in 0 .. Len(buf)
      BY <1>2, <2>5
    <3>2. buf' \in Seq(Block) /\ Len(buf') = Len(buf) - 1
      BY <1>2, <2>1, <3>1, DroppedInRange
    <3>3. BrowserInv' /\ SharedInv'
      BY <1>2, <1>3, <1>4, <1>7, <2>1, <2>2, <3>1, <3>2
    <3>4. Waiting' = SubSeq(Waiting, 1 + 1, Len(Waiting))
      <4> HIDE DEF sent
      <4>1. QED
        BY <1>1, <1>2, <1>5, <2>1, <2>3, <3>1, DroppedOfFirst
    <3>5. 1 \in 1 .. Len(Waiting)
      BY <1>3, <1>5, <1>6, <3>1
    <3>6. Promised!Next
      BY <2>1, <3>4, <3>5, Hears
    <3>7. QED
      BY <3>3, <3>6
  <2>6. QED
    BY <2>4, <2>5
<1>14. CASE JS!OnAnswer
  <2>1. /\ answers # <<>> /\ buf' = buf \o Head(answers) /\ answers' = Tail(answers)
        /\ waitRecv' = FALSE
        /\ UNCHANGED <<next, thread, failures, worklet, requests, resumes>>
    BY <1>14 DEF JS!OnAnswer, JS!shared
  <2>2. Len(answers) = 1 /\ requests = 0 /\ waitRecv
    <3>1. answers \in Seq(Seq(Block)) /\ answers # <<>>
      BY <1>2, <2>1
    <3>2. Len(answers) # 0
      BY <3>1
    <3>3. requests + Len(answers) = (IF waitRecv THEN 1 ELSE 0) /\ requests \in Nat /\ Len(answers) \in Nat
      BY <1>2, <1>3
    <3>4. Len(answers) >= 1
      BY <3>2, <3>3
    <3>5. waitRecv
      BY <3>3, <3>4
    <3>6. requests + Len(answers) = 1
      BY <3>3, <3>5
    <3>7. Len(answers) = 1 /\ requests = 0
      <4>1. PICK n \in Nat : n = Len(answers)
        BY <3>3
      <4>2. PICK m \in Nat : m = requests
        BY <3>3
      <4>3. m + n = 1 /\ n >= 1
        BY <3>4, <3>6, <4>1, <4>2
      <4>4. m = 0 /\ n = 1
        BY <4>3
      <4>5. QED
        BY <4>1, <4>2, <4>4
    <3>8. QED
      BY <3>5, <3>7
  <2>3. answers' = <<>> /\ Len(answers') = 0 /\ answers' \in Seq(Seq(Block))
    <3>1. answers \in Seq(Seq(Block)) /\ Len(answers) = 1
      BY <1>2, <2>2
    <3>2. answers' = <<>>
      BY <2>1, <3>1, OneElement
    <3>3. QED
      BY <3>2
  <2>4. sent = Head(answers) /\ sent' = <<>> /\ Len(sent) = Answer
    BY <1>5, <2>1, <2>3
  <2>5. buf' = Waiting
    BY <1>1, <2>1, <2>4
  <2>6. Len(buf') =< Bound /\ buf' \in Seq(Block)
    BY <1>2, <1>3, <1>4, <1>6, <2>2, <2>4, <2>5
  <2>7. Waiting' = Waiting
    <3>1. Waiting' = buf' \o <<>>
      BY <1>1, <2>4
    <3>2. buf' \o <<>> = buf'
      BY <2>6
    <3>3. QED
      BY <2>5, <3>1, <3>2
  <2>8. BrowserInv' /\ SharedInv'
    <3>1. requests' = 0 /\ ~waitRecv' /\ waitRecv' \in BOOLEAN /\ worklet' = worklet
      BY <2>1, <2>2
    <3>2. \A i \in DOMAIN answers' : Len(answers'[i]) = Answer
      BY <2>3
    <3>3. requests' + Len(answers') = (IF waitRecv' THEN 1 ELSE 0)
      BY <2>3, <3>1
    <3>4. resumes' \in Nat /\ (resumes' > 0 => thread' = "page") /\ next' \in Block /\ failures' \in Nat
      BY <1>2, <1>3, <2>1
    <3>5. QED
      BY <1>7, <2>3, <2>6, <3>1, <3>2, <3>3, <3>4
  <2>9. QED
    BY <2>1, <2>7, <2>8
<1>15. CASE JS!PlayBuffer
  <2>1. /\ ~worklet /\ buf # <<>> /\ buf' = <<>>
        /\ UNCHANGED <<next, thread, failures, worklet, waitRecv, requests, answers, resumes>>
    BY <1>15 DEF JS!PlayBuffer, JS!shared
  <2>2. ~waitRecv /\ Len(answers) = 0
    BY <1>2, <1>3, <2>1
  <2>3. answers = <<>>
    BY <1>2, <2>2
  <2>4. Waiting = buf /\ Waiting' = <<>>
    BY <1>1, <1>2, <2>1, <2>3
  <2>5. Waiting' = SubSeq(Waiting, Len(Waiting) + 1, Len(Waiting)) /\ Len(Waiting) \in 1 .. Len(Waiting)
    BY <1>2, <2>1, <2>4
  <2>6. Promised!Next
    BY <2>1, <2>5, Hears
  <2>7. BrowserInv' /\ SharedInv'
    BY <1>2, <1>3, <1>4, <1>7, <2>1, <2>2
  <2>8. QED
    BY <2>6, <2>7
<1>16. CASE JS!OnEventFired
  BY <1>2, <1>8, <1>16 DEF JS!OnEventFired, JS!shared
<1>17. QED
  BY <1>9, <1>10, <1>11, <1>12, <1>13, <1>14, <1>15, <1>16
  DEF JS!Thread, JS!Device, JS!Environment

-----------------------------------------------------------------------------
(* The ready channel, whichever driver runs.                               *)
LEMMA ReadyStep ==
  ASSUME DriversInv, Next
  PROVE  ReadyInv'
<1> USE DEF ReadyInv
<1>1. ReadyInv /\ driver \in Built
  BY DEF DriversInv
<1>2. CASE InitContext
  BY <1>1, <1>2 DEF InitContext
<1>3. CASE InitContextAgain
  BY <1>1, <1>3 DEF InitContextAgain, vars, shared, context
<1>4. ASSUME UNCHANGED <<ready, mux, driver>>, thread \notin {"off", "start"} => thread' \notin {"off", "start"},
             thread \in {"off", "start"} => thread' = thread
      PROVE  ReadyInv'
  BY <1>1, <1>4
<1>5. ASSUME thread = "start", driver # "browser", UNCHANGED <<mux, driver>>, ready' = ready + 1, thread' # "start"
      PROVE  ReadyInv'
  BY <1>1, <1>5
<1>6. CASE driver = "oboe" /\ OthersThanOboe /\ (Oboe!Thread \/ Oboe!Device \/ Oboe!Environment)
  <2>1. CASE Oboe!Open
    BY <1>5, <1>6, <2>1 DEF Oboe!Open, Oboe!Aborts, OthersThanOboe, context
  <2>2. CASE Oboe!LookProducer \/ Oboe!Mix \/ Oboe!Insert
    BY <1>4, <1>6, <2>2 DEF Oboe!LookProducer, Oboe!Mix, Oboe!Insert, OthersThanOboe, context
  <2>3. CASE Oboe!Device \/ Oboe!Environment
    BY <1>4, <1>6, <2>3
    DEF Oboe!Device, Oboe!Environment, Oboe!AudioReady, Oboe!Take, Oboe!Sleep, Oboe!SpuriousWakeup,
        Oboe!NotifyProducer, Oboe!shared, OthersThanOboe, context
  <2>4. QED
    BY <1>6, <2>1, <2>2, <2>3 DEF Oboe!Thread
<1>7. CASE driver = "alsa" /\ OthersThanAlsa /\ (ALSA!Thread \/ ALSA!Device)
  <2>1. CASE ALSA!Open
    BY <1>5, <1>7, <2>1 DEF ALSA!Open, ALSA!Aborts, OthersThanAlsa, context
  <2>2. CASE ALSA!Read \/ ALSA!Recover \/ ALSA!GiveUp \/ ALSA!Device
    BY <1>4, <1>7, <2>2
    DEF ALSA!Read, ALSA!Recover, ALSA!GiveUp, ALSA!Device, ALSA!Aborts, OthersThanAlsa, context
  <2>3. CASE \E k \in 1 .. Len(rest) : ALSA!Write(k)
    BY <1>4, <1>7, <2>3 DEF ALSA!Write, OthersThanAlsa, context
  <2>4. QED
    BY <1>7, <2>1, <2>2, <2>3 DEF ALSA!Thread
<1>8. CASE driver = "darwin" /\ OthersThanDarwin
           /\ (AudioQueue!Thread \/ AudioQueue!Device \/ AudioQueue!Environment)
  <2>1. CASE AudioQueue!Start
    BY <1>4, <1>5, <1>8, <2>1
    DEF AudioQueue!Start, AudioQueue!Aborts, OthersThanDarwin, context
  <2>2. CASE AudioQueue!Wait \/ AudioQueue!Pause \/ AudioQueue!BeginResume \/ AudioQueue!TryResume \/ AudioQueue!FillBuffer
    BY <1>4, <1>8, <2>2
    DEF AudioQueue!Wait, AudioQueue!Pause, AudioQueue!BeginResume, AudioQueue!TryResume,
        AudioQueue!FillBuffer, OthersThanDarwin, context
  <2>3. CASE AudioQueue!Device \/ AudioQueue!Environment
    BY <1>4, <1>8, <2>3
    DEF AudioQueue!Device, AudioQueue!Environment, AudioQueue!Suspend, AudioQueue!Resume,
        AudioQueue!Signal, OthersThanDarwin, context
  <2>4. QED
    BY <1>8, <2>1, <2>2, <2>3 DEF AudioQueue!Thread
<1>9. CASE driver = "windows" /\ OthersThanWindows /\ (Win!Thread \/ Win!Device \/ Win!Environment)
  <2>1. CASE Win!Open
    BY <1>5, <1>9, <2>1 DEF Win!Open, Win!Aborts, OthersThanWindows, context
  <2>2. CASE Win!NullLoop
    BY <1>4, <1>9, <2>2 DEF Win!NullLoop, OthersThanWindows, context
  <2>3. CASE Win!Render
    BY <1>4, <1>9, <2>3
    DEF Win!Render, Win!WaitForEvent, Win!Write, Win!FindClientGone, Win!FailToWrite, Win!Poll,
        Win!Restart, Win!Discard, Win!Restarts, Win!Aborts, OthersThanWindows, context
  <2>4. CASE Win!HeaderLoop
    BY <1>4, <1>9, <2>4
    DEF Win!HeaderLoop, Win!Look, Win!BeginWait, Win!AppendBuffer, Win!LoseBuffer, Win!CloseLoop,
        OthersThanWindows, context
  <2>5. CASE Win!PlayPeriod \/ Win!Plug \/ Win!HeaderDone
    BY <1>4, <1>9, <2>5
    DEF Win!PlayPeriod, Win!Plug, Win!HeaderDone, Win!SignalLoop, OthersThanWindows, context
  <2>6. QED
    BY <1>9, <2>1, <2>2, <2>3, <2>4, <2>5 DEF Win!Thread, Win!Device, Win!Environment
<1>10. CASE driver = "browser" /\ OthersThanBrowser /\ (JS!Thread \/ JS!Device \/ JS!Environment)
  <2>1. CASE JS!Open
    BY <1>1, <1>10, <2>1 DEF JS!Open, OthersThanBrowser, context
  <2>2. CASE JS!OnRequest \/ JS!OnAudioProcess \/ JS!Device \/ JS!Environment
    BY <1>4, <1>10, <2>2
    DEF JS!OnRequest, JS!OnAudioProcess, JS!Device, JS!Environment, JS!Process, JS!OnAnswer,
        JS!PlayBuffer, JS!OnEventFired, JS!shared, OthersThanBrowser, context
  <2>3. CASE JS!OnResumeSuccess
    <3>1. /\ resumes > 0 /\ ready' \in {ready, 1} /\ UNCHANGED <<thread, mux, driver>>
      BY <1>1, <1>10, <2>3 DEF JS!OnResumeSuccess, JS!NotReleased, OthersThanBrowser, context
    <3>2. thread = "page"
      BY <1>10, <3>1 DEF DriversInv, BrowserInv
    <3>3. QED
      BY <1>1, <1>10, <3>1, <3>2
  <2>4. QED
    BY <1>10, <2>1, <2>2, <2>3 DEF JS!Thread
<1>11. QED
  BY <1>2, <1>3, <1>6, <1>7, <1>8, <1>9, <1>10 DEF Next, Thread, Device, Environment

(* InitContext begins what the drivers wait for.                           *)
LEMMA InitContextStep ==
  ASSUME DriversInv, InitContext
  PROVE  DriversInv' /\ UNCHANGED <<next, Waiting>>
<1>1. /\ thread = "off" /\ thread' \in {"start", "done"}
      /\ failures' = failures \/ failures' = failures + 1
      /\ UNCHANGED <<next, device, err, ready, driver, contents, buf, alsaOnly, darwinOnly,
                     windowsOnly, oboeOnly, browserOnly>>
      /\ thread' = "done" => driver \in {"darwin", "browser"}
  BY DEF InitContext, DriversInv, ReadyInv, Works, Fails
<1>2. ReadyInv'
  BY ReadyStep DEF Next
<1>3. SharedInv'
  BY <1>1 DEF DriversInv, SharedInv
<1>4. CASE driver = "oboe"
  <2>1. Oboe!OboeInv' /\ Waiting' = Waiting
    BY <1>1, <1>4
    DEF DriversInv, Oboe!OboeInv, Oboe!SleepsForAReason, Oboe!RoomForChunk, Oboe!Chunk, oboeOnly,
        Waiting, Oboe!Waiting
  <2>2. QED
    BY <1>1, <1>2, <1>3, <1>4, <2>1 DEF DriversInv
<1>5. CASE driver = "alsa"
  <2>1. AlsaInv' /\ Waiting' = Waiting
    BY <1>1, <1>5 DEF DriversInv, AlsaInv, alsaOnly, Waiting, ALSA!Waiting
  <2>2. QED
    BY <1>1, <1>2, <1>3, <1>5, <2>1 DEF DriversInv
<1>6. CASE driver = "darwin"
  <2>1. DarwinInv' /\ Waiting' = Waiting
    BY <1>1, <1>6
    DEF DriversInv, DarwinInv, AudioQueue!BuffersKept, AudioQueue!SomethingToAppend,
        darwinOnly, Waiting, AudioQueue!Waiting
  <2>2. QED
    BY <1>1, <1>2, <1>3, <1>6, <2>1 DEF DriversInv
<1>7. CASE driver = "windows"
  <2>1. backend = "none" /\ thread' = "start"
    BY <1>1, <1>7 DEF DriversInv, WindowsInv
  <2>2. WindowsInv' /\ Waiting' = Waiting
    BY <1>1, <1>7, <2>1 DEF DriversInv, WindowsInv, windowsOnly, Waiting, Win!Waiting
  <2>3. QED
    BY <1>1, <1>2, <1>3, <1>7, <2>2 DEF DriversInv
<1>8. CASE driver = "browser"
  <2>1. BrowserInv' /\ Waiting' = Waiting
    BY <1>1, <1>8 DEF DriversInv, BrowserInv, JS!OneMessage, JS!Bound, browserOnly, Waiting, JS!Waiting
  <2>2. QED
    BY <1>1, <1>2, <1>3, <1>8, <2>1 DEF DriversInv
<1>9. QED
  BY <1>1, <1>4, <1>5, <1>6, <1>7, <1>8, BuiltAssumption DEF DriversInv

(* Every step keeps the invariant, and is one that the promise allows.     *)
LEMMA DriversInit ==
  ASSUME Init
  PROVE  DriversInv /\ Promised!Init
<1> USE DEF Init, SharedInit
<1>1. SharedInv /\ ReadyInv
  BY IdsAssumption DEF SharedInv, ReadyInv, Block
<1>2. Oboe!OboeInv
  BY Constants
  DEF Oboe!OwnInit, Oboe!OboeInv, Oboe!SleepsForAReason, Oboe!RoomForChunk, Oboe!Chunk
<1>3. AlsaInv
  BY Constants DEF ALSA!OwnInit, AlsaInv
<1>4. DarwinInv
  <2> DEFINE numbers == [b \in 1 .. Buffers |-> b]
  <2>1. unqueued = numbers /\ device = <<>> /\ Buffers \in Nat
    BY Constants DEF AudioQueue!OwnInit, AudioQueue!Buffer
  <2>2. numbers \in Seq(1 .. Buffers) /\ DOMAIN numbers = 1 .. Buffers
    BY <2>1
  <2>3. numbers \o <<>> = numbers
    <3> HIDE DEF numbers
    <3>1. QED
      BY <2>2
  <2>4. AudioQueue!IsInjective(numbers) /\ AudioQueue!ToSet(numbers) = 1 .. Buffers
    BY <2>2 DEF AudioQueue!IsInjective, AudioQueue!ToSet
  <2>5. AudioQueue!BuffersKept
    BY <2>1, <2>3, <2>4 DEF AudioQueue!BuffersKept, AudioQueue!Buffer
  <2>6. contents \in [1 .. Buffers -> 0 .. Ids]
    BY IdsAssumption DEF AudioQueue!OwnInit, AudioQueue!Buffer, AudioQueue!NoBlock
  <2>7. AudioQueue!SomethingToAppend
    BY DEF AudioQueue!SomethingToAppend
  <2>8. QED
    BY <2>1, <2>2, <2>5, <2>6, <2>7 DEF DarwinInv, AudioQueue!Buffer
<1>5. WindowsInv
  BY IdsAssumption DEF Win!OwnInit, Win!NoContents, Win!NoBlock, WindowsInv
<1>6. BrowserInv
  <2>1. /\ buf = <<>> /\ answers = <<>> /\ requests = 0 /\ ~waitRecv /\ waitRecv \in BOOLEAN
        /\ resumes = 0
    BY DEF JS!OwnInit
  <2>2. /\ buf \in Seq(Block) /\ answers \in Seq(Seq(Block)) /\ Len(answers) = 0 /\ Len(buf) = 0
        /\ \A i \in DOMAIN answers : Len(answers[i]) = Answer
    BY <2>1
  <2>3. Len(buf) =< JS!Bound
    BY <2>2, Constants DEF JS!Bound
  <2>4. QED
    BY <2>1, <2>2, <2>3 DEF BrowserInv, JS!OneMessage
<1>7. Waiting = <<>>
  BY BuiltAssumption
  DEF Waiting, Oboe!Waiting, Oboe!OwnInit, ALSA!Waiting, ALSA!OwnInit, AudioQueue!Waiting,
      Win!Waiting, Win!OwnInit, JS!Waiting, JS!OwnInit
<1>8. QED
  BY <1>1, <1>2, <1>3, <1>4, <1>5, <1>6, <1>7 DEF DriversInv, Promised!Init

LEMMA DriversStep ==
  ASSUME DriversInv, [Next]_vars
  PROVE  /\ DriversInv'
         /\ [Promised!Next]_<<next, Waiting>>
<1> USE DEF DriversInv
<1>1. CASE InitContext
  BY <1>1, InitContextStep
<1>2. CASE InitContextAgain \/ UNCHANGED vars
  <2>1. UNCHANGED vars
    BY <1>2 DEF InitContextAgain
  <2>2. UNCHANGED <<next, device, thread, err, ready, failures, driver, mux, rest, contents, unqueued,
                    toPause, toResume, running, backend, event, client, endpoint, buf, tmp, ask,
                    consumer, worklet, waitRecv, requests, answers, resumes>>
    BY <2>1 DEF vars, shared, context, alsaOnly, darwinOnly, windowsOnly, oboeOnly, browserOnly
  <2>3. SharedInv' /\ ReadyInv' /\ driver' \in Built
    BY <2>2 DEF SharedInv, ReadyInv
  <2>4. /\ driver' = "oboe" => Oboe!OboeInv'
        /\ driver' = "alsa" => AlsaInv'
        /\ driver' = "darwin" => DarwinInv'
    BY <2>2 DEF Oboe!OboeInv, Oboe!SleepsForAReason, Oboe!RoomForChunk, Oboe!Chunk,
      AlsaInv, DarwinInv, AudioQueue!BuffersKept, AudioQueue!SomethingToAppend
  <2>5. /\ driver' = "windows" => WindowsInv'
        /\ driver' = "browser" => BrowserInv'
    BY <2>2 DEF WindowsInv, WasapiInv, WinmmInv, Win!IsInjective, Win!HeaderForBuffer,
      Win!FreeHeaders, Win!IsQueued, BrowserInv, JS!OneMessage, JS!Bound
  <2>6. Waiting' = Waiting
    BY <2>2 DEF Waiting, Oboe!Waiting, ALSA!Waiting, AudioQueue!Waiting, Win!Waiting, Win!InHeaders, JS!Waiting
  <2>7. QED
    BY <2>2, <2>3, <2>4, <2>5, <2>6
<1>3. CASE Thread \/ Device \/ Environment
  <2>1. ReadyInv' /\ driver' = driver
    BY <1>3, ReadyStep
    DEF Next, Thread, Device, Environment, OthersThanOboe, OthersThanAlsa, OthersThanDarwin,
        OthersThanWindows, OthersThanBrowser, context
  <2>2. CASE driver = "oboe"
    BY <1>3, <2>1, <2>2, OboePromise DEF Thread, Device, Environment
  <2>3. CASE driver = "alsa"
    BY <1>3, <2>1, <2>3, AlsaStep DEF Thread, Device, Environment
  <2>4. CASE driver = "darwin"
    BY <1>3, <2>1, <2>4, DarwinStep DEF Thread, Device, Environment
  <2>5. CASE driver = "windows"
    BY <1>3, <2>1, <2>5, WindowsStep DEF Thread, Device, Environment
  <2>6. CASE driver = "browser"
    BY <1>3, <2>1, <2>6, BrowserStep DEF Thread, Device, Environment
  <2>7. QED
    BY <2>2, <2>3, <2>4, <2>5, <2>6, BuiltAssumption
<1>4. QED
  BY <1>1, <1>2, <1>3 DEF Next

LEMMA DriversInvariant == Spec => []DriversInv
<1>1. Init => DriversInv
  BY DriversInit
<1>2. DriversInv /\ [Next]_vars => DriversInv'
  BY DriversStep
<1>3. QED
  BY <1>1, <1>2, PTL DEF Spec

(* Whichever driver the program is built with, and however large its       *)
(* buffers are: InitContext's channel is closed once at most, the macOS    *)
(* driver has a buffer whenever it takes the first of the free ones and    *)
(* none is lost, WinMM has a header for each buffer it mixed, the two      *)
(* threads of the Oboe binding do not both wait, and the worklet has at    *)
(* most one message under way.                                             *)
THEOREM DriversTakeNothingForGranted == Spec => []NothingTakenForGranted
<1>1. DriversInv => NothingTakenForGranted
  <2> SUFFICES ASSUME DriversInv
               PROVE  NothingTakenForGranted
    OBVIOUS
  <2>1. ready =< 1
    BY DEF DriversInv, ReadyInv
  <2>2. driver = "oboe" => Oboe!OneIsAwake
    BY Constants DEF DriversInv, Oboe!OboeInv, Oboe!SleepsForAReason, Oboe!OneIsAwake, Oboe!Chunk
  <2>3. QED
    BY <2>1, <2>2 DEF NothingTakenForGranted, DriversInv, DarwinInv, WindowsInv, WinmmInv, BrowserInv
<1>2. QED
  BY <1>1, DriversInvariant, PTL

(* Every driver keeps the promise of Output: each step of it mixes blocks  *)
(* behind those that wait, with no more than the bound of them waiting,    *)
(* or lets the first ones be heard, or loses some to a failure or because  *)
(* there is no device, or changes nothing that is heard.                   *)
THEOREM DriversImplementOutput == Spec => ImplementsOutput
<1>1. Init => Promised!Init
  BY DriversInit
<1>2. DriversInv /\ [Next]_vars => [Promised!Next]_<<next, Waiting>>
  BY DriversStep
<1>3. QED
  BY <1>1, <1>2, DriversInvariant, PTL DEF Spec, ImplementsOutput, Promised!Spec
====
