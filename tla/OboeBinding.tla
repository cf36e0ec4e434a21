---------------------------- MODULE OboeBinding ----------------------------
(***************************************************************************)
(* The Android driver (audio/internal/oboe/binding_android.cpp): Oboe's    *)
(* thread calls onAudioReady for some frames, which waits until buf_ has   *)
(* them; a thread of its own (Loop) keeps buf_ filled.  Both wait on one   *)
(* condition variable.  A block is a frame.                                *)
(***************************************************************************)
EXTENDS Rendering, TLAPS

CONSTANTS Frames,   \* getBufferSizeInFrames of the stream
          MaxAsk    \* the most frames a callback asks for

VARIABLES buf,      \* buf_
          tmp,      \* the frames Loop has mixed and not yet appended
          ask,      \* num of the callback under way, or 0
          consumer  \* what the callback does next

own == <<buf, tmp, ask, consumer>>
vars == <<shared, own>>

Chunk == 3 * Frames

OwnInit == buf = <<>> /\ tmp = <<>> /\ ask = 0 /\ consumer = "idle"

Waiting == buf \o tmp
Bound == 2 * Chunk - 1

(* notify_one: only the other thread can be waiting.                       *)
NotifyConsumer == consumer' = IF consumer = "asleep" THEN "look" ELSE consumer

NotifyProducer == thread' = IF thread = "asleep" THEN "look" ELSE thread

-----------------------------------------------------------------------------
(* Play: the stream is opened, the thread started, then the stream; Oboe   *)
(* may call before start returns.  If start fails, the thread runs on, and *)
(* Oboe never calls.                                                       *)
Open ==
  /\ thread = "start"
  /\ \/ Works /\ thread' = "look" /\ UNCHANGED err
     \/ Fails /\ Aborts
     \/ Fails /\ thread' = "look" /\ err' = TRUE
  /\ ready' = ready + 1
  /\ UNCHANGED <<next, device, own>>

LookProducer ==
  /\ thread = "look"
  /\ thread' = IF Len(buf) < Chunk THEN "mix" ELSE "asleep"
  /\ UNCHANGED <<next, device, err, ready, failures, own>>

Mix ==
  /\ thread = "mix"
  /\ tmp' = Blocks(Chunk)
  /\ Reads(Chunk)
  /\ thread' = "insert"
  /\ UNCHANGED <<device, err, ready, failures, buf, ask, consumer>>

Insert ==
  /\ thread = "insert"
  /\ buf' = buf \o tmp
  /\ tmp' = <<>>
  /\ NotifyConsumer
  /\ thread' = "look"
  /\ UNCHANGED <<next, device, err, ready, failures, ask>>

Thread == Open \/ LookProducer \/ Mix \/ Insert

AudioReady ==
  /\ thread \notin {"off", "start", "done"} /\ ~err
  /\ consumer = "idle"
  /\ ask' \in 1 .. MaxAsk
  /\ consumer' = "look"
  /\ UNCHANGED <<shared, buf, tmp>>

Take ==
  /\ consumer = "look"
  /\ Len(buf) >= ask
  /\ buf' = Dropped(buf, ask)
  /\ ask' = 0
  /\ consumer' = "idle"
  /\ NotifyProducer
  /\ UNCHANGED <<next, device, err, ready, failures, tmp>>

Sleep ==
  /\ consumer = "look"
  /\ Len(buf) < ask
  /\ consumer' = "asleep"
  /\ UNCHANGED <<shared, buf, tmp, ask>>

Device == AudioReady \/ Take \/ Sleep

(* The standard lets a condition variable wake up without a notification.  *)
SpuriousWakeup ==
  /\ \/ thread = "asleep" /\ thread' = "look" /\ UNCHANGED consumer
     \/ consumer = "asleep" /\ consumer' = "look" /\ UNCHANGED thread
  /\ UNCHANGED <<next, device, err, ready, failures, buf, tmp, ask>>

Environment == SpuriousWakeup

(* The binding by itself, in a program that has not yet called Play.       *)
Init == SharedInit /\ OwnInit
StartsPlay == thread = "off" /\ thread' = "start" /\ UNCHANGED <<next, device, err, ready, failures, own>>
Next == StartsPlay \/ Thread \/ Device \/ Environment
Spec == Init /\ [][Next]_vars

(* At most one of the two threads waits for the other.                     *)
OneIsAwake == ~(thread = "asleep" /\ consumer = "asleep")

-----------------------------------------------------------------------------
(* The two threads never both wait, and buf_ never holds more than twice   *)
(* what the producer adds at a time, for streams of any size, as long as   *)
(* callbacks ask for at most three times that size.                        *)
(* A sleeper sleeps because of what buf_ holds now: whoever changes buf_   *)
(* so that this is no longer true wakes it up.                             *)
SleepsForAReason ==
  /\ thread = "asleep" => Len(buf) >= Chunk
  /\ consumer = "asleep" => Len(buf) < ask

(* What the producer is about to add, and why there is room for it.        *)
RoomForChunk ==
  /\ thread = "mix" => Len(buf) < Chunk
  /\ thread = "insert" => Len(buf) < Chunk /\ Len(tmp) = Chunk
  /\ thread # "insert" => Len(tmp) = 0
  /\ Len(buf) =< 2 * Chunk - 1

OboeInv ==
  /\ buf \in Seq(0 .. Ids) /\ tmp \in Seq(0 .. Ids)
  /\ ask \in 0 .. MaxAsk
  /\ next \in 0 .. Ids
  /\ SleepsForAReason
  /\ RoomForChunk

LEMMA BlocksType ==
  ASSUME next \in 0 .. Ids, NEW k \in Nat
  PROVE  Blocks(k) \in Seq(0 .. Ids) /\ Len(Blocks(k)) = k
<1>1. \A i \in 1 .. k : (next + i - 1) % Ids \in 0 .. Ids
  BY IdsAssumption
<1>2. QED
  BY <1>1 DEF Blocks

LEMMA DroppedType ==
  ASSUME NEW S, NEW s \in Seq(S), NEW k \in 0 .. Len(s)
  PROVE  Dropped(s, k) \in Seq(S) /\ Len(Dropped(s, k)) = Len(s) - k
  BY DEF Dropped

LEMMA AppendedType ==
  ASSUME NEW S, NEW s \in Seq(S), NEW t \in Seq(S)
  PROVE  s \o t \in Seq(S) /\ Len(s \o t) = Len(s) + Len(t)
  OBVIOUS

LEMMA OboeInit ==
  ASSUME Frames \in Nat \ {0}, MaxAsk \in 1 .. 3 * Frames
  PROVE  Init => OboeInv
  BY IdsAssumption DEF Init, SharedInit, OwnInit, OboeInv, SleepsForAReason, RoomForChunk, Chunk

LEMMA OboeStep ==
  ASSUME Frames \in Nat \ {0}, MaxAsk \in 1 .. 3 * Frames
  PROVE  OboeInv /\ [Next]_vars => OboeInv'
<1> SUFFICES ASSUME OboeInv, [Next]_vars
             PROVE  OboeInv'
  OBVIOUS
<1> USE DEF OboeInv, SleepsForAReason, RoomForChunk
<1>0. Chunk \in Nat /\ Chunk > 0 /\ Chunk' = Chunk /\ MaxAsk =< Chunk
  BY DEF Chunk
<1>1. CASE StartsPlay
  BY <1>0, <1>1 DEF StartsPlay, own
<1>2. CASE Open
  BY <1>0, <1>2 DEF Open, Aborts, own
<1>3. CASE LookProducer
  BY <1>0, <1>3 DEF LookProducer, own
<1>4. CASE Mix
  <2>1. Blocks(Chunk) \in Seq(0 .. Ids) /\ Len(Blocks(Chunk)) = Chunk
    BY <1>0, BlocksType
  <2>2. next' \in 0 .. Ids
    BY <1>0, <1>4, IdsAssumption DEF Mix, Reads
  <2>3. QED
    BY <1>0, <1>4, <2>1, <2>2 DEF Mix
<1>5. CASE Insert
  <2>1. buf' \in Seq(0 .. Ids) /\ Len(buf') = Len(buf) + Chunk
    BY <1>0, <1>5, AppendedType DEF Insert
  <2>2. consumer' # "asleep"
    BY <1>5 DEF Insert, NotifyConsumer
  <2>3. QED
    BY <1>0, <1>5, <2>1, <2>2 DEF Insert
<1>6. CASE AudioReady
  BY <1>0, <1>6 DEF AudioReady, shared
<1>7. CASE Take
  <2>1. ask \in 0 .. Len(buf)
    BY <1>7 DEF Take
  <2>2. buf' \in Seq(0 .. Ids) /\ Len(buf') = Len(buf) - ask
    BY <1>7, <2>1, DroppedType DEF Take
  <2>3. \/ thread = "asleep" /\ thread' = "look"
        \/ thread # "asleep" /\ thread' = thread
    BY <1>7 DEF Take, NotifyProducer
  <2>4. /\ ask' = 0 /\ consumer' = "idle"
        /\ tmp' = tmp /\ next' = next
    BY <1>7 DEF Take
  <2>5. SleepsForAReason'
    BY <2>3, <2>4
  <2>6. RoomForChunk'
    <3>1. Len(buf') \in Nat /\ Len(buf) \in Nat /\ Len(buf') =< Len(buf)
      BY <2>1, <2>2
    <3>2. QED
      BY <1>0, <2>3, <2>4, <3>1
  <2>7. QED
    BY <1>0, <2>2, <2>4, <2>5, <2>6
<1>8. CASE Sleep
  BY <1>0, <1>8 DEF Sleep, shared
<1>9. CASE SpuriousWakeup
  BY <1>0, <1>9 DEF SpuriousWakeup
<1>10. CASE UNCHANGED vars
  BY <1>0, <1>10 DEF vars, shared, own
<1>11. QED
  BY <1>1, <1>2, <1>3, <1>4, <1>5, <1>6, <1>7, <1>8, <1>9, <1>10
  DEF Next, Thread, Device, Environment

(* The two threads of the binding never both wait for the other, and the   *)
(* delay is bounded, for every stream whose callbacks ask for at most      *)
(* three times its buffer.                                                 *)
THEOREM OboeNeverHangs ==
  ASSUME Frames \in Nat \ {0}, MaxAsk \in 1 .. 3 * Frames
  PROVE  Spec => [](OneIsAwake /\ Len(Waiting) =< Bound)
<1>1. Init => OboeInv
  BY OboeInit
<1>2. OboeInv /\ [Next]_vars => OboeInv'
  BY OboeStep
<1>3. OboeInv => OneIsAwake /\ Len(Waiting) =< Bound
  <2> SUFFICES ASSUME OboeInv
               PROVE  OneIsAwake /\ Len(Waiting) =< Bound
    OBVIOUS
  <2>1. Chunk \in Nat /\ Chunk > 0 /\ MaxAsk =< Chunk
    BY DEF Chunk
  <2>2. Len(Waiting) = Len(buf) + Len(tmp)
    BY DEF OboeInv, Waiting
  <2>3. QED
    BY <2>1, <2>2 DEF OboeInv, SleepsForAReason, RoomForChunk, OneIsAwake, Bound
<1>4. QED
  BY <1>1, <1>2, <1>3, PTL DEF Spec
=============================================================================
