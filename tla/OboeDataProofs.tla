---------------------------- MODULE OboeDataProofs ----------------------------
(***************************************************************************)
(* A stream of Oboe from its opening to its frames, on every phone and for *)
(* every builder: the app gets what it asked for or nothing, MMAP is used  *)
(* only where it works, and whatever path the frames then take, through a  *)
(* FIFO, a filter or both, they keep their order and none is lost.         *)
(*                                                                         *)
(* First the two parts of the path by themselves, for every size of        *)
(* buffer, burst, block and chunk, every ratio of rates and every pattern  *)
(* of calls: the two threads of a FifoBuffer never pass each other and     *)
(* what is read is what was written, in order; the resampler keeps in step *)
(* with its source, no frame is lost on the way but to a call that fails,  *)
(* and the app's answer decides how long the device goes on.               *)
(***************************************************************************)
EXTENDS OboeData, TLAPS

USE CapacityAssumption

-----------------------------------------------------------------------------
(* Division with remainder.                                                *)
LEMMA Remainder ==
  ASSUME NEW c \in Nat
  PROVE  /\ c = Capacity * (c \div Capacity) + (c % Capacity)
         /\ c \div Capacity \in Nat
         /\ c % Capacity \in 0..(Capacity - 1)
  BY SMT

(* It has one outcome only.                                                *)
LEMMA RemainderUnique ==
  ASSUME NEW p \in Int, NEW q \in Int,
         NEW r \in 0..(Capacity - 1), NEW s \in 0..(Capacity - 1),
         Capacity * p + r = Capacity * q + s
  PROVE  r = s
<1>1. Capacity * (p - q) = s - r
  BY SMT
<1>2. CASE p - q >= 1
  <2>1. Capacity * (p - q) >= Capacity
    BY <1>2, SMT
  <2> QED BY <2>1, <1>1, SMT
<1>3. CASE p - q =< -1
  <2>1. Capacity * (p - q) =< -Capacity
    BY <1>3, SMT
  <2> QED BY <2>1, <1>1, SMT
<1> QED BY <1>1, <1>2, <1>3, SMT

(* The place of a frame found by going on from another one.                *)
LEMMA IndexIsRemainder ==
  ASSUME NEW c \in Nat, NEW k \in 0..Capacity
  PROVE  Index(c, k) = (c + k) % Capacity
<1> DEFINE q == c \div Capacity
           r == c % Capacity
           p == (c + k) \div Capacity
           s == (c + k) % Capacity
<1>1. c = Capacity * q + r /\ q \in Nat /\ r \in 0..(Capacity - 1)
  BY Remainder, Zenon
<1>2. c + k \in Nat
  OBVIOUS
<1>3. c + k = Capacity * p + s /\ p \in Nat /\ s \in 0..(Capacity - 1)
  BY <1>2, Remainder, Zenon
<1>4. Index(c, k) = IF r + k < Capacity THEN r + k ELSE r + k - Capacity
  BY DEF Index
<1> HIDE DEF q, r, p, s
<1>5. CASE r + k < Capacity
  <2>1. Capacity * p + s = Capacity * q + (r + k) /\ r + k \in 0..(Capacity - 1)
    BY <1>1, <1>3, <1>5, SMT
  <2>2. s = r + k
    BY <2>1, <1>1, <1>3, RemainderUnique, SMT
  <2> QED BY <2>2, <1>4, <1>5 DEF s
<1>6. CASE ~(r + k < Capacity)
  <2> DEFINE t == r + k - Capacity
             u == q + 1
  <2>1. Capacity * p + s = Capacity * u + t /\ t \in 0..(Capacity - 1) /\ u \in Int
    BY <1>1, <1>3, <1>6, SMT
  <2> HIDE DEF t, u
  <2>2. s = t
    BY <2>1, <1>1, <1>3, RemainderUnique, SMT
  <2> QED BY <2>2, <1>4, <1>6 DEF s, t
<1> QED BY <1>5, <1>6

LEMMA IndexShifts ==
  ASSUME NEW c \in Nat, NEW d \in Nat, NEW k \in Nat, d + k < Capacity
  PROVE  Index(c + d, k) = Index(c, d + k)
<1>1. c + d \in Nat /\ k \in 0..Capacity /\ d + k \in 0..Capacity
  BY SMT
<1>2. Index(c + d, k) = ((c + d) + k) % Capacity
  BY <1>1, IndexIsRemainder, Zenon
<1>3. Index(c, d + k) = (c + (d + k)) % Capacity
  BY <1>1, IndexIsRemainder, Zenon
<1>4. (c + d) + k = c + (d + k)
  BY SMT
<1> QED BY <1>2, <1>3, <1>4

(* Two frames that are less than a capacity apart have two places.         *)
LEMMA IndexDiffers ==
  ASSUME NEW c \in Nat, NEW j \in 0..(Capacity - 1), NEW k \in 0..(Capacity - 1), j # k
  PROVE  Index(c, j) # Index(c, k)
<1>1. c % Capacity \in 0..(Capacity - 1)
  BY Remainder, Zenon
<1> QED BY <1>1, SMT DEF Index

LEMMA IndexInStorage ==
  ASSUME NEW c \in Nat, NEW k \in 0..(Capacity - 1)
  PROVE  Index(c, k) \in 0..(Capacity - 1)
<1>1. c % Capacity \in 0..(Capacity - 1)
  BY Remainder, Zenon
<1> QED BY <1>1, SMT DEF Index

-----------------------------------------------------------------------------
(* The inductive invariant: neither copy is about more than there is or    *)
(* than there is room for, and what the writer has copied in already is in *)
(* order too.                                                              *)
InFifo == writeCounter - readCounter

CopiesFit ==
  /\ writer.copied =< writer.frames /\ writer.frames =< Capacity - InFifo
  /\ reader.copied =< reader.frames /\ reader.frames =< InFifo

CopiedInOrder ==
  \A k \in 0..(Capacity - 1) :
    k < InFifo + writer.copied => storage[Index(readCounter, k)] = readCounter + k

(* A copy for the app is about no more than its call has left.             *)
CallCovers ==
  transfer = "copy" => (IF output THEN writer ELSE reader).frames =< left

QueueInv ==
  /\ TypeOK
  /\ source = writeCounter
  /\ CopiesFit
  /\ CopiedInOrder
  /\ CallCovers

LEMMA CopyParts ==
  ASSUME NEW copy \in Copying
  PROVE  copy.frames \in 0..Capacity /\ copy.copied \in 0..Capacity
  BY DEF Copying

(* One frame more.                                                         *)
LEMMA CopyGoesOn ==
  ASSUME NEW copy \in Copying, copy.copied < copy.frames
  PROVE  LET next == [copy EXCEPT !.copied = @ + 1] IN
           /\ next \in Copying
           /\ next.frames = copy.frames
           /\ next.copied = copy.copied + 1
<1>1. copy.copied + 1 \in 0..Capacity
  BY CopyParts, SMT
<1> QED BY <1>1 DEF Copying

LEMMA FullIsInFifo ==
  ASSUME TypeOK
  PROVE  Full = InFifo
  BY SMT DEF TypeOK, Full, Least, InFifo

(* A copy begins with what there is, or with the room there is.            *)
LEMMA BeginWriteKeeps ==
  ASSUME QueueInv, NEW n \in Nat, BeginWrite(n)
  PROVE  writer' \in Copying /\ CopiesFit' /\ CopiedInOrder' /\ source' = writeCounter'
<1> USE DEF QueueInv
<1>1. Full = InFifo
  BY FullIsInFifo
<1>2. /\ writer'.frames \in 0..(Capacity - InFifo) /\ writer'.copied = 0
      /\ writer' \in Copying
  BY <1>1, SMT DEF BeginWrite, Empty, Least, TypeOK, InFifo, Copying
<1>3. CopiesFit'
  BY <1>2, SMT DEF CopiesFit, BeginWrite, InFifo, TypeOK, Copying
<1>4. CopiedInOrder'
  <2> SUFFICES ASSUME NEW k \in 0..(Capacity - 1), k < (InFifo + writer.copied)'
               PROVE  storage[Index(readCounter, k)] = readCounter + k
    BY DEF CopiedInOrder, BeginWrite, Index
  <2>1. k < InFifo + writer.copied
    BY <1>2, CopyParts, SMT DEF BeginWrite, InFifo, TypeOK
  <2> QED BY <2>1 DEF CopiedInOrder
<1> QED BY <1>2, <1>3, <1>4 DEF BeginWrite

LEMMA BeginReadKeeps ==
  ASSUME QueueInv, NEW n \in Nat, BeginRead(n)
  PROVE  reader' \in Copying /\ CopiesFit' /\ CopiedInOrder' /\ source' = writeCounter'
<1> USE DEF QueueInv
<1>1. Full = InFifo
  BY FullIsInFifo
<1>2. /\ reader'.frames \in 0..InFifo /\ reader'.copied = 0
      /\ reader' \in Copying
  BY <1>1, SMT DEF BeginRead, Least, TypeOK, InFifo, Copying
<1>3. CopiesFit'
  BY <1>2, SMT DEF CopiesFit, BeginRead, InFifo, TypeOK, Copying
<1>4. CopiedInOrder'
  BY SMT DEF CopiedInOrder, BeginRead, InFifo, Index, CallCovers
<1> QED BY <1>2, <1>3, <1>4 DEF BeginRead

(* The counter of the writer takes over what it has copied.                *)
LEMMA EndWriteKeeps ==
  ASSUME QueueInv, EndWrite
  PROVE  /\ writer' \in Copying /\ CopiesFit' /\ CopiedInOrder' /\ source' = writeCounter'
         /\ writeCounter' \in Nat /\ source' \in Nat
         /\ writeCounter' - readCounter' \in 0..Capacity
<1> USE DEF QueueInv
<1>1. /\ writer' = Resting /\ Resting \in Copying
      /\ writeCounter' = writeCounter + writer.copied
      /\ readCounter' = readCounter /\ storage' = storage /\ reader' = reader
  BY SMT DEF EndWrite, Copied, Resting, Copying, TypeOK
<1>2. CopiesFit' /\ writeCounter' - readCounter' \in 0..Capacity /\ writeCounter' \in Nat
  <2>1. Resting.frames = 0 /\ Resting.copied = 0
    BY DEF Resting
  <2>2. readCounter \in Nat /\ writeCounter \in Nat /\ InFifo \in 0..Capacity
    BY DEF TypeOK, InFifo
  <2>3. /\ writer.frames \in 0..Capacity /\ writer.copied \in 0..Capacity
        /\ writer.copied =< writer.frames /\ writer.frames =< Capacity - InFifo
        /\ reader.frames \in 0..Capacity /\ reader.copied \in 0..Capacity
        /\ reader.copied =< reader.frames /\ reader.frames =< InFifo
    BY CopyParts DEF TypeOK, CopiesFit
  <2>4. InFifo' = InFifo + writer.copied
    BY <1>1, <2>2, <2>3, SMT DEF InFifo
  <2>5. /\ writer'.copied =< writer'.frames /\ writer'.frames =< Capacity - InFifo'
        /\ reader'.copied =< reader'.frames /\ reader'.frames =< InFifo'
        /\ InFifo' \in 0..Capacity /\ writeCounter' \in Nat
    BY <1>1, <2>1, <2>2, <2>3, <2>4, SMT
  <2> QED BY <2>5 DEF CopiesFit, InFifo
<1>3. CopiedInOrder'
  BY <1>1, SMT DEF CopiedInOrder, InFifo, TypeOK, Copying, Resting, Index
<1> QED BY <1>1, <1>2, <1>3 DEF EndWrite

(* What the reader leaves behind, the others are counted from anew.        *)
LEMMA EndReadKeeps ==
  ASSUME QueueInv, EndRead
  PROVE  /\ reader' \in Copying /\ CopiesFit' /\ CopiedInOrder' /\ source' = writeCounter'
         /\ readCounter' \in Nat
         /\ writeCounter' - readCounter' \in 0..Capacity
<1> USE DEF QueueInv
<1> DEFINE f == reader.frames
<1>1. /\ reader' = Resting /\ Resting \in Copying
      /\ readCounter' = readCounter + f /\ f \in 0..InFifo
      /\ writeCounter' = writeCounter /\ storage' = storage /\ writer' = writer
  BY SMT DEF EndRead, Copied, Resting, Copying, TypeOK, CopiesFit, InFifo
<1>2. CopiesFit' /\ writeCounter' - readCounter' \in 0..Capacity /\ readCounter' \in Nat
  <2>1. Resting.frames = 0 /\ Resting.copied = 0
    BY DEF Resting
  <2>2. readCounter \in Nat /\ writeCounter \in Nat /\ InFifo \in 0..Capacity
    BY DEF TypeOK, InFifo
  <2>3. /\ writer.frames \in 0..Capacity /\ writer.copied \in 0..Capacity
        /\ writer.copied =< writer.frames /\ writer.frames =< Capacity - InFifo
    BY CopyParts DEF TypeOK, CopiesFit
  <2>4. InFifo' = InFifo - f
    <3> HIDE DEF f
    <3> QED BY <1>1, <2>2, SMT DEF InFifo
  <2>5. /\ writer'.copied =< writer'.frames /\ writer'.frames =< Capacity - InFifo'
        /\ reader'.copied =< reader'.frames /\ reader'.frames =< InFifo'
        /\ InFifo' \in 0..Capacity /\ readCounter' \in Nat
    <3> HIDE DEF f
    <3> QED BY <1>1, <2>1, <2>2, <2>3, <2>4, SMT
  <2> QED BY <2>5 DEF CopiesFit, InFifo
<1> HIDE DEF f
<1>3. CopiedInOrder'
  <2> SUFFICES ASSUME NEW k \in 0..(Capacity - 1), k < (InFifo + writer.copied)'
               PROVE  storage'[Index(readCounter', k)] = readCounter' + k
    BY DEF CopiedInOrder, Index
  <2>1. /\ f + k \in 0..(Capacity - 1) /\ f + k < InFifo + writer.copied
        /\ f \in Nat /\ k \in Nat /\ f + k < Capacity /\ readCounter \in Nat
    <3>1. readCounter \in Nat /\ writeCounter \in Nat /\ InFifo \in 0..Capacity
      BY DEF TypeOK, InFifo
    <3>2. /\ writer.frames \in 0..Capacity /\ writer.copied \in 0..Capacity
          /\ writer.copied =< writer.frames /\ writer.frames =< Capacity - InFifo
      BY CopyParts DEF TypeOK, CopiesFit
    <3>3. k < (InFifo - f) + writer.copied
      <4>1. InFifo' = InFifo - f /\ writer'.copied = writer.copied
        BY <1>1, <3>1, SMT DEF InFifo
      <4> QED BY <4>1
    <3> QED BY <1>1, <3>1, <3>2, <3>3, SMT
  <2>2. Index(readCounter + f, k) = Index(readCounter, f + k)
    BY <2>1, IndexShifts
  <2>3. storage[Index(readCounter, f + k)] = readCounter + (f + k)
    BY <2>1 DEF CopiedInOrder
  <2> QED BY <1>1, <2>1, <2>2, <2>3
<1> QED BY <1>1, <1>2, <1>3 DEF EndRead

(* A frame copied in goes where no other one is.                           *)
LEMMA CopyInKeeps ==
  ASSUME QueueInv, CopyIn
  PROVE  QueueInv'
<1> USE DEF QueueInv
<1> DEFINE d == InFifo
           c == writer.copied
<1>1. /\ d \in Nat /\ c \in Nat /\ d + c < Capacity /\ d + c \in 0..(Capacity - 1)
      /\ c < writer.frames /\ readCounter \in Nat /\ writeCounter = readCounter + d
  <2>1. writer \in Copying /\ reader \in Copying /\ writer.copied # writer.frames
    BY DEF CopyIn, Copied, TypeOK
  <2>2. writer.frames \in 0..Capacity /\ writer.copied \in 0..Capacity
    BY <2>1, CopyParts
  <2> QED BY <2>1, <2>2, SMT DEF TypeOK, CopiesFit, InFifo
<1>2. Index(writeCounter, c) = Index(readCounter, d + c)
  <2> HIDE DEF d, c
  <2> QED BY <1>1, IndexShifts
<1>3. Index(readCounter, d + c) \in 0..(Capacity - 1)
  <2> HIDE DEF d, c
  <2> QED BY <1>1, IndexInStorage
<1>4. /\ storage' = [storage EXCEPT ![Index(readCounter, d + c)] = readCounter + (d + c)]
      /\ writer' \in Copying /\ writer'.frames = writer.frames /\ writer'.copied = c + 1
      /\ readCounter' = readCounter /\ writeCounter' = writeCounter /\ reader' = reader
  <2>1. writer \in Copying
    BY DEF TypeOK
  <2>2. /\ writer' = [writer EXCEPT !.copied = @ + 1]
        /\ storage' = [storage EXCEPT ![Index(writeCounter, c)] = source + c]
        /\ readCounter' = readCounter /\ writeCounter' = writeCounter /\ reader' = reader
    BY DEF CopyIn
  <2>3. source + c = readCounter + (d + c)
    <3> HIDE DEF d, c
    <3> QED BY <1>1, SMT
  <2> QED BY <1>1, <1>2, <2>1, <2>2, <2>3, CopyGoesOn
<1>5. TypeOK' /\ source' = writeCounter' /\ CopiesFit'
  <2>1. source' = writeCounter'
    BY DEF CopyIn
  <2>2. CopiesFit'
    <3>1. writer.frames \in 0..Capacity
      BY CopyParts DEF TypeOK
    <3>2. writer'.copied =< writer'.frames
      BY <3>1, <1>1, <1>4, SMT
    <3> QED BY <3>2, <1>4 DEF CopiesFit, InFifo
  <2>3. storage' \in [0..(Capacity - 1) -> Int]
    <3>1. readCounter + (d + c) \in Int
      <4> HIDE DEF d, c
      <4> QED BY <1>1, SMT
    <3> QED BY <1>3, <1>4, <3>1 DEF TypeOK
  <2>4. TypeOK'
    BY <2>3, <1>4 DEF CopyIn, TypeOK, app
  <2> QED BY <2>1, <2>2, <2>4
<1>6. CopiedInOrder'
  <2> SUFFICES ASSUME NEW k \in 0..(Capacity - 1), k < (InFifo + writer.copied)'
               PROVE  storage'[Index(readCounter, k)] = readCounter + k
    BY <1>4 DEF CopiedInOrder, Index
  <2>1. k = d + c \/ (k # d + c /\ k < d + c)
    <3>1. k < d + (c + 1)
      BY <1>4 DEF InFifo
    <3> HIDE DEF d, c
    <3> QED BY <3>1, <1>1, SMT
  <2>2. Index(readCounter, k) \in 0..(Capacity - 1)
    BY <1>1, IndexInStorage
  <2>3. CASE k = d + c
    BY <2>3, <1>3, <1>4 DEF TypeOK
  <2>4. CASE k # d + c /\ k < d + c
    <3>1. Index(readCounter, k) # Index(readCounter, d + c)
      <4> HIDE DEF d, c
      <4> QED BY <2>4, <1>1, IndexDiffers
    <3>2. storage[Index(readCounter, k)] = readCounter + k
      BY <2>4 DEF CopiedInOrder
    <3> QED BY <3>1, <3>2, <2>2, <1>4 DEF TypeOK
  <2> QED BY <2>1, <2>3, <2>4
<1>7. CallCovers'
  BY <1>4 DEF CopyIn, CallCovers, app
<1> QED BY <1>5, <1>6, <1>7

-----------------------------------------------------------------------------
LEMMA QueueInvInit == FifoInit => QueueInv
<1> SUFFICES ASSUME FifoInit PROVE QueueInv
  OBVIOUS
<1>1. Resting \in Copying /\ Resting.frames = 0 /\ Resting.copied = 0
  BY SMT DEF Resting, Copying
<1>2. TypeOK
  <2>1. /\ output \in BOOLEAN /\ closed \in BOOLEAN
        /\ readCounter = 0 /\ writeCounter = 0 /\ source = 0
        /\ bufferSize = Capacity /\ left = 0 /\ time = 0 /\ background = 0
        /\ writer \in Copying /\ reader \in Copying /\ transfer = "idle"
    BY <1>1 DEF FifoInit
  <2>2. storage \in [0..(Capacity - 1) -> Int]
    BY DEF FifoInit
  <2>3. writeCounter - readCounter \in 0..Capacity /\ bufferSize \in 1..Capacity
    BY <2>1, SMT
  <2> QED BY <2>1, <2>2, <2>3 DEF TypeOK
<1>3. InFifo = 0 /\ writer = Resting /\ reader = Resting /\ transfer = "idle"
  BY SMT DEF FifoInit, InFifo
<1>4. CopiesFit /\ CallCovers
  BY <1>1, <1>3, SMT DEF CopiesFit, CallCovers
<1>5. CopiedInOrder
  BY <1>1, <1>3, SMT DEF CopiedInOrder
<1> QED BY <1>2, <1>4, <1>5 DEF FifoInit, QueueInv

(* A step of the FIFO, or a call of any length.                            *)
QueueNext == FifoNext \/ \E n \in Nat, patience \in Patience : Transfer(n, patience)

LEMMA QueueInvNext == QueueInv /\ [QueueNext]_fifo => QueueInv'
<1> SUFFICES ASSUME QueueInv, [QueueNext]_fifo PROVE QueueInv'
  OBVIOUS
<1> USE DEF QueueInv
<1> USE SizesAssumption
<1>1. ASSUME NEW n \in Nat, NEW patience \in Patience, Transfer(n, patience) PROVE QueueInv'
  BY <1>1, SMT DEF Transfer, queue, TypeOK, CopiesFit, CopiedInOrder, InFifo, Index, CallCovers
<1>2. CASE Move
  <2>1. Room \in Nat /\ left \in Nat
    BY SMT DEF Room, Most, Least, Full, TypeOK
  <2>2. CASE output
    <3>1. BeginWrite(Room)
      BY <1>2, <2>2 DEF Move
    <3>2. writer' \in Copying /\ CopiesFit' /\ CopiedInOrder' /\ source' = writeCounter'
      BY <2>1, <3>1, BeginWriteKeeps
    <3>3. CallCovers'
      BY <1>2, <2>1, <2>2, <3>1, SMT DEF Move, BeginWrite, CallCovers, Least, Most, Room, Empty, Full, TypeOK
    <3> QED BY <1>2, <3>1, <3>2, <3>3, SMT DEF Move, BeginWrite, TypeOK
  <2>3. CASE ~output
    <3>1. BeginRead(left)
      BY <1>2, <2>3 DEF Move
    <3>2. reader' \in Copying /\ CopiesFit' /\ CopiedInOrder' /\ source' = writeCounter'
      BY <2>1, <3>1, BeginReadKeeps
    <3>3. CallCovers'
      BY <1>2, <2>1, <2>3, <3>1, SMT DEF Move, BeginRead, CallCovers, Least, Full, TypeOK
    <3> QED BY <1>2, <3>1, <3>2, <3>3, SMT DEF Move, BeginRead, TypeOK
  <2> QED BY <2>2, <2>3
<1>3. CASE Moved
  <2>0. /\ writer.frames \in 0..Capacity /\ reader.frames \in 0..Capacity
        /\ CallCovers' /\ left \in Nat
    BY <1>3, CopyParts DEF Moved, CallCovers, TypeOK
  <2>1. CASE output
    <3>1. EndWrite /\ left' = left - writer.frames
      BY <1>3, <2>1 DEF Moved
    <3>2. /\ writer' \in Copying /\ CopiesFit' /\ CopiedInOrder' /\ source' = writeCounter'
          /\ writeCounter' \in Nat /\ source' \in Nat /\ writeCounter' - readCounter' \in 0..Capacity
      BY <3>1, EndWriteKeeps
    <3>3. left' \in Nat
      BY <1>3, <2>0, <2>1, <3>1, SMT DEF Moved, CallCovers
    <3> QED BY <1>3, <2>0, <3>1, <3>2, <3>3 DEF Moved, EndWrite, TypeOK
  <2>2. CASE ~output
    <3>1. EndRead /\ left' = left - reader.frames
      BY <1>3, <2>2 DEF Moved
    <3>2. /\ reader' \in Copying /\ CopiesFit' /\ CopiedInOrder' /\ source' = writeCounter'
          /\ readCounter' \in Nat /\ writeCounter' - readCounter' \in 0..Capacity
      BY <3>1, EndReadKeeps
    <3>3. left' \in Nat
      BY <1>3, <2>0, <2>2, <3>1, SMT DEF Moved, CallCovers
    <3> QED BY <1>3, <2>0, <3>1, <3>2, <3>3 DEF Moved, EndRead, TypeOK
  <2> QED BY <2>1, <2>2
<1>4. CASE Decide
  <2>1. /\ UNCHANGED <<output, queue, bufferSize, background, closed>>
        /\ transfer' \in {"idle", "move"}
    BY <1>4 DEF Decide
  <2>2. left' \in Nat /\ time' \in Nat
    BY <1>4, SMT DEF Decide, TypeOK, Most
  <2>3. TypeOK' /\ source' = writeCounter'
    BY <2>1, <2>2 DEF TypeOK, queue
  <2>4. CopiesFit' /\ CopiedInOrder'
    BY <2>1 DEF CopiesFit, CopiedInOrder, InFifo, Index, queue
  <2>5. CallCovers'
    BY <2>1 DEF CallCovers
  <2> QED BY <2>3, <2>4, <2>5
<1>5. CASE CopyIn
  BY <1>5, CopyInKeeps
<1>6. CASE CopyOut
  <2>1. reader \in Copying /\ reader.copied < reader.frames
    <3>1. reader \in Copying /\ reader.copied =< reader.frames /\ reader.copied # reader.frames
      BY <1>6 DEF CopyOut, Copied, TypeOK, CopiesFit
    <3>2. reader.frames \in 0..Capacity /\ reader.copied \in 0..Capacity
      BY <3>1, CopyParts
    <3> QED BY <3>1, <3>2, SMT
  <2>2. /\ reader' \in Copying /\ reader'.frames = reader.frames
        /\ reader'.copied = reader.copied + 1
    BY <1>6, <2>1, CopyGoesOn DEF CopyOut
  <2>3. reader'.copied =< reader'.frames
    BY <2>1, <2>2, CopyParts, SMT
  <2>4. CopiesFit'
    BY <1>6, <2>2, <2>3, SMT DEF CopyOut, CopiesFit, InFifo
  <2>5. TypeOK'
    BY <1>6, <2>2 DEF CopyOut, TypeOK, app
  <2>6. CopiedInOrder' /\ source' = writeCounter'
    BY <1>6 DEF CopyOut, CopiedInOrder, InFifo, Index
  <2>7. CallCovers'
    BY <1>6, <2>2 DEF CopyOut, CallCovers, app
  <2> QED BY <2>4, <2>5, <2>6, <2>7
<1>7. CASE CallbackReturns
  <2>1. CASE output
    <3>1. EndRead
      BY <1>7, <2>1 DEF CallbackReturns
    <3>2. /\ reader' \in Copying /\ CopiesFit' /\ CopiedInOrder' /\ source' = writeCounter'
          /\ readCounter' \in Nat /\ writeCounter' - readCounter' \in 0..Capacity
      BY <3>1, EndReadKeeps
    <3>3. CallCovers'
      BY <1>7, <2>1, <3>1 DEF CallbackReturns, EndRead, CallCovers, app
    <3> QED BY <1>7, <3>1, <3>2, <3>3, SMT DEF CallbackReturns, EndRead, TypeOK, app
  <2>2. CASE ~output
    <3>1. EndWrite
      BY <1>7, <2>2 DEF CallbackReturns
    <3>2. /\ writer' \in Copying /\ CopiesFit' /\ CopiedInOrder' /\ source' = writeCounter'
          /\ writeCounter' \in Nat /\ source' \in Nat /\ writeCounter' - readCounter' \in 0..Capacity
      BY <3>1, EndWriteKeeps
    <3>3. CallCovers'
      BY <1>7, <2>2, <3>1 DEF CallbackReturns, EndWrite, CallCovers, app
    <3> QED BY <1>7, <3>1, <3>2, <3>3, SMT DEF CallbackReturns, EndWrite, TypeOK, app
  <2> QED BY <2>1, <2>2
<1>8. CASE Close
  BY <1>8, SMT DEF Close, queue, app, TypeOK, CopiesFit, CopiedInOrder, InFifo, Index, CallCovers
<1>9. ASSUME NEW n \in Sizes, SetBufferSizeInFrames(n) PROVE QueueInv'
  BY <1>9, SMT DEF SetBufferSizeInFrames, queue, app, TypeOK, CopiesFit, CopiedInOrder, InFifo, Index, CallCovers, Most
<1>10. ASSUME NEW n \in Sizes, OnDefaultCallback(n) PROVE QueueInv'
  <2>1. n \in Nat
    OBVIOUS
  <2>2. CASE output
    <3>1. BeginRead(n)
      BY <1>10, <2>2 DEF OnDefaultCallback
    <3>2. reader' \in Copying /\ CopiesFit' /\ CopiedInOrder' /\ source' = writeCounter'
      BY <2>1, <3>1, BeginReadKeeps
    <3>3. CallCovers'
      BY <1>10, <2>2, <3>1 DEF OnDefaultCallback, BeginRead, CallCovers, app
    <3> QED BY <1>10, <3>1, <3>2, <3>3, SMT DEF OnDefaultCallback, BeginRead, TypeOK, app
  <2>3. CASE ~output
    <3>1. BeginWrite(n)
      BY <1>10, <2>3 DEF OnDefaultCallback
    <3>2. writer' \in Copying /\ CopiesFit' /\ CopiedInOrder' /\ source' = writeCounter'
      BY <2>1, <3>1, BeginWriteKeeps
    <3>3. CallCovers'
      BY <1>10, <2>3, <3>1 DEF OnDefaultCallback, BeginWrite, CallCovers, app
    <3> QED BY <1>10, <3>1, <3>2, <3>3, SMT DEF OnDefaultCallback, BeginWrite, TypeOK, app
  <2> QED BY <2>2, <2>3
<1>11. CASE UNCHANGED fifo
  BY <1>11, SMT DEF fifo, queue, app, TypeOK, CopiesFit, CopiedInOrder, InFifo, Index, CallCovers
<1> QED BY <1>1, <1>2, <1>3, <1>4, <1>5, <1>6, <1>7, <1>8, <1>9, <1>10, <1>11
      DEF QueueNext, FifoNext, CallOfApp, Background

LEMMA QueueSafe == QueueInv => FramesInOrder
BY SMT DEF QueueInv, FramesInOrder, CopiedInOrder, InFifo, TypeOK, Copying

LEMMA QueueInvariance == FifoSpec => []QueueInv
<1>1. [FifoNext]_fifo => [QueueNext]_fifo
  BY DEF QueueNext
<1> QED BY <1>1, QueueInvInit, QueueInvNext, PTL DEF FifoSpec

(* Whatever the capacity and the calls, the counters keep their distance.  *)
THEOREM FifoTypeOK == FifoSpec => []TypeOK
<1>1. QueueInv => TypeOK
  BY DEF QueueInv
<1> QED BY <1>1, QueueInvariance, PTL

(* Whatever the capacity and the calls, what is read is what was written,  *)
(* in order: the two threads need no lock.                                 *)
THEOREM FifoInOrder == FifoSpec => []FramesInOrder
  BY QueueInvariance, QueueSafe, PTL

-----------------------------------------------------------------------------
(* The resampler.                                                          *)

(* The phase is all the resampler remembers of the place it is at.         *)
PhaseIsPlace ==
  Resamples =>
    /\ produced \in Nat /\ consumed \in Nat /\ phase \in Nat
    /\ phase = ratio.den + ratio.num * produced - ratio.den * consumed
    /\ phase < ratio.den + ratio.num

RatioIsPositive == ratio.num \in Nat \ {0} /\ ratio.den \in Nat \ {0}

PlaceInv == RatioIsPositive /\ PhaseIsPlace

(* A step of the conversion, or an answer of any length: that of a FIFO    *)
(* the stream writes to, or reads from, is not bounded.                    *)
ConvertNext == FilterNext \/ \E j \in Nat : Answer(j)

(* Only reading a frame and writing one move the phase and the counters.   *)
LEMMA RestKeepsPlace ==
  ASSUME PlaceInv, UNCHANGED <<ratio, phase, consumed>>, Resamples => produced' = produced
  PROVE  PlaceInv'
BY DEF PlaceInv, RatioIsPositive, PhaseIsPlace, Resamples

LEMMA EmitKeepsPlace ==
  ASSUME PlaceInv, Emit
  PROVE  PlaceInv'
<1>. DEFINE num == ratio.num
            den == ratio.den
<1>1. ratio' = ratio
  BY DEF Emit, pipe
<1>2. num \in Nat \ {0} /\ den \in Nat \ {0}
  BY DEF PlaceInv, RatioIsPositive
<1>3. phase < den /\ phase' = phase + num /\ produced' = produced + 1 /\ consumed' = consumed
  BY DEF Emit
<1>4. SUFFICES ASSUME Resamples
               PROVE  /\ produced' \in Nat /\ consumed' \in Nat /\ phase' \in Nat
                      /\ phase' = den + num * produced' - den * consumed'
                      /\ phase' < den + num
  BY <1>1, <1>2 DEF PlaceInv, RatioIsPositive, PhaseIsPlace, Resamples
<1>5. produced \in Nat /\ consumed \in Nat /\ phase \in Nat /\ phase = den + num * produced - den * consumed
  BY <1>4 DEF PlaceInv, PhaseIsPlace
<1>. HIDE DEF num, den
<1>6. num * (produced + 1) = num * produced + num
  BY <1>2, <1>5
<1>. QED
  BY <1>2, <1>3, <1>5, <1>6

LEMMA FeedKeepsPlace ==
  ASSUME PlaceInv, Feed
  PROVE  PlaceInv'
<1>. DEFINE num == ratio.num
            den == ratio.den
<1>1. ratio' = ratio
  BY DEF Feed, pipe
<1>2. num \in Nat \ {0} /\ den \in Nat \ {0}
  BY DEF PlaceInv, RatioIsPositive
<1>3. phase >= den /\ phase' = phase - den /\ produced' = produced /\ consumed' = consumed + 1
  BY DEF Feed
<1>4. SUFFICES ASSUME Resamples
               PROVE  /\ produced' \in Nat /\ consumed' \in Nat /\ phase' \in Nat
                      /\ phase' = den + num * produced' - den * consumed'
                      /\ phase' < den + num
  BY <1>1, <1>2 DEF PlaceInv, RatioIsPositive, PhaseIsPlace, Resamples
<1>5. /\ produced \in Nat /\ consumed \in Nat /\ phase \in Nat
      /\ phase = den + num * produced - den * consumed /\ phase < den + num
  BY <1>4 DEF PlaceInv, PhaseIsPlace
<1>. HIDE DEF num, den
<1>6. den * (consumed + 1) = den * consumed + den
  BY <1>2, <1>5
<1>. QED
  BY <1>2, <1>3, <1>5, <1>6

LEMMA ConvertCases ==
  ASSUME [ConvertNext]_filter
  PROVE  \/ (\E n \in Calls : Call(n)) \/ Restart \/ Pull
         \/ FromBuffer \/ ReadStorage \/ AskForBlock \/ ReadAll
         \/ Emit \/ Feed \/ Fetch \/ Converted
         \/ AddToBlock \/ StoreBlock
         \/ EndPlay \/ EndReading \/ EndWriting \/ EndRecord
         \/ CallApp \/ GiveApp
         \/ (\E j \in Nat : ReadDevice(j)) \/ (\E j \in Nat : WriteDevice(j)) \/ ReadFails \/ WriteFails
         \/ UNCHANGED filter
<1>1. Device => Fails \/ \E j \in Nat : Answer(j)
  BY BlocksAssumption DEF Device
<1>2. (\E j \in Nat : Answer(j)) => (\E j \in Nat : ReadDevice(j)) \/ (\E j \in Nat : WriteDevice(j))
  BY DEF Answer
<1>. QED
  BY <1>1, <1>2 DEF ConvertNext, FilterNext, Goes, Source, Resampler, Adapter, Ends, App, Fails

LEMMA StepKeepsPlace ==
  ASSUME PlaceInv, [ConvertNext]_filter
  PROVE  PlaceInv'
<1>. USE DEF pipe, sink, adapter, resampler, answers, counts
<1>1. CASE \E n \in Calls : Call(n)
  BY <1>1, RestKeepsPlace DEF Call
<1>2. CASE Restart \/ Pull
  BY <1>2, RestKeepsPlace DEF Restart, Pull
<1>3. CASE FromBuffer
  BY <1>3, RestKeepsPlace DEF FromBuffer, Supplied, Resamples
<1>4. CASE ReadStorage \/ AskForBlock
  BY <1>4, RestKeepsPlace DEF ReadStorage, AskForBlock
<1>5. CASE ReadAll
  BY <1>5, RestKeepsPlace DEF ReadAll, Supplied, Resamples
<1>6. CASE Emit
  BY <1>6, EmitKeepsPlace
<1>7. CASE Feed
  BY <1>7, FeedKeepsPlace
<1>8. CASE Fetch \/ Converted
  BY <1>8, RestKeepsPlace DEF Fetch, Converted
<1>9. CASE AddToBlock \/ StoreBlock
  BY <1>9, RestKeepsPlace DEF AddToBlock, StoreBlock
<1>10. CASE EndPlay \/ EndReading \/ EndWriting \/ EndRecord
  BY <1>10, RestKeepsPlace DEF EndPlay, EndReading, EndWriting, EndRecord
<1>11. CASE CallApp
  BY <1>11, RestKeepsPlace DEF CallApp, Block, NoBlock, Supplied, Resamples
<1>12. CASE GiveApp
  BY <1>12, RestKeepsPlace DEF GiveApp
<1>13. CASE \E j \in Nat : ReadDevice(j)
  BY <1>13, RestKeepsPlace DEF ReadDevice, Block, Supplied, Resamples
<1>14. CASE \E j \in Nat : WriteDevice(j)
  BY <1>14, RestKeepsPlace DEF WriteDevice
<1>15. CASE ReadFails \/ WriteFails
  BY <1>15, RestKeepsPlace DEF ReadFails, WriteFails, NoBlock, Supplied, Resamples
<1>16. CASE UNCHANGED filter
  BY <1>16, RestKeepsPlace DEF filter
<1>. QED
  BY <1>1, <1>2, <1>3, <1>4, <1>5, <1>6, <1>7, <1>8, <1>9, <1>10, <1>11, <1>12, <1>13, <1>14, <1>15, <1>16, ConvertCases

-----------------------------------------------------------------------------
(* The frames on the way through the conversion: how many each place may   *)
(* hold while the call is at each point.                                   *)
Fetching == doing = "source" \/ (~Buffered /\ doing \in {"app", "device"})
GivingBlocks == doing \in {"add", "store", "flush"} \/ (Buffered /\ doing = "app")

FramesTypeOK ==
  /\ size \in Nat \ {0}
  /\ wanted \in Nat /\ got \in Nat /\ room \in Nat /\ pulled \in Nat /\ need \in Nat
  /\ given \in Nat /\ block \in Nat /\ fresh \in Nat /\ valid \in Nat
  /\ entered \in Nat /\ consumed \in Nat /\ produced \in Nat
  /\ delivered \in Nat /\ dropped \in Nat /\ lost \in Nat

(* A pull brings some of what the sink still wants, and no more.           *)
PullFits ==
  /\ doing # "idle" => wanted > 0
  /\ doing = "sink" => got < wanted
  /\ doing = "done" => got =< wanted
  /\ Pulling => room + pulled > 0 /\ got + room + pulled =< wanted
  /\ Pulling /\ ~Resamples => pulled = 0
  /\ Fetching => room > 0
  /\ doing = "convert" => Resamples

(* The source is asked when the rate converter has nothing left, and the   *)
(* app or the device when the block adapter has nothing left.              *)
FetchFits ==
  /\ Fetching => need =< Ask /\ (Resamples => valid = 0 /\ phase >= ratio.den)
  /\ Fetching /\ doing # "source" => block = 0 /\ need > 0
  /\ ~Buffered => given = 0

(* The block writer gives whole blocks and keeps less than one.            *)
BlocksFit ==
  /\ GivingBlocks => kind = "record" /\ got = 0
  /\ kind = "record" => block =< size
  /\ doing = "flush" => block = size
  /\ doing = "store" \/ (Buffered /\ doing = "app") => block = 0
  /\ Buffered /\ doing = "app" => fresh > size
  /\ fresh # 0 => GivingBlocks

PathInv == FramesTypeOK /\ PullFits /\ FetchFits /\ BlocksFit

LEMMA NoStepReconfigures ==
  ASSUME [ConvertNext]_filter
  PROVE  UNCHANGED pipe
BY DEF ConvertNext, FilterNext, filter, Goes, Source, Resampler, Adapter, Ends, App, Device, Answer, Fails,
       Call, Restart, Pull, Emit, Feed, Fetch, Converted, FromBuffer, ReadStorage, AskForBlock,
       ReadAll, CallApp, ReadDevice, ReadFails, EndPlay, EndReading, EndWriting, WriteDevice,
       WriteFails, EndRecord, AddToBlock, StoreBlock, GiveApp

(* A block read from the app or the device, or a part of one; or the       *)
(* failure to read it.                                                     *)
LEMMA BlockKeepsPath ==
  ASSUME PathInv, Fetching, doing # "source", NoBlock \/ \E b \in 0..size : Block(b),
         UNCHANGED <<pipe, wanted, room, pulled, given, fresh, phase, consumed, delivered, lost>>
  PROVE  PathInv'
<1>1. /\ UNCHANGED <<kind, size, ratio>>
      /\ Resamples' <=> Resamples
  BY DEF pipe, Resamples
<1>. USE <1>1, BlocksAssumption
     DEF PathInv, FramesTypeOK, PullFits, FetchFits, BlocksFit, Fetching, GivingBlocks,
         Ask, Buffered, Pulling, Supplied, Pulled
<1>2. CASE NoBlock
  <2>1. FramesTypeOK' /\ PullFits'
    BY <1>2, SMT DEF NoBlock
  <2>2. FetchFits' /\ BlocksFit'
    BY <1>2, SMT DEF NoBlock
  <2>. QED
    BY <2>1, <2>2
<1>3. ASSUME NEW b \in 0..size, Block(b) PROVE PathInv'
  <2>1. FramesTypeOK'
    <3>1. CASE Through
      BY <1>3, <3>1, SMT DEF Block, Through
    <3>2. CASE ~Through
      BY <1>3, <3>2, SMT DEF Block
    <3>. QED
      BY <3>1, <3>2
  <2>2. PullFits'
    BY <1>3, SMT DEF Block, Through
  <2>3. FetchFits' /\ BlocksFit'
    BY <1>3, SMT DEF Block, Through
  <2>. QED
    BY <2>1, <2>2, <2>3
<1>. QED
  BY <1>2, <1>3

LEMMA BlockLosesNothing ==
  ASSUME PathInv, NothingLost, Fetching, doing # "source", NoBlock \/ \E b \in 0..size : Block(b),
         UNCHANGED <<pipe, wanted, room, pulled, given, fresh, phase, consumed, delivered, lost>>
  PROVE  NothingLost'
<1>1. /\ UNCHANGED <<kind, size, ratio>>
      /\ Resamples' <=> Resamples
  BY DEF pipe, Resamples
<1>. USE <1>1, BlocksAssumption
     DEF PathInv, FramesTypeOK, PullFits, FetchFits, Fetching, Ask, Buffered, Pulling, Supplied, Pulled,
         NothingLost, OnTheWayIn, OnTheWayOut, Used
<1>2. CASE NoBlock
  BY <1>2, SMT DEF NoBlock
<1>3. ASSUME NEW b \in 0..size, Block(b) PROVE NothingLost'
  <2>1. CASE Through
    BY <1>3, <2>1, SMT DEF Block
  <2>2. CASE ~Through
    BY <1>3, <2>2, SMT DEF Block
  <2>. QED
    BY <2>1, <2>2
<1>. QED
  BY <1>2, <1>3

LEMMA StepKeepsPath ==
  ASSUME PathInv, [ConvertNext]_filter
  PROVE  PathInv'
<1>1. /\ UNCHANGED <<kind, size, ratio>>
      /\ Resamples' <=> Resamples
  BY NoStepReconfigures DEF pipe, Resamples
<1>. USE <1>1, BlocksAssumption
     DEF PathInv, FramesTypeOK, PullFits, FetchFits, BlocksFit, Fetching, GivingBlocks, Ask, Buffered,
         Pulling, sink, adapter, resampler, answers, counts
<1>2. ASSUME NEW n \in Calls, Call(n) PROVE PathInv'
  BY <1>2, SMT DEF Call
<1>3. CASE Restart
  BY <1>3, SMT DEF Restart
<1>4. CASE Pull
  BY <1>4, SMT DEF Pull, Smaller
<1>5. CASE Emit
  BY <1>5, SMT DEF Emit
<1>6. CASE Feed
  BY <1>6, SMT DEF Feed
<1>7. CASE Fetch
  BY <1>7, SMT DEF Fetch
<1>8. CASE Converted
  BY <1>8, SMT DEF Converted, Pulled
<1>9. CASE FromBuffer
  BY <1>9, SMT DEF FromBuffer, Supplied, Pulled, Smaller
<1>10. CASE ReadStorage
  BY <1>10, SMT DEF ReadStorage, Smaller
<1>11. CASE AskForBlock
  BY <1>11, SMT DEF AskForBlock
<1>12. CASE ReadAll
  BY <1>12, SMT DEF ReadAll, Supplied, Pulled
<1>13. CASE CallApp \/ ReadFails \/ \E j \in Nat : ReadDevice(j)
  <2>1. /\ Fetching /\ doing # "source" /\ (NoBlock \/ \E b \in 0..size : Block(b))
        /\ UNCHANGED <<pipe, wanted, room, pulled, given, fresh, phase, consumed, delivered, lost>>
    BY <1>13, SMT DEF CallApp, ReadFails, ReadDevice
  <2>. QED
    BY <2>1, BlockKeepsPath
<1>14. CASE EndPlay \/ EndReading
  BY <1>14, SMT DEF EndPlay, EndReading
<1>15. CASE EndWriting
  BY <1>15, SMT DEF EndWriting
<1>16. ASSUME NEW j \in Nat, WriteDevice(j) PROVE PathInv'
  BY <1>16, SMT DEF WriteDevice
<1>17. CASE WriteFails
  BY <1>17, SMT DEF WriteFails
<1>18. CASE EndRecord
  BY <1>18, SMT DEF EndRecord
<1>19. CASE AddToBlock
  BY <1>19, SMT DEF AddToBlock, Smaller
<1>20. CASE StoreBlock
  BY <1>20, SMT DEF StoreBlock
<1>21. CASE GiveApp
  BY <1>21, SMT DEF GiveApp
<1>22. CASE UNCHANGED filter
  BY <1>22, SMT DEF filter
<1>. QED
  BY <1>2, <1>3, <1>4, <1>5, <1>6, <1>7, <1>8, <1>9, <1>10, <1>11, <1>12, <1>13, <1>14,
     <1>15, <1>16, <1>17, <1>18, <1>19, <1>20, <1>21, <1>22, ConvertCases

LEMMA StepLosesNothing ==
  ASSUME PathInv, NothingLost, [ConvertNext]_filter
  PROVE  NothingLost'
<1>1. /\ UNCHANGED <<kind, size, ratio>>
      /\ Resamples' <=> Resamples
  BY NoStepReconfigures DEF pipe, Resamples
<1>. USE <1>1, BlocksAssumption
     DEF PathInv, FramesTypeOK, PullFits, FetchFits, BlocksFit, Fetching, GivingBlocks, Ask, Buffered,
         Pulling, NothingLost, OnTheWayIn, OnTheWayOut, Used, sink, adapter, resampler, answers, counts
<1>2. ASSUME NEW n \in Calls, Call(n) PROVE NothingLost'
  BY <1>2, SMT DEF Call
<1>3. CASE Restart
  BY <1>3, SMT DEF Restart
<1>4. CASE Pull
  BY <1>4, SMT DEF Pull, Smaller
<1>5. CASE Emit
  BY <1>5, SMT DEF Emit
<1>6. CASE Feed
  BY <1>6, SMT DEF Feed
<1>7. CASE Fetch
  BY <1>7, SMT DEF Fetch
<1>8. CASE Converted
  BY <1>8, SMT DEF Converted, Pulled
<1>9. CASE FromBuffer
  <2>1. CASE Resamples
    BY <1>9, <2>1, SMT DEF FromBuffer, Supplied, Pulled, Smaller
  <2>2. CASE ~Resamples
    BY <1>9, <2>2, SMT DEF FromBuffer, Supplied, Pulled, Smaller
  <2>. QED
    BY <2>1, <2>2
<1>10. CASE ReadStorage
  BY <1>10, SMT DEF ReadStorage, Smaller
<1>11. CASE AskForBlock
  BY <1>11, SMT DEF AskForBlock
<1>12. CASE ReadAll
  BY <1>12, SMT DEF ReadAll, Supplied, Pulled
<1>13. CASE CallApp \/ ReadFails \/ \E j \in Nat : ReadDevice(j)
  <2>1. /\ Fetching /\ doing # "source" /\ (NoBlock \/ \E b \in 0..size : Block(b))
        /\ UNCHANGED <<pipe, wanted, room, pulled, given, fresh, phase, consumed, delivered, lost>>
    BY <1>13, SMT DEF CallApp, ReadFails, ReadDevice
  <2>. QED
    BY <2>1, BlockLosesNothing
<1>14. CASE EndPlay \/ EndReading
  <2>1. CASE EndPlay
    BY <2>1, SMT DEF EndPlay
  <2>2. CASE EndReading
    BY <2>2, SMT DEF EndReading
  <2>. QED
    BY <1>14, <2>1, <2>2
<1>15. CASE EndWriting
  BY <1>15, SMT DEF EndWriting
<1>16. ASSUME NEW j \in Nat, WriteDevice(j) PROVE NothingLost'
  BY <1>16, SMT DEF WriteDevice
<1>17. CASE WriteFails
  BY <1>17, SMT DEF WriteFails
<1>18. CASE EndRecord
  BY <1>18, SMT DEF EndRecord
<1>19. CASE AddToBlock
  BY <1>19, SMT DEF AddToBlock, Smaller
<1>20. CASE StoreBlock
  BY <1>20, SMT DEF StoreBlock
<1>21. CASE GiveApp
  <2>1. CASE doing = "flush"
    BY <1>21, <2>1, SMT DEF GiveApp
  <2>2. CASE doing = "app"
    <3>1. /\ doing' = "store" /\ fresh' = fresh - size /\ delivered' = delivered + size
          /\ UNCHANGED <<sink, given, block, valid, entered, consumed, produced, dropped, lost>>
          /\ kind = "record"
      BY <1>21, <2>2 DEF GiveApp
    <3>. QED
      BY <2>2, <3>1, SMT
  <2>. QED
    BY <1>21, <2>1, <2>2 DEF GiveApp
<1>22. CASE UNCHANGED filter
  BY <1>22, SMT DEF filter
<1>. QED
  BY <1>2, <1>3, <1>4, <1>5, <1>6, <1>7, <1>8, <1>9, <1>10, <1>11, <1>12, <1>13, <1>14,
     <1>15, <1>16, <1>17, <1>18, <1>19, <1>20, <1>21, <1>22, ConvertCases

-----------------------------------------------------------------------------
(* What the app has answered, and what of it the device is to be told.     *)

(* A call of the device the app has answered with Stop brings no more than *)
(* what was converted before it.                                           *)
AfterStop ==
  kind = "play" /\ said = "Stop" /\ doing # "idle" =>
    /\ got < wanted
    /\ doing # "done" => Resamples /\ valid = 0 /\ block = 0 /\ phase >= ratio.den
    /\ Pulling => pulled = 0
    /\ Fetching => need > 0

AnswersKept ==
  /\ AfterStop
  /\ kind = "play" => heard = "Continue"
  /\ kind = "play" /\ doing = "done" /\ got # wanted => said = "Stop"
  /\ kind = "record" /\ said = "Stop" => heard = "Stop"
  /\ AppDecides

LEMMA StepKeepsAnswers ==
  ASSUME PathInv, PlaceInv, AnswersKept, [ConvertNext]_filter
  PROVE  AnswersKept'
<1>1. /\ UNCHANGED <<kind, size, ratio>>
      /\ Resamples' <=> Resamples
  BY NoStepReconfigures DEF pipe, Resamples
<1>2. Resamples => phase \in Nat /\ ratio.den \in Nat
  BY DEF PlaceInv, RatioIsPositive, PhaseIsPlace
<1>. USE <1>1, <1>2, BlocksAssumption
     DEF PathInv, FramesTypeOK, PullFits, FetchFits, BlocksFit, Fetching, GivingBlocks, Ask, Buffered,
         Pulling, AnswersKept, AfterStop, AppDecides, WithCallback, sink, adapter, resampler, answers, counts
<1>3. ASSUME NEW n \in Calls, Call(n) PROVE AnswersKept'
  BY <1>3, SMT DEF Call
<1>4. CASE Restart
  BY <1>4, SMT DEF Restart
<1>5. CASE Pull
  BY <1>5, SMT DEF Pull, Smaller
<1>6. CASE Emit
  BY <1>6, SMT DEF Emit
<1>7. CASE Feed
  BY <1>7, SMT DEF Feed
<1>8. CASE Fetch
  BY <1>8, SMT DEF Fetch
<1>9. CASE Converted
  BY <1>9, SMT DEF Converted, Pulled
<1>10. CASE FromBuffer
  BY <1>10, SMT DEF FromBuffer, Supplied, Pulled, Smaller
<1>11. CASE ReadStorage
  BY <1>11, SMT DEF ReadStorage, Smaller
<1>12. CASE AskForBlock
  BY <1>12, SMT DEF AskForBlock
<1>13. CASE ReadAll
  BY <1>13, SMT DEF ReadAll, Supplied, Pulled
<1>14. CASE CallApp
  <2>1. /\ kind = "play" /\ doing = "app" /\ UNCHANGED <<wanted, room, pulled, phase, heard>>
        /\ (said' = "Continue" /\ Block(size)) \/ (said' = "Stop" /\ NoBlock)
    BY <1>14 DEF CallApp
  <2>2. CASE said' = "Continue" /\ Block(size)
    <3>1. doing' = "source"
      BY <2>2, SMT DEF Block
    <3>. QED
      BY <2>1, <2>2, <3>1, SMT
  <2>3. CASE said' = "Stop" /\ NoBlock
    <3>1. CASE Resamples
      BY <2>1, <2>3, <3>1, SMT DEF NoBlock, Supplied, Pulled
    <3>2. CASE ~Resamples
      BY <2>1, <2>3, <3>2, SMT DEF NoBlock, Supplied, Pulled
    <3>. QED
      BY <3>1, <3>2
  <2>. QED
    BY <2>1, <2>2, <2>3
<1>15. ASSUME NEW j \in Nat, ReadDevice(j) PROVE AnswersKept'
  BY <1>15, SMT DEF ReadDevice, Block, Through, Supplied, Pulled
<1>16. CASE ReadFails
  BY <1>16, SMT DEF ReadFails, NoBlock, Supplied, Pulled
<1>17. CASE EndPlay
  <2>1. /\ kind = "play" /\ doing' = "idle" /\ UNCHANGED <<heard, said>>
        /\ heard = "Continue" /\ enabled' = (got = wanted /\ heard = "Continue")
    BY <1>17 DEF EndPlay
  <2>2. said = "Stop" <=> got # wanted
    BY <1>17, SMT DEF EndPlay
  <2>. QED
    BY <2>1, <2>2
<1>18. CASE EndReading
  BY <1>18, SMT DEF EndReading
<1>19. CASE EndWriting
  BY <1>19, SMT DEF EndWriting
<1>20. ASSUME NEW j \in Nat, WriteDevice(j) PROVE AnswersKept'
  BY <1>20, SMT DEF WriteDevice
<1>21. CASE WriteFails
  BY <1>21, SMT DEF WriteFails
<1>22. CASE EndRecord
  <2>1. /\ kind = "record" /\ UNCHANGED <<heard, said>>
        /\ doing' = "idle" => enabled' = (heard = "Continue")
    BY <1>22 DEF EndRecord
  <2>2. said = "Stop" => heard = "Stop"
    BY <2>1
  <2>. QED
    BY <2>1, <2>2
<1>23. CASE AddToBlock
  BY <1>23, SMT DEF AddToBlock
<1>24. CASE StoreBlock
  BY <1>24, SMT DEF StoreBlock
<1>25. CASE GiveApp
  BY <1>25, SMT DEF GiveApp
<1>26. CASE UNCHANGED filter
  BY <1>26, SMT DEF filter
<1>. QED
  BY <1>3, <1>4, <1>5, <1>6, <1>7, <1>8, <1>9, <1>10, <1>11, <1>12, <1>13, <1>14, <1>15, <1>16, <1>17,
     <1>18, <1>19, <1>20, <1>21, <1>22, <1>23, <1>24, <1>25, <1>26, ConvertCases

-----------------------------------------------------------------------------
(* The parts of the conversion together.                                   *)
FilterInv == PlaceInv /\ PathInv /\ NothingLost /\ AnswersKept

LEMMA FilterStarts ==
  ASSUME AtRest, RatioIsPositive, size \in Nat \ {0}, phase = ratio.den
  PROVE  FilterInv
<1>1. PlaceInv
  <2>1. ratio.num * 0 = 0 /\ ratio.den * 0 = 0
    BY DEF RatioIsPositive
  <2>. QED
    BY <2>1 DEF AtRest, PlaceInv, RatioIsPositive, PhaseIsPlace
<1>2. PathInv
  BY SMT DEF AtRest, PathInv, FramesTypeOK, PullFits, FetchFits, BlocksFit, Fetching, GivingBlocks, Pulling
<1>3. NothingLost
  BY SMT DEF AtRest, NothingLost, OnTheWayIn, OnTheWayOut, Used, Pulling
<1>4. AnswersKept
  BY DEF AtRest, AnswersKept, AfterStop, AppDecides
<1>. QED
  BY <1>1, <1>2, <1>3, <1>4 DEF FilterInv

LEMMA FilterKeeps ==
  ASSUME FilterInv, [ConvertNext]_filter
  PROVE  FilterInv'
BY StepKeepsPlace, StepKeepsPath, StepLosesNothing, StepKeepsAnswers DEF FilterInv

LEMMA FilterSafe == FilterInv => InStep /\ NothingLost /\ AppDecides
BY DEF FilterInv, PlaceInv, RatioIsPositive, PhaseIsPlace, InStep, AnswersKept

LEMMA FilterInvariance == FilterSpec => []FilterInv
<1>1. FilterInit => FilterInv
  BY FilterStarts, RatiosAssumption, BlocksAssumption DEF FilterInit, Configured, RatioIsPositive
<1>2. FilterInv /\ [FilterNext]_filter => FilterInv'
  BY FilterKeeps DEF ConvertNext
<1>. QED
  BY <1>1, <1>2, PTL DEF FilterSpec

(* SampleRateConverter and MultiChannelResampler: over any number of       *)
(* calls, chunks and blocks a converted stream does not drift against its  *)
(* source.                                                                 *)
THEOREM ConversionInStep == FilterSpec => []InStep
  BY FilterInvariance, FilterSafe, PTL

(* The flow graph, its block adapters and FilterAudioStream: whatever the  *)
(* sizes of blocks and chunks, the rates and the numbers of frames of the  *)
(* calls, a frame is lost only to a call of the app or the device that     *)
(* fails, and none is counted twice.                                       *)
THEOREM ConversionLosesNothing == FilterSpec => []NothingLost
  BY FilterInvariance, FilterSafe, PTL

(* DataConversionFlowGraph and FilterAudioStream::onAudioReady: the device *)
(* goes on calling an output stream until the app has answered Stop, and   *)
(* calls no stream whose app has.                                          *)
THEOREM AppHasTheLastWord == FilterSpec => []AppDecides
  BY FilterInvariance, FilterSafe, PTL

-----------------------------------------------------------------------------
(* Builders and their children.                                            *)
Builders ==
  [direction : {"output", "input"}, api : {"Unspecified", "AAudio", "OpenSLES"},
   lowLatency : BOOLEAN, callback : BOOLEAN, frames : Nat, format : Open!Formats,
   channels : Nat, rate : Nat, converts : BOOLEAN, resamples : BOOLEAN, preset : Open!Presets]

LEMMA AskedBuilders == Asked \subseteq Builders
BY OpeningAssumption, SMT DEF Open!Requests, Builders

LEMMA ChildFields ==
  ASSUME NEW b \in Builders, b.format # "IEC61937"
  PROVE  LET c == Open!ChildBuilder(b)
         IN  /\ c \in Builders
             /\ c.direction = b.direction /\ c.api = b.api /\ c.preset = b.preset
             /\ c.lowLatency = b.lowLatency /\ c.callback = b.callback
             /\ c.converts = b.converts /\ c.resamples = b.resamples
             /\ c.frames = IF Open!CallbackSizeUnsafe(b) THEN 0 ELSE b.frames
             /\ c.rate = IF Open!RateLeftToDevice(b) THEN 0 ELSE b.rate
             /\ c.format = IF Open!FloatUnsafe(b) THEN "I16" ELSE b.format
             /\ c.channels = IF Open!StereoUnsafe(b) THEN 1 ELSE IF Open!MonoUnsafe(b) THEN 2 ELSE b.channels
<1>1. PICK frames \in Nat : frames = IF Open!CallbackSizeUnsafe(b) THEN 0 ELSE b.frames
  BY DEF Builders
<1>2. PICK rate \in Nat : rate = IF Open!RateLeftToDevice(b) THEN 0 ELSE b.rate
  BY DEF Builders
<1>3. PICK format \in Open!Formats : format = IF Open!FloatUnsafe(b) THEN "I16" ELSE b.format
  BY DEF Builders, Open!Formats
<1>4. PICK channels \in Nat :
        channels = IF Open!StereoUnsafe(b) THEN 1 ELSE IF Open!MonoUnsafe(b) THEN 2 ELSE b.channels
  BY DEF Builders
<1>5. Open!ChildBuilder(b) =
        [b EXCEPT !.frames = frames, !.rate = rate, !.format = format, !.channels = channels]
  BY <1>1, <1>2, <1>3, <1>4, SMT DEF Builders, Open!ChildBuilder, Open!Unspecified
<1>. DEFINE c == [b EXCEPT !.frames = frames, !.rate = rate, !.format = format, !.channels = channels]
<1>6. c \in Builders
  <2>1. \A d \in Builders : [d EXCEPT !.frames = frames] \in Builders
    BY <1>1 DEF Builders
  <2>2. \A d \in Builders : [d EXCEPT !.rate = rate] \in Builders
    BY <1>2 DEF Builders
  <2>3. \A d \in Builders : [d EXCEPT !.format = format] \in Builders
    BY <1>3 DEF Builders
  <2>4. \A d \in Builders : [d EXCEPT !.channels = channels] \in Builders
    BY <1>4 DEF Builders
  <2>. QED
    BY <2>1, <2>2, <2>3, <2>4
<1>7. /\ c.direction = b.direction /\ c.api = b.api /\ c.preset = b.preset
      /\ c.lowLatency = b.lowLatency /\ c.callback = b.callback
      /\ c.converts = b.converts /\ c.resamples = b.resamples
      /\ c.frames = frames /\ c.rate = rate /\ c.format = format /\ c.channels = channels
  BY SMT DEF Builders
<1>. HIDE DEF c
<1>. QED
  BY <1>1, <1>2, <1>3, <1>4, <1>5, <1>6, <1>7 DEF c

LEMMA ChildIsBuilder ==
  ASSUME NEW b \in Builders
  PROVE  /\ Open!ChildBuilder(b) \in Builders
         /\ Open!ChildBuilder(b).direction = b.direction
         /\ Open!ChildBuilder(b).api = b.api
         /\ Open!ChildBuilder(b).preset = b.preset
         /\ b.format # "Invalid" => Open!ChildBuilder(b).format # "Invalid"
<1>1. CASE b.format = "IEC61937"
  BY <1>1 DEF Open!ChildBuilder
<1>2. CASE b.format # "IEC61937"
  BY <1>2, ChildFields, SMT
<1>. QED
  BY <1>1, <1>2

(* What needs no conversion is opened as it is. *)
LEMMA ChildOfFit ==
  ASSUME NEW b \in Builders, ~Open!ConversionNeeded(b)
  PROVE  Open!ChildBuilder(b) = b
<1>1. CASE b.format = "IEC61937"
  BY <1>1 DEF Open!ChildBuilder
<1>2. CASE b.format # "IEC61937"
  <2>1. /\ ~Open!CallbackSizeUnsafe(b) /\ ~Open!RateLeftToDevice(b) /\ ~Open!FloatUnsafe(b)
        /\ ~Open!StereoUnsafe(b) /\ ~Open!MonoUnsafe(b)
    BY <1>2 DEF Open!ConversionNeeded
  <2>. QED
    BY <1>2, <2>1, ChildFields, SMT DEF Builders
<1>. QED
  BY <1>1, <1>2

(* A child needs none: no quirk's remedy calls for another.                *)
LEMMA ChildFits ==
  ASSUME NEW b \in Builders
  PROVE  ~Open!ConversionNeeded(Open!ChildBuilder(b))
<1>. DEFINE c == Open!ChildBuilder(b)
<1>1. CASE b.format = "IEC61937"
  BY <1>1 DEF Open!ChildBuilder, Open!ConversionNeeded
<1>2. CASE b.format # "IEC61937"
  <2>0. /\ c.direction = b.direction /\ c.api = b.api /\ c.preset = b.preset
        /\ c.lowLatency = b.lowLatency /\ c.callback = b.callback
        /\ c.converts = b.converts /\ c.resamples = b.resamples
        /\ c.frames = IF Open!CallbackSizeUnsafe(b) THEN 0 ELSE b.frames
        /\ c.rate = IF Open!RateLeftToDevice(b) THEN 0 ELSE b.rate
        /\ c.format = IF Open!FloatUnsafe(b) THEN "I16" ELSE b.format
        /\ c.channels = IF Open!StereoUnsafe(b) THEN 1 ELSE IF Open!MonoUnsafe(b) THEN 2 ELSE b.channels
    BY <1>2, ChildFields
  <2>. HIDE DEF c
  <2>1. Open!WillUseAAudio(c) <=> Open!WillUseAAudio(b)
    BY <2>0 DEF Open!WillUseAAudio
  <2>2. Open!Input(c) <=> Open!Input(b)
    BY <2>0 DEF Open!Input
  <2>3. ~Open!CallbackSizeUnsafe(c)
    BY <2>0, <2>1 DEF Open!CallbackSizeUnsafe, Open!Unspecified
  <2>4. ~Open!RateLeftToDevice(c)
    BY <2>0 DEF Open!RateLeftToDevice, Open!Unspecified
  <2>5. ~Open!FloatUnsafe(c)
    BY <2>0, <2>1, <2>2 DEF Open!FloatUnsafe
  <2>6. ~Open!StereoUnsafe(c)
    BY <2>0, <2>1, <2>2 DEF Open!StereoUnsafe, Open!MonoUnsafe
  <2>7. Open!MMapPossible(c) => Open!MMapPossible(b)
    BY <2>0 DEF Open!MMapPossible, Open!RateLeftToDevice, Open!Unspecified
  <2>8. ~Open!MonoUnsafe(c)
    BY <2>0, <2>1, <2>2, <2>7 DEF Open!MonoUnsafe, Open!StereoUnsafe
  <2>. QED
    BY <2>3, <2>4, <2>5, <2>6, <2>8 DEF Open!ConversionNeeded, c
<1>. QED
  BY <1>1, <1>2

LEMMA SafeAsAsked ==
  ASSUME NEW b \in Builders
  PROVE  Open!MMapSafe(Open!ChildBuilder(b)) <=> Open!MMapSafe(b)
BY ChildIsBuilder DEF Open!MMapSafe, Open!Input

-----------------------------------------------------------------------------
(* Streams that are open, and whether one has what a builder specifies.    *)
Streams ==
  [api : {"AAudio", "OpenSLES"}, format : Open!Formats, channels : Nat,
   rate : Nat \ {0}, frames : Nat, mmap : BOOLEAN]

Fits(b) ==
  /\ Open!Meets(b.rate, stream.rate) /\ Open!Meets(b.channels, stream.channels)
  /\ b.format \in {"Unspecified", stream.format}
  /\ b.callback => Open!Meets(b.frames, stream.frames)

(* Which builder is at work: a child's from the time conversion was found  *)
(* to be needed, and after that the app's own unless a filter is opened.   *)
WorkInv ==
  /\ request \in Builders
  /\ level \in {"parent", "child"}
  /\ step \in {"called", "policy", "open", "restore", "compare", "over"}
  /\ step = "called" /\ level = "parent" => builder = request
  /\ level = "child" =>
       /\ builder = Open!ChildBuilder(request) /\ child = Open!NoStream
       /\ request.format # "Invalid"
  /\ step \in {"policy", "open", "restore"} /\ child = Open!NoStream /\ level = "parent" => builder = request
  /\ builder \in {request, Open!ChildBuilder(request)}
  /\ step = "compare" => level = "child"

(* A stream is there once one was opened, and a filter as soon as it is    *)
(* put on its child.                                                       *)
FoundInv ==
  /\ {stream, child} \subseteq Streams \cup {Open!NoStream}
  /\ step \in {"called", "policy"} /\ child = Open!NoStream => stream = Open!NoStream
  /\ step \in {"called", "compare"} => child = Open!NoStream
  /\ child # Open!NoStream => stream # Open!NoStream /\ Fits(request) /\ result = "OK"
  /\ step \in {"restore", "compare", "over"} => (stream = Open!NoStream <=> result # "OK")
  /\ step = "compare" => result = "OK"
  /\ step \in {"restore", "over"} /\ result = "OK" /\ level = "parent" => Fits(request)
  /\ step = "over" /\ level = "child" => result # "OK"

(* MMAP is disabled while a stream is opened that it would not do for.     *)
PolicyInv ==
  /\ wasEnabled \in BOOLEAN
  /\ disabled => step \in {"open", "restore"} /\ policy = "never" /\ wasEnabled
  /\ ~disabled => (Open!Enabled <=> wasEnabled)
  /\ step = "open" /\ Open!Enabled => Open!MMapSafe(request)
  /\ stream # Open!NoStream /\ stream.mmap => Open!MMapSafe(request)

OpeningInv == WorkInv /\ FoundInv /\ PolicyInv

LEMMA OpeningStarts == Open!Init(Asked) => OpeningInv
<1>. SUFFICES ASSUME Open!Init(Asked) PROVE OpeningInv
  OBVIOUS
<1>. USE DEF Open!Init
<1>1. WorkInv
  BY AskedBuilders DEF WorkInv
<1>2. FoundInv
  BY DEF FoundInv
<1>3. PolicyInv
  BY DEF PolicyInv, Open!Enabled
<1>. QED
  BY <1>1, <1>2, <1>3 DEF OpeningInv

(* What a quirk calls for does not change while the stream is opened. *)
LEMMA SameChild ==
  ASSUME phone' = phone, request' = request
  PROVE  Open!ChildBuilder(request)' = Open!ChildBuilder(request)
BY DEF Open!ChildBuilder, Open!CallbackSizeUnsafe, Open!RateLeftToDevice, Open!FloatUnsafe, Open!StereoUnsafe,
       Open!MonoUnsafe, Open!MMapPossible, Open!WillUseAAudio, Open!AAudioSupported, Open!AAudioRecommended, Open!Input

LEMMA PlanKeeps ==
  ASSUME OpeningInv, Open!Plan
  PROVE  OpeningInv'
<1>. USE DEF Open!Plan
<1>0. request \in Builders /\ builder \in {request, Open!ChildBuilder(request)}
  BY DEF OpeningInv, WorkInv
<1>1. Open!ChildBuilder(Open!ChildBuilder(request)) = Open!ChildBuilder(request)
  BY <1>0, ChildIsBuilder, ChildFits, ChildOfFit
<1>2. level = "child" => ~Open!ConversionNeeded(builder)
  BY <1>0, ChildFits DEF OpeningInv, WorkInv
<1>3. ~Open!ConversionNeeded(builder) => Open!ChildBuilder(builder) = builder
  BY <1>0, ChildIsBuilder, ChildOfFit
<1>4. Open!ChildBuilder(request)' = Open!ChildBuilder(request)
  BY SameChild
<1>5. WorkInv'
  <2>1. CASE builder.format = "Invalid"
    BY <2>1, <1>0, <1>4 DEF OpeningInv, WorkInv
  <2>2. CASE builder.format # "Invalid" /\ Open!ConversionNeeded(builder)
    BY <2>2, <1>0, <1>1, <1>2, <1>4 DEF OpeningInv, WorkInv, FoundInv
  <2>3. CASE builder.format # "Invalid" /\ ~Open!ConversionNeeded(builder)
    BY <2>3, <1>0, <1>1, <1>3, <1>4 DEF OpeningInv, WorkInv, FoundInv
  <2>. QED
    BY <2>1, <2>2, <2>3
<1>6. FoundInv'
  BY <1>2 DEF OpeningInv, FoundInv, WorkInv, Fits
<1>7. PolicyInv'
  BY <1>2 DEF OpeningInv, PolicyInv, WorkInv, Open!Enabled, Open!MMapSafe
<1>. QED
  BY <1>5, <1>6, <1>7 DEF OpeningInv

LEMMA DisableKeeps ==
  ASSUME OpeningInv, Open!DisableMMap
  PROVE  OpeningInv'
<1>. USE DEF Open!DisableMMap
<1>0. request \in Builders /\ builder \in {request, Open!ChildBuilder(request)}
  BY DEF OpeningInv, WorkInv
<1>1. Open!MMapSafe(builder) <=> Open!MMapSafe(request)
  BY <1>0, SafeAsAsked
<1>2. Open!MMapSafe(request)' <=> Open!MMapSafe(request)
  BY DEF Open!MMapSafe, Open!Input
<1>3. disabled' <=> Open!Enabled /\ ~Open!MMapSafe(builder)
  OBVIOUS
<1>4. WorkInv'
  BY SameChild DEF OpeningInv, WorkInv
<1>5. FoundInv'
  BY DEF OpeningInv, FoundInv, WorkInv, Fits
<1>6. PolicyInv'
  BY <1>1, <1>2, <1>3 DEF OpeningInv, PolicyInv, WorkInv, Open!Enabled
<1>. QED
  BY <1>4, <1>5, <1>6 DEF OpeningInv

LEMMA OpenNativeKeeps ==
  ASSUME OpeningInv, Open!OpenNative
  PROVE  OpeningInv'
<1>0. request \in Builders /\ builder \in {request, Open!ChildBuilder(request)} /\ builder \in Builders
  BY ChildIsBuilder DEF OpeningInv, WorkInv
<1>1. CASE stream' = Open!NoStream /\ result' = "error"
  <2>1. WorkInv'
    BY SameChild, <1>1 DEF OpeningInv, WorkInv, Open!OpenNative
  <2>2. FoundInv'
    BY <1>1 DEF OpeningInv, FoundInv, WorkInv, Fits, Open!OpenNative
  <2>3. PolicyInv'
    BY <1>1 DEF OpeningInv, PolicyInv, WorkInv, Open!Enabled, Open!MMapSafe, Open!OpenNative
  <2>. QED
    BY <2>1, <2>2, <2>3 DEF OpeningInv
<1>2. CASE /\ result' = "OK" /\ stream' \in Streams
           /\ Open!Meets(builder.rate, stream'.rate) /\ Open!Meets(builder.channels, stream'.channels)
           /\ builder.format \in {"Unspecified", stream'.format}
           /\ Open!Meets(builder.frames, stream'.frames)
           /\ stream'.mmap => Open!Enabled
  <2>0. stream' # Open!NoStream
    BY <1>2 DEF Streams, Open!NoStream
  <2>1. WorkInv'
    BY SameChild, <1>2 DEF OpeningInv, WorkInv, Open!OpenNative
  <2>2. FoundInv'
    BY <1>2, <2>0 DEF OpeningInv, FoundInv, WorkInv, Fits, Open!OpenNative
  <2>3. PolicyInv'
    BY <1>2, <2>0 DEF OpeningInv, PolicyInv, WorkInv, Open!Enabled, Open!MMapSafe, Open!OpenNative
  <2>. QED
    BY <2>1, <2>2, <2>3 DEF OpeningInv
<1>3. ASSUME NEW c \in Nat, NEW n \in Nat \ {0}
      PROVE  Open!Or(c, n) \in Nat \ {0} /\ Open!Meets(c, Open!Or(c, n)) /\ Open!Meets(c, c)
  BY <1>3 DEF Open!Or, Open!Meets, Open!Unspecified
<1>4. /\ builder.rate \in Nat /\ builder.channels \in Nat /\ builder.frames \in Nat
      /\ NativeRate \in Nat \ {0} /\ NativeBurst \in Nat \ {0} /\ 2 \in Nat \ {0}
  BY <1>0, OpeningAssumption DEF Builders
<1>5. ASSUME NEW format \in {"I16", "Float", "I24", "IEC61937"},
             Open!OpenedByAAudio(builder, format), result' = "OK"
      PROVE  OpeningInv'
  <2>1. PICK channels \in Nat : channels = Open!Or(builder.channels, 2)
    BY <1>3, <1>4
  <2>2. PICK rate \in Nat \ {0} : rate = Open!Or(builder.rate, NativeRate)
    BY <1>3, <1>4
  <2>3. stream' = [api |-> "AAudio", format |-> format, channels |-> channels,
                   rate |-> rate, frames |-> builder.frames, mmap |-> Open!Enabled]
    BY <1>5, <2>1, <2>2 DEF Open!OpenedByAAudio
  <2>4. stream' \in Streams /\ (stream'.mmap => Open!Enabled)
    BY <2>1, <2>2, <2>3, <1>4 DEF Streams, Open!Formats, Open!Enabled
  <2>5. /\ Open!Meets(builder.rate, stream'.rate) /\ Open!Meets(builder.channels, stream'.channels)
        /\ Open!Meets(builder.frames, stream'.frames)
    BY <1>3, <1>4, <2>1, <2>2, <2>3
  <2>6. builder.format \in {"Unspecified", stream'.format}
    BY <1>5, <2>3 DEF Open!OpenedByAAudio
  <2>. QED
    BY <1>2, <1>5, <2>4, <2>5, <2>6
<1>6. ASSUME Open!OpenedByOpenSL(builder), result' = "OK"
      PROVE  OpeningInv'
  <2>1. PICK channels \in Nat : channels = Open!Or(builder.channels, 2)
    BY <1>3, <1>4
  <2>2. PICK rate \in Nat \ {0} : rate = Open!Or(builder.rate, NativeRate)
    BY <1>3, <1>4
  <2>3. PICK frames \in Nat : frames = Open!Or(builder.frames, NativeBurst)
    BY <1>3, <1>4
  <2>4. PICK format \in {"I16", "Float"} :
          /\ builder.format \in {"Unspecified", format}
          /\ stream' = [api |-> "OpenSLES", format |-> format, channels |-> channels,
                        rate |-> rate, frames |-> frames, mmap |-> FALSE]
    BY <1>6, <2>1, <2>2, <2>3 DEF Open!OpenedByOpenSL
  <2>5. stream' \in Streams /\ (stream'.mmap => Open!Enabled)
    BY <2>1, <2>2, <2>3, <2>4 DEF Streams, Open!Formats
  <2>6. /\ Open!Meets(builder.rate, stream'.rate) /\ Open!Meets(builder.channels, stream'.channels)
        /\ Open!Meets(builder.frames, stream'.frames)
    BY <1>3, <1>4, <2>1, <2>2, <2>3, <2>4
  <2>. QED
    BY <1>2, <1>6, <2>4, <2>5, <2>6
<1>. QED
  BY <1>1, <1>5, <1>6 DEF Open!OpenNative

LEMMA OpenFilterKeeps ==
  ASSUME OpeningInv, Open!OpenFilter
  PROVE  OpeningInv'
<1>. USE DEF Open!OpenFilter
<1>1. WorkInv'
  BY SameChild DEF OpeningInv, WorkInv
<1>2. FoundInv'
  BY DEF OpeningInv, FoundInv, WorkInv, Fits
<1>3. PolicyInv'
  BY DEF OpeningInv, PolicyInv, WorkInv, Open!Enabled, Open!MMapSafe
<1>. QED
  BY <1>1, <1>2, <1>3 DEF OpeningInv

LEMMA RestoreKeeps ==
  ASSUME OpeningInv, Open!RestoreMMap
  PROVE  OpeningInv'
<1>. USE DEF Open!RestoreMMap
<1>1. WorkInv'
  BY SameChild DEF OpeningInv, WorkInv, FoundInv
<1>2. FoundInv'
  BY DEF OpeningInv, FoundInv, WorkInv, Fits
<1>3. PolicyInv'
  BY DEF OpeningInv, PolicyInv, WorkInv, Open!Enabled, Open!MMapSafe
<1>. QED
  BY <1>1, <1>2, <1>3 DEF OpeningInv

LEMMA CompareKeeps ==
  ASSUME OpeningInv, Open!Compare
  PROVE  OpeningInv'
<1>0. /\ request \in Builders /\ builder = Open!ChildBuilder(request)
      /\ stream \in Streams /\ child = Open!NoStream /\ result = "OK"
      /\ ~disabled /\ (Open!Enabled <=> wasEnabled) /\ wasEnabled \in BOOLEAN
      /\ stream.mmap => Open!MMapSafe(request)
      /\ UNCHANGED <<phone, policy, wasEnabled, request, disabled, result>>
      /\ level' = "parent" /\ request.format # "Invalid" /\ step = "compare"
  BY DEF OpeningInv, WorkInv, FoundInv, PolicyInv, Open!Compare
<1>1. stream # Open!NoStream /\ (Open!MMapSafe(request)' <=> Open!MMapSafe(request))
  BY <1>0 DEF Streams, Open!NoStream, Open!MMapSafe, Open!Input
<1>2. Open!ChildBuilder(request)' = Open!ChildBuilder(request)
  BY <1>0, SameChild
<1>3. CASE Open!Compatible /\ step' = "over" /\ UNCHANGED <<stream, child, builder>>
  <2>1. WorkInv'
    BY <1>0, <1>2, <1>3 DEF WorkInv
  <2>2. Fits(request)'
    BY <1>0, <1>3 DEF Fits, Open!Compatible, Open!Meets
  <2>3. FoundInv'
    BY <1>0, <1>1, <1>3, <2>2 DEF FoundInv
  <2>4. PolicyInv'
    BY <1>0, <1>1, <1>3 DEF PolicyInv, Open!Enabled
  <2>. QED
    BY <2>1, <2>3, <2>4 DEF OpeningInv
<1>4. CASE /\ child' = stream /\ stream' = Open!Attributes(request, stream)
           /\ step' = "policy" /\ UNCHANGED builder
  <2>0. PICK format \in Open!Formats :
          format = IF request.format = "Unspecified" THEN stream.format ELSE request.format
    BY <1>0 DEF Builders, Streams
  <2>1. PICK channels \in Nat : channels = Open!Or(request.channels, stream.channels)
    BY <1>0 DEF Builders, Streams, Open!Or
  <2>2. PICK rate \in Nat \ {0} : rate = Open!Or(request.rate, stream.rate)
    BY <1>0 DEF Builders, Streams, Open!Or, Open!Unspecified
  <2>3. PICK frames \in Nat : frames = Open!Or(request.frames, stream.frames)
    BY <1>0 DEF Builders, Streams, Open!Or
  <2>4. stream' = [stream EXCEPT !.format = format, !.channels = channels, !.rate = rate, !.frames = frames]
    BY <1>0, <1>4, <2>0, <2>1, <2>2, <2>3, SMT DEF Open!Attributes, Streams
  <2>. DEFINE s == [stream EXCEPT !.format = format, !.channels = channels, !.rate = rate, !.frames = frames]
  <2>11. s \in Streams
    BY <1>0, <2>0, <2>1, <2>2, <2>3 DEF Streams
  <2>12. /\ s.format = format /\ s.channels = channels /\ s.rate = rate
         /\ s.frames = frames /\ s.mmap = stream.mmap
    BY <1>0 DEF Streams
  <2>. HIDE DEF s
  <2>5. /\ stream' \in Streams
        /\ stream'.format = format /\ stream'.channels = channels /\ stream'.rate = rate
        /\ stream'.frames = frames /\ stream'.mmap = stream.mmap
    BY <2>4, <2>11, <2>12 DEF s
  <2>6. Fits(request)'
    BY <1>0, <2>0, <2>1, <2>2, <2>3, <2>5 DEF Fits, Open!Meets, Open!Or
  <2>7. stream' # Open!NoStream
    BY <2>5 DEF Streams, Open!NoStream
  <2>8. WorkInv'
    BY <1>0, <1>1, <1>2, <1>4 DEF WorkInv
  <2>9. FoundInv'
    BY <1>0, <1>1, <1>4, <2>5, <2>6, <2>7 DEF FoundInv
  <2>10. PolicyInv'
    BY <1>0, <1>1, <1>4, <2>5 DEF PolicyInv, Open!Enabled
  <2>. QED
    BY <2>8, <2>9, <2>10 DEF OpeningInv
<1>5. CASE /\ stream' = Open!NoStream /\ builder' = request
           /\ step' = "policy" /\ UNCHANGED child
  <2>1. WorkInv'
    BY <1>0, <1>2, <1>5 DEF WorkInv
  <2>2. FoundInv'
    BY <1>0, <1>5 DEF FoundInv
  <2>3. PolicyInv'
    BY <1>0, <1>1, <1>5 DEF PolicyInv, Open!Enabled
  <2>. QED
    BY <2>1, <2>2, <2>3 DEF OpeningInv
<1>. QED
  BY <1>3, <1>4, <1>5 DEF Open!Compare

LEMMA OpeningKeeps ==
  ASSUME OpeningInv, Open!Next
  PROVE  OpeningInv'
BY PlanKeeps, DisableKeeps, OpenNativeKeeps, OpenFilterKeeps, RestoreKeeps, CompareKeeps DEF Open!Next

LEMMA OpeningSafe == OpeningInv => Open!OpensOrFails /\ Open!MMapOnlyWhereSafe
<1>. SUFFICES ASSUME OpeningInv PROVE Open!OpensOrFails /\ Open!MMapOnlyWhereSafe
  OBVIOUS
<1>1. Open!OpensOrFails
  BY DEF OpeningInv, WorkInv, FoundInv, Fits, Open!OpensOrFails, Open!Over
<1>2. Open!MMapOnlyWhereSafe
  BY DEF OpeningInv, PolicyInv, Open!MMapOnlyWhereSafe, Open!Over, Open!Enabled
<1>. QED
  BY <1>1, <1>2

-----------------------------------------------------------------------------
(* The whole.  A filter on a FIFO waits at "device" for the transfer of    *)
(* the FIFO, which moves no more than it was asked to.                     *)
Attached ==
  path = "filter on fifo" /\ transfer # "idle" => doing = "device" /\ left =< AskedOfChild

Waits == path = "opening" => OpeningInv /\ AtRest /\ transfer = "idle"

DataInv == Waits /\ QueueInv /\ FilterInv /\ Attached

LEMMA DataStarts == Init => DataInv
<1>. SUFFICES ASSUME Init PROVE DataInv
  OBVIOUS
<1>1. Waits
  BY OpeningStarts DEF Init, Waits, FifoInit
<1>2. QueueInv
  BY QueueInvInit DEF Init
<1>3. RatioIsPositive /\ size \in Nat \ {0} /\ phase = ratio.den
  BY CapacityAssumption DEF Init, RatioIsPositive
<1>4. FilterInv
  BY <1>3, FilterStarts DEF Init
<1>5. Attached
  BY DEF Init, Attached
<1>. QED
  BY <1>1, <1>2, <1>4, <1>5 DEF DataInv

(* What a step leaves alone keeps its invariant. *)
LEMMA QueueRests == QueueInv /\ UNCHANGED fifo => QueueInv'
BY QueueInvNext

LEMMA FilterRests == FilterInv /\ UNCHANGED filter => FilterInv'
BY FilterKeeps

LEMMA OpensKeeps ==
  ASSUME DataInv, Opens
  PROVE  DataInv'
<1>1. QueueInv' /\ FilterInv'
  BY QueueRests, FilterRests DEF DataInv, Opens
<1>2. Waits'
  BY OpeningKeeps DEF DataInv, Waits, Opens, AtRest, filter, fifo, app, sink, adapter, resampler, answers, counts
<1>3. Attached'
  BY DEF Opens, Attached
<1>. QED
  BY <1>1, <1>2, <1>3 DEF DataInv

LEMMA QueueGoesKeeps ==
  ASSUME DataInv, QueueGoes
  PROVE  DataInv'
<1>1. QueueInv' /\ FilterInv'
  BY QueueInvNext, FilterRests DEF DataInv, QueueGoes, QueueNext
<1>2. Waits' /\ Attached'
  BY DEF QueueGoes, Waits, Attached
<1>. QED
  BY <1>1, <1>2 DEF DataInv

LEMMA FilterGoesKeeps ==
  ASSUME DataInv, FilterGoes
  PROVE  DataInv'
<1>1. QueueInv' /\ FilterInv'
  BY QueueRests, FilterKeeps DEF DataInv, FilterGoes, ConvertNext
<1>2. Waits' /\ Attached'
  BY DEF FilterGoes, Waits, Attached
<1>. QED
  BY <1>1, <1>2 DEF DataInv

(* The filter does not go on by itself while the device is at work.        *)
LEMMA DeviceIsAwaited ==
  ASSUME Goes \/ \E n \in Calls : Call(n)
  PROVE  doing # "device"
BY DEF Goes, Source, Resampler, Adapter, Ends, App, Call, Pull, Emit, Feed, Fetch, Converted, FromBuffer,
       ReadStorage, AskForBlock, ReadAll, CallApp, EndPlay, EndReading, EndWriting, EndRecord, AddToBlock,
       StoreBlock, GiveApp

LEMMA FilterOnFifoKeeps ==
  ASSUME DataInv, FilterOnFifo
  PROVE  DataInv'
<1>1. QueueInv' /\ FilterInv'
  BY QueueRests, FilterKeeps DEF DataInv, FilterOnFifo, ConvertNext, FilterNext
<1>2. Waits'
  BY DEF FilterOnFifo, Waits
<1>3. Attached'
  BY DeviceIsAwaited DEF DataInv, Attached, FilterOnFifo, fifo, app
<1>. QED
  BY <1>1, <1>2, <1>3 DEF DataInv

LEMMA AskedIsNat == FilterInv => AskedOfChild \in Nat
BY DEF FilterInv, PathInv, FramesTypeOK, AskedOfChild

LEMMA CallChildKeeps ==
  ASSUME DataInv, CallChild
  PROVE  DataInv'
<1>1. AskedOfChild \in Nat /\ AskedOfChild' = AskedOfChild
  BY AskedIsNat DEF DataInv, CallChild, AskedOfChild, filter, pipe, sink
<1>2. QueueInv' /\ FilterInv'
  BY <1>1, QueueInvNext, FilterRests DEF DataInv, CallChild, QueueNext
<1>3. Waits'
  BY DEF CallChild, Waits
<1>4. left' = AskedOfChild /\ doing' = "device"
  BY DEF CallChild, Transfer, filter
<1>5. Attached'
  <2>1. PICK asked \in Nat : asked = AskedOfChild /\ asked = AskedOfChild'
    BY <1>1
  <2>2. left' =< asked
    BY <1>4, <2>1
  <2>3. left' =< AskedOfChild'
    BY <2>1, <2>2
  <2>. QED
    BY <1>4, <2>3 DEF Attached
<1>. QED
  BY <1>2, <1>3, <1>5 DEF DataInv

LEMMA ChildDecidesKeeps ==
  ASSUME DataInv, ChildDecides
  PROVE  DataInv'
<1>1. left \in Nat /\ left =< AskedOfChild /\ AskedOfChild \in Nat /\ doing = "device"
  BY AskedIsNat DEF DataInv, QueueInv, TypeOK, Attached, ChildDecides, Decide
<1>2. QueueInv'
  BY QueueInvNext DEF DataInv, ChildDecides, QueueNext, FifoNext, CallOfApp
<1>3. Waits'
  BY DEF ChildDecides, Waits
<1>4. CASE GivesUp
  <2>1. AskedOfChild - left \in Nat
    BY <1>1
  <2>2. FilterInv'
    BY <1>4, <2>1, FilterKeeps DEF DataInv, ChildDecides, ConvertNext
  <2>3. Attached'
    BY <1>4 DEF ChildDecides, Decide, Attached
  <2>. QED
    BY <1>2, <1>3, <2>2, <2>3 DEF DataInv
<1>5. CASE ~GivesUp
  <2>1. FilterInv'
    BY <1>5, FilterRests DEF DataInv, ChildDecides
  <2>2. AskedOfChild' = AskedOfChild /\ doing' = doing /\ left' = left
    BY <1>5 DEF ChildDecides, Decide, AskedOfChild, filter, pipe, sink
  <2>3. Attached'
    BY <1>1, <2>2 DEF Attached
  <2>. QED
    BY <1>2, <1>3, <2>1, <2>3 DEF DataInv
<1>. QED
  BY <1>4, <1>5

LEMMA ChildGoesKeeps ==
  ASSUME DataInv, ChildGoes
  PROVE  DataInv'
<1>1. QueueInv' /\ FilterInv'
  BY QueueInvNext, FilterRests DEF DataInv, ChildGoes, QueueNext, FifoNext, CallOfApp
<1>2. Waits'
  BY DEF ChildGoes, Waits
<1>3. AskedOfChild' = AskedOfChild /\ doing' = doing /\ AskedOfChild \in Nat
  BY AskedIsNat DEF DataInv, ChildGoes, AskedOfChild, filter, pipe, sink
<1>4. left' =< left /\ (transfer = "idle" => transfer' = "idle")
  <2>0. left \in Nat /\ writer \in Copying /\ reader \in Copying
    BY DEF DataInv, QueueInv, TypeOK
  <2>1. CASE Move
    BY <2>0, <2>1 DEF Move
  <2>2. CASE Moved
    BY <2>0, <2>2, CopyParts, CapacityAssumption DEF Moved
  <2>3. CASE Background
    BY <2>0, <2>3 DEF Background, CopyIn, CopyOut, CallbackReturns, Close, SetBufferSizeInFrames, OnDefaultCallback, app
  <2>. QED
    BY <2>1, <2>2, <2>3 DEF ChildGoes
<1>5. Attached'
  <2>1. left \in Nat /\ left' \in Nat
    BY <1>1 DEF DataInv, QueueInv, TypeOK
  <2>2. path' = path /\ (transfer # "idle" /\ path = "filter on fifo" => doing = "device" /\ left =< AskedOfChild)
    BY DEF DataInv, Attached, ChildGoes
  <2>3. PICK asked \in Nat : asked = AskedOfChild /\ asked = AskedOfChild'
    BY <1>3
  <2>4. ASSUME transfer' # "idle", path' = "filter on fifo"
        PROVE  doing' = "device" /\ left' =< AskedOfChild'
    <3>1. doing = "device" /\ left =< asked
      BY <1>4, <2>2, <2>3, <2>4
    <3>2. left' =< asked
      BY <1>4, <2>1, <3>1
    <3>. QED
      BY <1>3, <2>3, <3>1, <3>2
  <2>. QED
    BY <2>4 DEF Attached
<1>. QED
  BY <1>1, <1>2, <1>5 DEF DataInv

LEMMA HandOutKeeps ==
  ASSUME DataInv, HandOut
  PROVE  DataInv'
<1>0. path = "opening" /\ OpeningInv /\ AtRest /\ transfer = "idle" /\ result = "OK" /\ step = "over"
  BY DEF DataInv, Waits, HandOut
<1>1. path' # "opening" /\ Waits'
  BY DEF HandOut, Waits
<1>2. Attached'
  BY <1>0 DEF HandOut, Attached
<1>3. QueueInv'
  BY <1>0 DEF DataInv, HandOut, QueueInv, TypeOK, CopiesFit, CopiedInOrder, CallCovers, InFifo, Index
<1>4. AtRest'
  BY <1>0 DEF HandOut, AtRest
<1>5. CASE child = Open!NoStream
  <2>1. UNCHANGED filter
    BY <1>5 DEF HandOut, filter, pipe, sink, adapter, resampler, answers, counts
  <2>. QED
    BY <1>1, <1>2, <1>3, <2>1, FilterRests DEF DataInv
<1>6. CASE child # Open!NoStream
  <2>1. /\ child \in Streams /\ stream \in Streams
        /\ {NativeRate, NativeBurst} \subseteq Nat \ {0}
    BY <1>0, <1>6, OpeningAssumption DEF OpeningInv, FoundInv
  <2>2. PICK r : r = Open!Ratio
    OBVIOUS
  <2>3. r.num \in Nat \ {0} /\ r.den \in Nat \ {0}
    BY <2>1, <2>2 DEF Open!Ratio, Streams
  <2>4. Open!Size \in Nat \ {0}
    BY <2>1 DEF Open!Size, Open!Or, Open!Unspecified, Streams
  <2>5. ratio' = r /\ phase' = r.den /\ size' = Open!Size
    BY <1>6, <2>2 DEF HandOut
  <2>6. (RatioIsPositive /\ size \in Nat \ {0} /\ phase = ratio.den)'
    BY <2>3, <2>4, <2>5 DEF RatioIsPositive
  <2>7. (AtRest /\ RatioIsPositive /\ size \in Nat \ {0} /\ phase = ratio.den)' => FilterInv'
    BY FilterStarts, PTL
  <2>. QED
    BY <1>1, <1>2, <1>3, <1>4, <2>6, <2>7 DEF DataInv
<1>. QED
  BY <1>1, <1>2, <1>3, <1>5, <1>6 DEF DataInv

LEMMA DataRests == DataInv /\ UNCHANGED vars => DataInv'
<1>. SUFFICES ASSUME DataInv, UNCHANGED vars PROVE DataInv'
  OBVIOUS
<1>1. QueueInv' /\ FilterInv'
  BY QueueRests, FilterRests DEF DataInv, vars
<1>2. OpeningInv => OpeningInv'
  BY SameChild DEF vars, opening, OpeningInv, WorkInv, FoundInv, PolicyInv, Fits, Open!Enabled, Open!MMapSafe, Open!Input
<1>3. Waits'
  BY <1>2 DEF DataInv, Waits, AtRest, vars, filter, fifo, app, sink, adapter, resampler, answers, counts
<1>4. Attached'
  BY DEF DataInv, Attached, AskedOfChild, vars, filter, fifo, app, pipe, sink
<1>. QED
  BY <1>1, <1>3, <1>4 DEF DataInv

LEMMA DataInvariance == Spec => []DataInv
<1>1. DataInv /\ [Next]_vars => DataInv'
  BY OpensKeeps, HandOutKeeps, QueueGoesKeeps, FilterGoesKeeps, FilterOnFifoKeeps, CallChildKeeps,
     ChildDecidesKeeps, ChildGoesKeeps, DataRests DEF Next
<1>. QED
  BY <1>1, DataStarts, PTL DEF Spec

(* AudioStreamBuilder::openStreamInternal: on any phone, with any quirks,  *)
(* a stream that opens is what its builder asks for, one that does not     *)
(* leaves nothing open, and the child of a filter needs no filter.         *)
THEOREM OpensOrFailsAlways == Spec => []OpensOrFails
<1>1. DataInv => OpensOrFails
  BY OpeningSafe DEF DataInv, Waits, OpensOrFails
<1>. QED
  BY <1>1, DataInvariance, PTL

(* No stream uses MMAP where QuirksManager says it does not work, whether  *)
(* it is opened for the app or below a filter, and the policy the app had  *)
(* set is what it finds again, though the open failed half-way.            *)
THEOREM MMapOnlyWhereSafeAlways == Spec => []MMapOnlyWhereSafe
<1>1. DataInv => MMapOnlyWhereSafe
  BY OpeningSafe DEF DataInv, Waits, MMapOnlyWhereSafe
<1>. QED
  BY <1>1, DataInvariance, PTL

(* Whatever stream openStreamInternal hands out, its frames are read from  *)
(* the FIFO as they were written, converted in step, and lost or stopped   *)
(* only by a failure or the app: also where the device of a filter is a    *)
(* FIFO, with its timeouts.                                                *)
THEOREM OpenedStreamsDeliver == Spec => [](FramesInOrder /\ InStep /\ NothingLost /\ AppDecides)
<1>1. DataInv => FramesInOrder /\ InStep /\ NothingLost /\ AppDecides
  BY QueueSafe, FilterSafe DEF DataInv
<1>. QED
  BY <1>1, DataInvariance, PTL
=============================================================================
