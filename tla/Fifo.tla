-------------------------------- MODULE Fifo --------------------------------
(***************************************************************************)
(* FifoBuffer and its controller, as AudioStreamBuffered uses them: what   *)
(* an app that gives no data callback writes or reads in blocking calls,   *)
(* the callback of OpenSL ES reads or writes at its own pace.  One thread  *)
(* writes, one reads, and no lock is between them.  A frame is the number  *)
(* it has among those that were written.                                   *)
(***************************************************************************)
EXTENDS Integers

CONSTANTS Capacity,   \* mTotalFrames of the FIFO, in frames as everything here
          Burst,      \* getFramesPerBurst()
          Sizes,      \* numbers of frames a call of the app or the device asks for
          Patience,   \* how many sleeps fit into a timeout, 0 for none
          MaxFrames   \* the bound on what is written to the FIFO

ASSUME CapacityAssumption == Capacity \in Nat \ {0} /\ Burst \in 1..Capacity
ASSUME SizesAssumption == Sizes \subseteq Nat \ {0} /\ Patience \subseteq Nat /\ MaxFrames \in Nat

VARIABLES output,       \* the direction is Output: the app writes
          readCounter, writeCounter,
          storage,      \* mStorage
          bufferSize,   \* mBufferSizeInFrames, the threshold of blocking writes
          writer,       \* the write under way: its frames, and those copied
          reader,       \* the read under way
          source,       \* the frame the data pointer of the writer is at
          transfer,     \* what the call of the app does
          left, time,   \* frames it has still to move; sleeps before its timeout
          background,   \* frames the callback was asked for, 0 when it is not running
          closed        \* getState() = Closed

app == <<transfer, left, time>>
queue == <<readCounter, writeCounter, storage, writer, reader, source>>
fifo == <<output, queue, bufferSize, app, background, closed>>

Copying == [frames : 0..Capacity, copied : 0..Capacity]
Resting == [frames |-> 0, copied |-> 0]
Copied(copy) == copy.copied = copy.frames

FifoInit ==
  /\ output \in BOOLEAN
  /\ readCounter = 0 /\ writeCounter = 0 /\ source = 0
  /\ storage = [i \in 0..(Capacity - 1) |-> -1]
  /\ bufferSize = Capacity
  /\ writer = Resting /\ reader = Resting
  /\ transfer = "idle" /\ left = 0 /\ time = 0
  /\ background = 0 /\ closed = FALSE

-----------------------------------------------------------------------------
(* FifoControllerBase.                                                     *)
Least(a, b) == IF a =< b THEN a ELSE b
Most(a, b) == IF a >= b THEN a ELSE b

Full ==
  IF readCounter > writeCounter THEN 0 ELSE Least(writeCounter - readCounter, Capacity)

(* Variant of Empty: the frames a read is about count as free. *)
EmptyOrRead == Least(Capacity, Capacity - Full + reader.copied)

Empty == Capacity - Full

(* Where the k-th frame from a counter on is: what does not fit before the *)
(* end of the storage goes on at its beginning.                            *)
Index(counter, k) ==
  LET i == counter % Capacity IN IF i + k < Capacity THEN i + k ELSE i + k - Capacity

-----------------------------------------------------------------------------
(* FifoBuffer.  The counters are looked at once, the data is copied, and   *)
(* then the own counter advances.                                          *)
BeginWrite(n) ==
  /\ writer' = [frames |-> Least(n, Empty), copied |-> 0]
  /\ UNCHANGED <<readCounter, writeCounter, storage, reader, source>>

BeginRead(n) ==
  /\ reader' = [frames |-> Least(n, Full), copied |-> 0]
  /\ UNCHANGED <<readCounter, writeCounter, storage, writer, source>>

CopyIn ==
  /\ ~Copied(writer)
  /\ storage' = [storage EXCEPT ![Index(writeCounter, writer.copied)] = source + writer.copied]
  /\ writer' = [writer EXCEPT !.copied = @ + 1]
  /\ UNCHANGED <<output, readCounter, writeCounter, reader, source, bufferSize, app, background, closed>>

CopyOut ==
  /\ ~Copied(reader)
  /\ reader' = [reader EXCEPT !.copied = @ + 1]
  /\ UNCHANGED <<output, readCounter, writeCounter, storage, writer, source, bufferSize, app, background, closed>>

(* The caller of write moves its pointer on by what was written.           *)
EndWrite ==
  /\ Copied(writer)
  /\ writeCounter' = writeCounter + writer.frames
  /\ source' = source + writer.frames
  /\ writer' = Resting
  /\ UNCHANGED <<readCounter, storage, reader>>

EndRead ==
  /\ Copied(reader)
  /\ readCounter' = readCounter + reader.frames
  /\ reader' = Resting
  /\ UNCHANGED <<writeCounter, storage, writer, source>>

-----------------------------------------------------------------------------
(* AudioStreamBuffered: write and read of the app, which do not look at    *)
(* the state of the stream.                                                *)
Transfer(n, patience) ==
  /\ transfer = "idle"
  /\ output => writeCounter + n =< MaxFrames   \* the bound
  /\ transfer' = "move" /\ left' = n /\ time' = patience
  /\ UNCHANGED <<output, queue, bufferSize, background, closed>>

(* A write goes no further than the threshold.                             *)
Room == Most(0, Least(left, bufferSize - Full))

Move ==
  /\ transfer = "move"
  /\ IF output THEN BeginWrite(Room) ELSE BeginRead(left)
  /\ transfer' = "copy"
  /\ UNCHANGED <<output, bufferSize, left, time, background, closed>>

Moved ==
  /\ transfer = "copy"
  /\ IF output THEN EndWrite ELSE EndRead
  /\ left' = left - (IF output THEN writer ELSE reader).frames
  /\ transfer' = "decide"
  /\ UNCHANGED <<output, bufferSize, time, background, closed>>

GivesUp == left = 0 \/ time = 0

(* What is left is tried again after a sleep, for as long as time allows;  *)
(* each sleep takes some of it.                                            *)
Decide ==
  /\ transfer = "decide"
  /\ IF GivesUp
       THEN transfer' = "idle" /\ left' = 0 /\ time' = 0
       ELSE transfer' = "move" /\ time' = Most(0, time - 1) /\ UNCHANGED left
  /\ UNCHANGED <<output, queue, bufferSize, background, closed>>

SetBufferSizeInFrames(requested) ==
  /\ transfer = "idle" /\ ~closed
  /\ bufferSize' = IF requested > Capacity THEN Capacity ELSE Most(requested, Burst)
  /\ UNCHANGED <<output, queue, app, background, closed>>

(* onDefaultCallback, on the thread of OpenSL ES: readNow gives silence    *)
(* for what is not there, write drops what there is no room for.           *)
OnDefaultCallback(n) ==
  /\ background = 0 /\ ~closed
  /\ output \/ writeCounter + n =< MaxFrames   \* the bound
  /\ background' = n
  /\ IF output THEN BeginRead(n) ELSE BeginWrite(n)
  /\ UNCHANGED <<output, bufferSize, app, closed>>

CallbackReturns ==
  /\ background > 0
  /\ IF output THEN EndRead ELSE EndWrite
  /\ background' = 0
  /\ UNCHANGED <<output, bufferSize, app, closed>>

(* Another thread closes the stream; the callback has returned then.       *)
Close ==
  /\ ~closed /\ background = 0
  /\ closed' = TRUE
  /\ UNCHANGED <<output, queue, bufferSize, app, background>>

-----------------------------------------------------------------------------
CallOfApp == Move \/ Moved \/ Decide
Background ==
  \/ CopyIn \/ CopyOut \/ CallbackReturns \/ Close
  \/ \E n \in Sizes : SetBufferSizeInFrames(n) \/ OnDefaultCallback(n)

FifoNext == (\E n \in Sizes, patience \in Patience : Transfer(n, patience)) \/ CallOfApp \/ Background

FifoSpec == FifoInit /\ [][FifoNext]_fifo

-----------------------------------------------------------------------------
(* Properties.                                                             *)

(* The variables keep to their types, and neither side passes the other.   *)
TypeOK ==
  /\ output \in BOOLEAN /\ closed \in BOOLEAN
  /\ readCounter \in Nat /\ writeCounter \in Nat /\ source \in Nat
  /\ writeCounter - readCounter \in 0..Capacity
  /\ storage \in [0..(Capacity - 1) -> Int]
  /\ bufferSize \in 1..Capacity
  /\ writer \in Copying /\ reader \in Copying
  /\ transfer \in {"idle", "move", "copy", "decide"}
  /\ left \in Nat /\ time \in Nat /\ background \in Nat

(* Every frame between the two counters is where the reader looks for it,  *)
(* and stays there until the read that copies it out is over, however the  *)
(* copies of the two sides interleave and wherever they wrap.              *)
FramesInOrder ==
  \A k \in 0..(Capacity - 1) :
    k < writeCounter - readCounter => storage[Index(readCounter, k)] = readCounter + k
=============================================================================
