---------------------------- MODULE DynamicSounds ----------------------------
(***************************************************************************)
(* Sounds that are computed as they are played (audio/dynamic_sound.go):   *)
(* a slice of pointers that the mixer ranges over once per buffer          *)
(* (audio/mux.go) while games add and remove entries.                      *)
(*                                                                         *)
(* A range loop keeps the slice it started with; append may move the       *)
(* slice to a larger array, so a pass can go on over an array that later   *)
(* calls no longer write to.  Arrays are kept here by number.              *)
(***************************************************************************)
EXTENDS Integers, Sequences, FiniteSets

CONSTANTS Dynamic,   \* the dynamic sounds
          Nil,       \* an entry that was stopped
          Thread,    \* goroutines that call Play and Stop
          MaxLength  \* bound: the slice does not grow past this length

VARIABLES arrays,  \* arrays[a]: the elements up to the capacity of array a
          slice,   \* dynamicSounds: an array and a length
          pass,    \* the slice the mixer ranges over, and its next index
          call,    \* call[t]: the Play that t has looked up a place for
          wanted,  \* sounds whose last call was Play
          steady,  \* those wanted since before the pass, not touched since
          stopped, \* those stopped since the pass began
          filled   \* those the pass has filled the buffer from

vars == <<arrays, slice, pass, call, wanted, steady, stopped, filled>>

NoPass == [on |-> FALSE, array |-> 1, length |-> 0, next |-> 1]
NoCall == [sound |-> Nil, place |-> 0]

Init ==
  /\ arrays = << <<>> >>
  /\ slice = [array |-> 1, length |-> 0]
  /\ pass = NoPass
  /\ call = [t \in Thread |-> NoCall]
  /\ wanted = {} /\ steady = {} /\ stopped = {} /\ filled = {}

Entry(i) == arrays[slice.array][i]

-----------------------------------------------------------------------------
(* Play takes the first entry that is nil and writes the sound there, or   *)
(* appends it.  Looking for the place and writing are two steps.           *)

(* Variant: the search ends at the last entry, whatever it holds. *)
PlaceForLate(i) ==
  /\ i \in 1 .. slice.length + 1
  /\ i = slice.length \/ i = slice.length + 1

PlaceFor(i) ==
  /\ i \in 1 .. slice.length + 1
  /\ i =< slice.length => Entry(i) = Nil
  /\ \A j \in 1 .. i - 1 : Entry(j) # Nil

FindPlace(t, ds) ==
  /\ call[t] = NoCall
  /\ \E i \in 1 .. MaxLength :
       PlaceFor(i) /\ call' = [call EXCEPT ![t] = [sound |-> ds, place |-> i]]
  /\ UNCHANGED <<arrays, slice, pass, wanted, steady, stopped, filled>>

(* append: in place while there is capacity, else into a new array of      *)
(* twice the size that keeps the old elements.                             *)
Grown(a) == IF a = <<>> THEN <<Nil>> ELSE a \o [i \in 1 .. Len(a) |-> Nil]

Written(t) ==
  /\ call' = [call EXCEPT ![t] = NoCall]
  /\ wanted' = wanted \cup {call[t].sound}
  /\ steady' = steady \ {call[t].sound}
  /\ UNCHANGED <<pass, stopped, filled>>

WriteEntry(t) ==
  LET a == slice.array
      i == call[t].place
  IN  /\ call[t] # NoCall
      /\ i =< slice.length
      /\ arrays' = [arrays EXCEPT ![a][i] = call[t].sound]
      /\ UNCHANGED slice
      /\ Written(t)

AppendEntry(t) ==
  LET a == slice.array
      i == slice.length + 1
  IN  /\ call[t] # NoCall
      /\ call[t].place > slice.length
      /\ \/ /\ i =< Len(arrays[a])
            /\ arrays' = [arrays EXCEPT ![a][i] = call[t].sound]
            /\ slice' = [slice EXCEPT !.length = i]
         \/ /\ i > Len(arrays[a])
            /\ arrays' = Append(arrays, [Grown(arrays[a]) EXCEPT ![i] = call[t].sound])
            /\ slice' = [array |-> Len(arrays) + 1, length |-> i]
      /\ Written(t)

(* Stop clears every entry of the sound.  Elements past the length of the  *)
(* slice are never ds: the slice does not shrink.                          *)
Stop(t, ds) ==
  /\ call[t] = NoCall
  /\ arrays' = [arrays EXCEPT ![slice.array] =
                  [i \in DOMAIN @ |-> IF @[i] = ds THEN Nil ELSE @[i]]]
  /\ wanted' = wanted \ {ds}
  /\ steady' = steady \ {ds}
  /\ stopped' = stopped \cup {ds}
  /\ UNCHANGED <<slice, pass, call, filled>>

-----------------------------------------------------------------------------
(* The mixer's range over the dynamic sounds, once per buffer. *)
BeginPass ==
  /\ ~pass.on
  /\ pass' = [on |-> TRUE, array |-> slice.array, length |-> slice.length, next |-> 1]
  /\ steady' = wanted
  /\ stopped' = {}
  /\ filled' = {}
  /\ UNCHANGED <<arrays, slice, call, wanted>>

Reached == arrays[pass.array][pass.next]

NextEntry ==
  /\ pass.on
  /\ pass.next =< pass.length
  /\ filled' = IF Reached = Nil THEN filled ELSE filled \cup {Reached}
  /\ pass' = [pass EXCEPT !.next = @ + 1]
  /\ UNCHANGED <<arrays, slice, call, wanted, steady, stopped>>

EndPass ==
  /\ pass.on
  /\ pass.next > pass.length
  /\ pass' = NoPass
  /\ UNCHANGED <<arrays, slice, call, wanted, steady, stopped, filled>>

Next ==
  \/ BeginPass \/ NextEntry \/ EndPass
  \/ \E t \in Thread :
       \/ \E ds \in Dynamic : FindPlace(t, ds) \/ Stop(t, ds)
       \/ WriteEntry(t) \/ AppendEntry(t)

Spec == Init /\ [][Next]_vars

-----------------------------------------------------------------------------
(* Properties.                                                             *)

(* What was played and neither stopped nor played again during a pass is   *)
(* heard in that pass: no Play is lost, wherever the slice has moved.      *)
WantedIsHeard ==
  pass.on /\ pass.next > pass.length => steady \subseteq filled

(* A sound that was stopped before a pass began is not heard in it, unless *)
(* it is played again (Stop clears every entry, in whatever array).        *)
StoppedSilent ==
  pass.on /\ pass'.next = pass.next + 1 /\ Reached # Nil => Reached \in wanted \cup stopped

HeardAsAsked == [][WantedIsHeard /\ StoppedSilent]_vars
=============================================================================
