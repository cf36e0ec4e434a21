----------------------------- MODULE AAudioLoader -----------------------------
(***************************************************************************)
(* AAudioLoader and AAudioExtensions: the functions of libaaudio.so are    *)
(* linked one after the other when the library is first opened, those of a *)
(* version of Android only from that version on, and those of MMAP when    *)
(* somebody first asks.  Functions that are linked and called under the    *)
(* same conditions are one.  Comments ask that open() and loadSymbols() be *)
(* called from one thread; nothing sees to it, and streams are opened from *)
(* any.  A null pointer that is called ends the program.                   *)
(***************************************************************************)
EXTENDS Integers, Sequences

CONSTANTS Threads,
          P, Q, R, S, S_V2, U,  \* __ANDROID_API_*__
          Levels,               \* versions of the library
          Workarounds           \* OboeGlobals::areWorkaroundsEnabled

VARIABLES sdk, library,
          handle,    \* mLibHandle is not null
          linked,    \* the pointers that are not null
          pc,        \* of each thread
          at,        \* the next function that open links
          asks,      \* what the thread wants: a "stream", or a function of "MMAP"
          fault      \* a null pointer was called
vars == <<sdk, library, handle, linked, pc, at, asks, fault>>

-----------------------------------------------------------------------------
(* Functions, as names and the version they came with.                     *)
Function(name, since) == [name |-> name, since |-> since]

(* The order of open(): the builder's functions and then the stream's.     *)
Builder ==
  <<Function("openStream", 0), Function("setChannelCount", 0), Function("setUsage", P),
    Function("setAllowedCapturePolicy", Q), Function("setPrivacySensitive", R), Function("setPackageName", S),
    Function("setChannelMask", S_V2), Function("delete", 0)>>
Stream ==
  <<Function("read", 0), Function("getChannelCount", 0), Function("release", R), Function("close", 0),
    Function("getUsage", P), Function("getAllowedCapturePolicy", Q), Function("isPrivacySensitive", R),
    Function("getMask", S_V2), Function("getHardware", U)>>
Functions == Builder \o Stream
Names == {Functions[i].name : i \in DOMAIN Functions}
MMap == <<"isMMapUsed", "setMMapPolicy", "getMMapPolicy">>

(* Called without a look at the pointer; the others only if it is not null.*)
Trusted == {"openStream", "setChannelCount", "delete", "read", "getChannelCount", "release", "close"}

(* A library exports what its version has, under the new or the old name,  *)
(* but perhaps one of the functions that the code does not take for        *)
(* granted, and some of those of MMAP.                                     *)
Exports(level, missing, mmap) ==
  ({Functions[i].name : i \in {j \in DOMAIN Functions : Functions[j].since =< level}} \ {missing})
    \cup {MMap[i] : i \in mmap}
Libraries(level) ==
  {[there |-> TRUE, exports |-> Exports(level, missing, mmap), old |-> old] :
     missing \in ((Names \ Trusted) \cup {"none"}), mmap \in {1 .. n : n \in 0 .. 3} \cup {{3}},
     old \in {{"setChannelCount"}, {"getChannelCount"}}}
  \cup {[there |-> FALSE, exports |-> {}, old |-> {}]}

Init ==
  /\ \E level \in Levels : library \in Libraries(level) /\ sdk \in {level - 1, level}
  /\ handle = FALSE /\ linked = {} /\ fault = FALSE
  /\ pc = [t \in Threads |-> "idle"] /\ at = [t \in Threads |-> 0] /\ asks = [t \in Threads |-> "MMAP"]

-----------------------------------------------------------------------------
(* dlsym; a name that is not there gives null.                             *)
Exported(name) == name \in library.exports \ library.old
Load(name) == IF Exported(name) THEN {name} ELSE {}
LoadOld(name) == IF name \in library.old THEN {name} ELSE {}

(* Variant of Linked: the old names are not tried. *)
LinkedByNewName(function) == IF sdk >= function.since THEN Load(function.name) ELSE {}

Linked(function) ==
  IF sdk >= function.since THEN Load(function.name) \cup LoadOld(function.name) ELSE {}

Goes(t, step) == pc' = [pc EXCEPT ![t] = step]

(* open(): from the return of open, for a stream or for MMAP.              *)
Opened(t) == IF asks[t] = "stream" THEN "built" ELSE "symbol"
NobodyOpens == \A t \in Threads : pc[t] # "opening"

(* open() has nothing to do once there is a handle, which is before the    *)
(* functions are linked.                                                   *)
Open(t) ==
  /\ pc[t] = "open"
  /\ Goes(t, IF handle THEN Opened(t) ELSE "dlopen")
  /\ at' = [at EXCEPT ![t] = 1]
  /\ UNCHANGED <<sdk, library, handle, linked, asks, fault>>

OpenLibrary(t) ==
  /\ pc[t] = "dlopen"
  /\ handle' = library.there
  /\ Goes(t, IF library.there THEN "opening" ELSE "idle")
  /\ UNCHANGED <<sdk, library, linked, at, asks, fault>>

LoadFunction(t) ==
  /\ pc[t] = "opening"
  /\ linked' = (linked \ {Functions[at[t]].name}) \cup Linked(Functions[at[t]])
  /\ IF at[t] < Len(Functions)
       THEN at' = [at EXCEPT ![t] = @ + 1] /\ UNCHANGED pc
       ELSE at' = [at EXCEPT ![t] = 1] /\ Goes(t, Opened(t))
  /\ UNCHANGED <<sdk, library, handle, asks, fault>>

-----------------------------------------------------------------------------
(* A stream is opened where isAAudioSupported; then it is used.            *)
IsSupported(t) ==
  /\ pc[t] = "idle"
  /\ asks' = [asks EXCEPT ![t] = "stream"] /\ Goes(t, "open")
  /\ UNCHANGED <<sdk, library, handle, linked, at, fault>>

(* release() is not for R, where it has a fault, nor for what is older.    *)
MayRelease == sdk >= R /\ ~(Workarounds /\ sdk = R)

(* Variant of Calls: one of the pointers is not looked at. *)
CallsUnseen(name) ==
  \/ name \in linked
  \/ name \in (Trusted \ {"release"}) \cup {"setPackageName"}
  \/ name = "release" /\ MayRelease

Calls(name) ==
  \/ name \in linked
  \/ name \in Trusted \ {"release"}
  \/ name = "release" /\ MayRelease

Call(t) ==
  /\ pc[t] = "built"
  /\ \E name \in Names : Calls(name) /\ fault' = (fault \/ name \notin linked)
  /\ UNCHANGED <<sdk, library, handle, linked, pc, at, asks>>

Close(t) ==
  /\ pc[t] = "built" /\ Goes(t, "idle")
  /\ at' = [at EXCEPT ![t] = 0]
  /\ UNCHANGED <<sdk, library, handle, linked, asks, fault>>

-----------------------------------------------------------------------------
(* isMMapUsed, setMMapEnabled and isMMapEnabled begin with loadSymbols,    *)
(* which has nothing to do when the last of the three is linked.           *)
LoadSymbols(t) ==
  /\ pc[t] = "idle"
  /\ asks' = [asks EXCEPT ![t] = "MMAP"]
  /\ Goes(t, IF MMap[3] \in linked THEN "use" ELSE "open")
  /\ UNCHANGED <<sdk, library, handle, linked, at, fault>>

(* The three are looked up in turn, and the first that is not there ends   *)
(* it with an error.                                                       *)
LoadSymbol(t) ==
  /\ pc[t] = "symbol"
  /\ LET name == MMap[at[t]]
     IN  /\ linked' = (linked \ {name}) \cup Load(name)
         /\ IF ~Exported(name) THEN at' = [at EXCEPT ![t] = 0] /\ Goes(t, "idle")
            ELSE IF at[t] < Len(MMap) THEN at' = [at EXCEPT ![t] = @ + 1] /\ UNCHANGED pc
            ELSE at' = [at EXCEPT ![t] = 0] /\ Goes(t, "use")
  /\ UNCHANGED <<sdk, library, handle, asks, fault>>

(* The function is called if it is there, as it is after loadSymbols.      *)
Use(t) ==
  /\ pc[t] = "use" /\ Goes(t, "idle")
  /\ UNCHANGED <<sdk, library, handle, linked, at, asks, fault>>

Next ==
  /\ ~fault
  /\ \E t \in Threads :
       IsSupported(t) \/ Open(t) \/ OpenLibrary(t) \/ LoadFunction(t)
         \/ Call(t) \/ Close(t) \/ LoadSymbols(t) \/ LoadSymbol(t) \/ Use(t)

-----------------------------------------------------------------------------
(* Property.                                                               *)

(* Threads open streams and ask for MMAP as they like.  A null pointer can *)
(* be called only while a thread is still inside the open() that links:    *)
(* later, on any version of Android and with any library, all is linked    *)
(* that both the phone and the library have, and no call is made without a *)
(* look of anything else.  And who is told that the functions of MMAP are  *)
(* there has all three, at any time.                                       *)
LinkedBeforeCalled ==
  /\ fault => ~NobodyOpens
  /\ \A t \in Threads : pc[t] = "use" => {MMap[i] : i \in DOMAIN MMap} \subseteq linked
  /\ handle /\ NobodyOpens =>
       \A i \in DOMAIN Functions :
         Functions[i].name \in linked
           <=> sdk >= Functions[i].since /\ Functions[i].name \in library.exports
=============================================================================
