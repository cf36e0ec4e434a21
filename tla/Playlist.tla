------------------------------ MODULE Playlist ------------------------------
(***************************************************************************)
(* Music on top of the sound pool (playlist/playlist.go, and               *)
(* playlist_notjs.go for every platform but the browser).  A list of one   *)
(* track is looped; in a longer one every track registers PlayNext as its  *)
(* end callback, which the audio thread calls from inside a mixing pass.   *)
(*                                                                         *)
(* Each helper the operations are made of (playlistStop, the change of     *)
(* track, the two halves of playlistPlay) is a step, so that operations of *)
(* game threads and of the audio thread interleave between them: no lock   *)
(* is held across PlayNext and PlayPrevious, and Play takes a read lock.   *)
(***************************************************************************)
EXTENDS Mux, Sequences

CONSTANTS List,        \* the loaded playlists
          NoList,      \* nil
          UnknownList, \* an id with no playlist
          Tracks,      \* Tracks[l]: the sounds of the tracks of l
          Effect,      \* sounds the game plays beside the music
          GameThread,  \* goroutines that call the package
          AudioThread, \* the driver's thread
          MusicFade,   \* one second, in samples
          Loads        \* the sets of lists a game may load

ASSUME ListAssumption == /\ List = Callback  \* the callback is pl.PlayNext
                         /\ NoList \notin List \cup {UnknownList}
                         /\ UnknownList \notin List
                         /\ \A l \in List : Tracks[l] \in Seq(Sound) /\ Tracks[l] # <<>>
ASSUME EffectAssumption == Effect \subseteq Sound
ASSUME ThreadAssumption == AudioThread \notin GameThread
ASSUME LoadsAssumption == Loads \subseteq SUBSET List
ASSUME MusicFadeAssumption == MusicFade \in Nat

VARIABLES loaded,  \* the lists there are
          current, \* currentPlayList
          track,   \* track[l]: currentTrack of l, counted from 1
          handle,  \* handle[l][k]: playingSound of the k-th track of l
          op       \* op[t]: what thread t is in the middle of

musicVars == <<loaded, current, track, handle, op>>
allVars == <<vars, musicVars>>

Thread == GameThread \cup {AudioThread}
NoSlot == -1

(* Way of an operation: the step PlayNext or PlayPrevious takes in the list *)
(* it works on, or 0 for a Play of the list "wanted".                       *)
Idle == [at |-> "idle", list |-> NoList, way |-> 0, wanted |-> NoList, k |-> 0]
Change(l, w) == [at |-> "stop", list |-> l, way |-> w, wanted |-> NoList, k |-> 0]

OpType == [at     : {"idle", "stop", "advance", "start", "register"},
           list   : List \cup {NoList, UnknownList},
           way    : {-1, 0, 1},
           wanted : List \cup {NoList, UnknownList},
           k      : Nat]

MusicInit ==
  /\ Init
  /\ loaded \in Loads
  /\ current = NoList
  /\ track = [l \in List |-> 1]
  /\ handle = [l \in List |-> [k \in DOMAIN Tracks[l] |-> NoSlot]]
  /\ op = [t \in Thread |-> Idle]

Sounds(h) == h # NoSlot /\ IsPlaying(slot[h])

(* Variant: lists of one track treated like the others. *)
NeverSingle(l) == FALSE

Single(l) == Len(Tracks[l]) = 1

AllFull == \A i \in Slot : ~IsFree(slot[i])

-----------------------------------------------------------------------------
(* The steps of an operation of thread t.                                  *)

(* Variant: playlistStop that only forgets the handle. *)
StopTrackLeavesPlaying(t) ==
  LET l == op[t].list
  IN  /\ op[t].at = "stop"
      /\ op' = [op EXCEPT ![t].at = "advance"]
      /\ handle' = [handle EXCEPT ![l][track[l]] = NoSlot]
      /\ UNCHANGED <<vars, loaded, current, track>>

(* playlistStop *)
StopTrack(t) ==
  LET l == op[t].list
      h == handle[l][track[l]]
  IN  /\ op[t].at = "stop"
      /\ op' = [op EXCEPT ![t].at = "advance"]
      /\ handle' = [handle EXCEPT ![l][track[l]] = NoSlot]
      /\ IF Sounds(h) THEN SetSlot(h, FadingOut(slot[h], MusicFade))
                      ELSE UNCHANGED vars
      /\ UNCHANGED <<loaded, current, track>>

(* The next or previous track of the list, modulo its length. *)
AdvanceTrack(t) ==
  LET l == op[t].list
      n == Len(Tracks[l])
  IN  /\ op[t].at = "advance" /\ op[t].way # 0
      /\ track' = [track EXCEPT ![l] = ((@ - 1 + op[t].way + n) % n) + 1]
      /\ op' = [op EXCEPT ![t].at = "start"]
      /\ UNCHANGED <<vars, loaded, current, handle>>

(* The list asked for becomes the current one, at a random track if it is  *)
(* shuffled; an id that was not loaded leaves no current list.             *)
SelectList(t) ==
  LET l == op[t].wanted
  IN  /\ op[t].at = "advance" /\ op[t].way = 0
      /\ \/ /\ l = UnknownList
            /\ current' = NoList
            /\ op' = [op EXCEPT ![t] = Idle]
            /\ UNCHANGED track
         \/ /\ l # UnknownList
            /\ current' = l
            /\ \E k \in DOMAIN Tracks[l] : track' = [track EXCEPT ![l] = k]
            /\ op' = [op EXCEPT ![t].at = "start", ![t].list = l]
      /\ UNCHANGED <<vars, loaded, handle>>

(* playlistPlay up to the handle: a list of several tracks fades in, a     *)
(* single track is looped; a full pool gives a nil handle.                 *)
StartTrack(t) ==
  LET l == op[t].list
      k == track[l]
  IN  /\ op[t].at = "start"
      /\ IF Sounds(handle[l][k])
         THEN op' = [op EXCEPT ![t] = Idle] /\ UNCHANGED <<vars, handle>>
         ELSE /\ op' = [op EXCEPT ![t] = IF Single(l) THEN Idle
                                          ELSE [@ EXCEPT !.at = "register", !.k = k]]
              /\ \/ AllFull /\ UNCHANGED vars
                    /\ handle' = [handle EXCEPT ![l][k] = NoSlot]
                 \/ \E i \in Slot :
                      /\ IF Single(l) THEN PlayLoop(i, Tracks[l][k])
                                   ELSE PlayFadeIn(i, Tracks[l][k])
                      /\ handle' = [handle EXCEPT ![l][k] = i]
      /\ UNCHANGED <<loaded, current, track>>

(* playlistPlay registers PlayNext, through a handle that may be nil: a    *)
(* run-time panic, on whichever thread it happens.                         *)
RegisterPlayNext(t) ==
  LET h == handle[op[t].list][op[t].k]
  IN  /\ op[t].at = "register"
      /\ op' = [op EXCEPT ![t] = Idle]
      /\ IF h = NoSlot
         THEN pc' = "panicked" /\ UNCHANGED <<slot, paused, cursor, bufLen>>
         ELSE SetSlot(h, Registered(slot[h], op[t].list))
      /\ UNCHANGED <<loaded, current, track, handle>>

OpStep(t) ==
  /\ CanCall
  /\ \/ StopTrack(t) \/ AdvanceTrack(t) \/ SelectList(t)
     \/ StartTrack(t) \/ RegisterPlayNext(t)

-----------------------------------------------------------------------------
(* The audio thread mixes; the callback of an ended track is a PlayNext    *)
(* that it runs to its end before it goes on.                              *)
Mixing ==
  /\ AudioStep
  /\ pc = "callback" => op[AudioThread] = Idle
  /\ op' = IF pc # "callback" /\ pc' = "callback"
           THEN [op EXCEPT ![AudioThread] = Change(slot[cursor].onEnd, 1)]
           ELSE op
  /\ UNCHANGED <<loaded, current, track, handle>>

(* A goroutine makes one call at a time; others, and the audio thread, may  *)
(* be in the middle of theirs.                                             *)
MayCall(t) == CanCall /\ op[t] = Idle

(* Play: nothing if the list is the current one, else its track is stopped *)
(* first, if there is a current list.                                      *)
PlayList(t, l) ==
  /\ MayCall(t)
  /\ current # l
  /\ op' = [op EXCEPT ![t] =
              [at |-> IF current = NoList THEN "advance" ELSE "stop",
               list |-> current, way |-> 0, wanted |-> l, k |-> 0]]
  /\ UNCHANGED <<vars, loaded, current, track, handle>>

(* PlayNext and PlayPrevious of the current list *)
ChangeTrack(t, w) ==
  /\ MayCall(t)
  /\ current # NoList
  /\ op' = [op EXCEPT ![t] = Change(current, w)]
  /\ UNCHANGED <<vars, loaded, current, track, handle>>

(* Seek moves within the current track. *)
SeekTrack(t, target) ==
  /\ MayCall(t)
  /\ current # NoList
  /\ LET h == handle[current][track[current]]
     IN  h # NoSlot /\ SetSlot(h, Sought(slot[h], target))
  /\ UNCHANGED musicVars

PlayEffect(t) ==
  /\ MayCall(t)
  /\ \E i \in Slot, s \in Effect : Play(i, s)
  /\ UNCHANGED musicVars

GameCall(t) ==
  \/ \E l \in loaded \cup {UnknownList} : PlayList(t, l)
  \/ \E w \in {-1, 1} : ChangeTrack(t, w)
  \/ \E target \in SeekTargets : SeekTrack(t, target)
  \/ PlayEffect(t)
  \/ \E c \in Channel : MayCall(t) /\ (Pause(c) \/ Resume(c)) /\ UNCHANGED musicVars

MusicNext ==
  \/ Mixing
  \/ \E t \in Thread : OpStep(t)
  \/ \E t \in GameThread : GameCall(t)

MusicSpec == MusicInit /\ [][MusicNext]_allVars

-----------------------------------------------------------------------------
(* Properties.                                                             *)
NobodyBusy == pc # "panicked" /\ pc # "callback" /\ \A t \in Thread : op[t] = Idle

MusicSound == {s \in Sound : \E l \in List : \E k \in DOMAIN Tracks[l] : Tracks[l][k] = s}

(* Music that is not on its way out. *)
Leading(i) ==
  /\ slot[i].sound \in MusicSound
  /\ ~IsFree(slot[i])
  /\ slot[i].loop \/ slot[i].fadeOutStartsAt = DataLen[slot[i].sound]

(* No operation meets a nil handle (the pool only logs that it is full).   *)
NoCrash == pc # "panicked"

(* The tracks of a longer list follow one another by callbacks of the audio *)
(* thread, in the middle of whatever the game is doing.                    *)
LongListLoaded == \E l \in loaded : Len(Tracks[l]) > 1

(* Of lists of one track, called by one goroutine: once its calls have     *)
(* returned, the only music that is not fading out is the track the        *)
(* current list says is playing, and it can be stopped, wherever the mixer *)
(* was when they were made and however full the pool.  (Nothing like it    *)
(* holds of longer lists, whose PlayNext runs on the audio thread at the   *)
(* same time as a call of the game, or of two goroutines.)                 *)
OneMusic ==
  ~LongListLoaded /\ NobodyBusy => \A i \in Slot : Leading(i) =>
    current # NoList /\ handle[current][track[current]] = i

(* The current track sounds whenever nobody is about to change it, if it   *)
(* was given a slot.                                                       *)
CurrentSounds ==
  /\ NobodyBusy
  /\ current # NoList
  => LET h == handle[current][track[current]] IN h # NoSlot => IsPlaying(slot[h])

(* While a track of a longer list plays, and nobody is about to change it, *)
(* its end is set to start the next one (playlistPlay registers PlayNext,  *)
(* and a callback "will be called once when the sound has finished         *)
(* playing").  The code forgets it for a track that is given the slot of   *)
(* the one it follows.                                                     *)
NextFollows ==
  NobodyBusy /\ current # NoList /\ ~Single(current) =>
    LET h == handle[current][track[current]]
    IN  h # NoSlot /\ IsPlaying(slot[h]) => slot[h].onEnd = current

(* Stopping and seeking music leaves the effects alone: none is cut short, *)
(* moved, or ended by a track's callback.                                  *)
EffectsUndisturbed ==
  \A i \in Slot : slot[i].sound \in Effect /\ ~IsFree(slot[i]) =>
    /\ slot[i].endAt = DataLen[slot[i].sound]
    /\ slot[i].seekTo = NoSeek
    /\ slot[i].onEnd = NoCallback

(* Whatever the interleaving, a game of single-track lists, whose loops    *)
(* register no callback, hears them until it stops them, keeps its effects *)
(* and never panics on a handle, even with a full pool.                    *)
LoopsSound == ~LongListLoaded => CurrentSounds /\ EffectsUndisturbed /\ NoCrash

-----------------------------------------------------------------------------
(***************************************************************************)
(* Small instances: tracks of two frames, effects of one, buffers of one   *)
(* frame, a long list of two tracks and lists of one.                      *)
(***************************************************************************)
CONSTANTS opening, closing, anthem, effect, long, single, other

MCDataLen == [s \in Sound |-> IF s = effect THEN 2 ELSE 4]
MCChannelOf == [s \in Sound |-> IF s = effect THEN "sfx" ELSE "music"]
MCCrossFades == [s \in Sound |-> {MusicFade}]
MCTracks == [l \in List |-> IF l = long THEN <<opening, closing>> 
                           ELSE IF l = single THEN <<anthem>> ELSE <<opening>>]
MCLoads == {{long}, {single, other}}
MCLongLoads == {{long}}
=============================================================================
