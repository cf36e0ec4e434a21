# go-gameaudio in TLA+

TLA+ modules, TLC configurations and TLAPS proofs for the audio library in this
repository: a pool of playing sounds mixed by an audio thread, channels that
can be paused, playlists driven by end-of-sound callbacks, sound effects with
two levels of throttling, loading with worker goroutines, the drivers that
pull buffers out of the mixer on Android, Linux, macOS and iOS, Windows and in
the browser, and the copy of the Oboe library that plays them on Android.

Contents: [the system](#the-system) - [the modules](#the-modules) -
[the runs](#the-runs) - [fairness](#fairness) - [proofs](#proofs) -
[where code and words part](#where-code-and-words-part) -
[not modelled](#not-modelled) - [conventions](#conventions)

To check: `tlc -config MuxSafe.cfg Mux` and so on for each run below (PROJECT.json
names its module), and `tlapm` of `MuxProofs.tla`, `PlaylistProofs.tla`, `OboeBinding.tla`,
`DriversProofs.tla`, `OboeDataProofs.tla`, `StreamProofs.tla`, `ClientsProofs.tla` and `PackagesProofs.tla`.
PROJECT.json ties every definition to the lines it translates, every property
to a mutant of the code that breaks it, and every hazard to properties.

## The system

### The sound library

| component | state it keeps | operations | interacts with |
|---|---|---|---|
| sound pool and mixer (`audio/mux.go`, `sound.go`, `playing_sound.go`) | 128 slots: sound, position, end, fades, loop, pending seek, end callback | `Play`, `PlayLoop`, `PlayFadeIn`, the methods of a handle, `ReadFloat32s` | called by games, and by a driver on its own thread; calls end callbacks on that thread |
| dynamic sounds (`audio/dynamic_sound.go`) | a slice of sounds with a fill function | `Play`, `Stop`, mixing | mixed after the pool, by the same pass |
| channels (`audio/channel.go`) | volume and paused flag per channel | `SetVolume`, `Pause`, `Resume` | read by the mixer once per slot |
| context (`audio/context.go`, `atomic_error.go`) | the mux singleton, the ready channel | `InitContext` | starts a driver |
| playlists (`playlist/playlist.go`, `playlist_notjs.go`) | current list, current track of each list, handle of the sound of each track | `Play`, `PlayNext`, `PlayPrevious`, `Seek`, `Seconds` | plays sounds; `PlayNext` is the end callback of a track |
| playlist loading (`playlist/load_*.go`) | the map of lists, under a read-write lock | `Load` | goroutines, a semaphore, a result channel, a wait group |
| sound effects (`sfx/sfx.go`, `id.go`) | last times played, per effect and variation | `Play`, `PlayFadeIn` | plays sounds |
| loading of effects (`sfx/load_sfx.go`) | the map of effects, a cache of files | `Load` | the same lock as `Play` |
| scheduler (`sfx/scheduler.go`) | a slice of sounds to be played later | `PlaySoundEffectAt`, `Clear`, `Process` | plays effects from the game loop |
| drivers (`audio/driver_*.go`, `audio/internal/oboe/binding_*`) | buffers in flight, error, pause and resume requests | start, loop, suspend, resume, change of device | call `ReadFloat32s`, from threads of their own |

### Oboe (`audio/internal/oboe/oboe_*`)

| component | state it keeps | operations | interacts with |
|---|---|---|---|
| streams (`AudioStream`, `AudioStreamAAudio`, `Audio*StreamOpenSLES`) | state, lock, pointer to the native stream, flags that tell callbacks to go on, the engine and mixer shared by OpenSL streams with their counts | open, start, pause, flush, stop, release, close, queries | the app's thread; the callback's; threads that stop a stream or deal with its error; the service |
| opening (`AudioStreamBuilder`, `QuirksManager`, the `open` of streams) | the builder as it is changed on the way, the policy of MMAP | `openStream` | decides on the API, on a filter around a child stream, on MMAP |
| path of the frames (`FifoBuffer`, `AudioStreamBuffered`, `FilterAudioStream`, `DataConversionFlowGraph`, block adapters) | two 64-bit counters, the storage, the blocks half filled, the phase of the resampler | blocking `read` and `write`, callbacks | the app on one side, the device on the other, no lock between them |
| flow graph, samples, resampler (`flowgraph_*`) | counts of pulls and frames, a delay line, a ramp | `pullData`, `readFrame`, `writeFrame`, `setTarget` | the filter |
| loading of AAudio (`AAudioLoader`, `AAudioExtensions`) | pointers to functions | `open`, the guarded calls | streams of AAudio, opening |
| beside a stream (`FullDuplexStream`, `LatencyTuner`, `AdpfWrapper`, `StabilizedCallback`, `MonotonicCounter`) | counts of callbacks, the size of the buffer, a session of hints, an epoch, a position | called from callbacks, and by the app | one or two streams each |

### What is hard

Two kinds of threads meet in the sound library and hardly any lock orders them:
the threads of the game, which call everything, and the audio thread, which
runs the mixer and, from inside it, the end callbacks. In Oboe there are at
least four: the app, the callback, the helpers that stop a stream or follow up an
error, and the service. Tests rarely reach:

- **Slots are reused.** A handle is a pointer to a slot, not to a sound. What a
  slot's last user left behind (callback, pending seek, fades) meets the next.
  *Correct is*: free slots carry nothing that acts on the next sound; nothing
  that has ended sounds again; callbacks are called once, for their own sound.
- **Callbacks run inside the pass** that is going over the slots, and call back
  into the library: the next track of a playlist is started there.
- **Positions** are moved by seeks, fades, loops and crossfades, several times
  within one buffer. *Correct is*: always on a frame, always inside the data,
  and what is heard goes on without gaps.
- **Playlists** keep handles of several tracks, and no lock across an
  operation. *Correct is*: one music leads, it is the one that can be stopped,
  it goes on, and effects are left alone.
- **Loading** has four ways of waiting (semaphore, unbuffered channel, wait
  group, lock). *Correct is*: it comes back, and what it publishes is whole.
- **Throttles and the scheduler** depend on a clock that jumps, on random
  numbers and on a slice reordered while it is gone through.
- **Drivers** wait on condition variables, events and messages. *Correct is*:
  no wakeup is lost, what is mixed is heard in order, delay is bounded, and
  the last of pause and resume wins.
- **Streams are closed while others use them**: by the app during a callback, by
  two threads, by the thread that follows up an error. *Correct is*: nobody uses
  what is closed, closing ends, errors are told once and in order.
- **Opening falls back** from one API to the other, to another sample rate or
  format, or to a child stream, in ways that depend on the phone. *Correct is*:
  it opens what was asked or fails, and leaves nothing behind.
- **Frames change hands without a lock**, and their number changes on the way:
  rates, blocks and bursts do not divide each other. *Correct is*: every frame
  once, in order, none half written, and no drift.
- **Positions wrap** at 32 bits and go back when the service starts anew.

## The modules

```
The pool
  Slots --- Mux ---------- MuxProofs
              |---------- Playlist
              |              '------- PlaylistProofs (EXTENDS MuxProofs too)
              '.........> Voices                      (abstract)

Parts of the sound library, one at a time
  Packages --- PackagesProofs
     '..> Mixer (EXTENDS Slots), DynamicSounds, PlaylistLoad, Effects, Scheduler
  PoolRace

Drivers
  Rendering --- OboeBinding, Alsa, Darwin, Browser, Windows
     |
  Drivers ..> each of these, and Output               (abstract)
     '------- DriversProofs

Oboe
  AudioStream --- AAudioStream, OpenSLStream
  OboeStreams ..> these two, and StreamPromise        (abstract)
     '------- StreamProofs

  Fifo, Conversion --- OboeData --- OboeDataProofs    OboeData ..> Opening

  OboeClients --- ClientsProofs
     '..> FullDuplex, LatencyTuner, ServicePosition, PerformanceHint, Stabilized,
          Resampler, Samples, FlowGraph, Ramp, AAudioLoader
```

A line is EXTENDS, a dotted arrow INSTANCE. The values TLC gives to the constants of
Mux, Playlist, Packages, OboeData and OboeClients stand at the end of these modules.

### Pool, mixer, channels

**Slots** is one slot as a value, a record with the fields of `PlayingSound`,
and every operation on it: `Started` (`getFreePlayingSound`), `Looping`,
`FadingIn`, the methods of a handle (`Registered`, `Sought`, `Stopped`, `FadingOut`),
and the mixer's `SeekApplied` and `Mixed` (`readBufferAndAdd`). Positions count samples, two
per frame, as the code does. `Mixed` says in closed form what state the loop
over a buffer leaves, and `Panics` when that loop indexes outside the data or
divides by zero. Volumes and sample values are left out.

**Mux** is the pool: `slot`, the paused channels, and where the audio thread is
(`pc`, `cursor`, the length of its buffer). The audio thread takes one step to
begin a pass, one for each slot, one to return from a callback. A call of the
game is one step, between any two of them; with `CallsDuringCallback` also
while a callback runs, which is what a call made *by* the callback does to the
pool as well. `LateCalls` allows calls through handles whose sound has ended.
A step of the mixer that indexes outside the data or divides by zero
(`Panics`) leads to `pc = "panicked"`; `OnlyLoopsPanic` lists the cases in which
it may, and there are no others.

**Voices** is what the package promises, without positions and buffers: a voice
sounds, once or in a loop; a callback registered while it sounds is owed, is
called once, when that sound has come to its end by itself, and is forgotten
when it is stopped; a paused channel ends nothing. A callback may play,
register and stop like any other caller; what is registered on the voice whose
callback is running is not owed, since the mixer clears that field when the
callback returns (`mux.go:84`), and `Voices!Register` says so.
`Mux!ImplementsVoices` is the refinement, `ImplementsFairVoices` the same with liveness.

**PoolRace** splits `Play`, `Stop`, `OnEndCallback` and the pass over a slot into
their single reads and writes, which no lock orders, for several goroutines and
sounds of several lengths. Accesses are taken to be atomic and in program
order; what the memory model of Go allows beyond is left out.

### Playlists

**Playlist** extends Mux: every slot, seek and callback is the one of the pool.
Each helper (`playlistStop`, the change of track, the two halves of
`playlistPlay`: getting a slot, registering the callback) is a step of the
thread that runs it; the audio thread runs `PlayNext` while its pass waits in
the callback. Operations interleave with each other and with the mixer at every
step, so that a callback's `PlayNext` comes in the middle of a game's `Play`: no
lock of the code excludes that. Games differ in the lists they load
(`Loads`). With a list of several tracks hardly anything can be said for certain;
`OneMusic` and `LoopsSound` speak of games whose lists have one track each, and
`NextFollows`, which the code breaks, of the others.

### Parts of the sound library: Packages

These share no state with the rest, so that **Packages** runs them one at a
time; the variable `part` says which.

**Mixer** follows the loop of `readBufferAndAdd` sample by sample, with the
sample each output is taken from and the one it is crossfaded with, and checks
the closed form of Slots against it. So the step of Mux, one per slot and
buffer, is not taken on trust.

**DynamicSounds**: the arrays behind the Go slice are numbered, because a range
loop goes over the array it started with while `append` has moved the slice to
a larger one. Looking up a place and writing it are two steps.

**PlaylistLoad**: one goroutine per track, the semaphore, the unbuffered result
channel (a send is a step taken with the receiver), the goroutine that closes
it, the collecting loop, failures of any track, and the read-write lock, whose
waiting writer lets no new reader in, as in Go.

**Effects**: the draw (`throttled` variations counted out, a number drawn, the
variations gone through), the look at both throttles and the later note of the
time, two steps because the lock is held for reading only; and loading, at any
time between plays: the loop over effects and variations, the cache of files,
failures. **Scheduler**: the slice, the swap with the last element, and a clock
that is whatever the caller of `Process` says it is, earlier times included.

### Drivers

**Rendering** holds what drivers share: blocks of samples are numbered in the
order they are mixed (modulo `Ids`), `device` is what the device holds,
`thread` where the driver's thread is, `err` and `ready`. Devices fail at any
use, `MaxFailures` times.

**OboeBinding** (two threads, one condition variable, spurious wakeups, a
stream that fails to start after the mixing thread was created; the
proof about them is at its end), **Alsa** (partial writes, recovery), **Darwin**
(buffers of an audio queue, sleep and wake, retries that hold the lock),
**Windows** (WASAPI: events, the poll for a change of device, restart,
discarding; WinMM: headers, whose callback signals without the lock and can so
do it between a look at the headers and the wait for one, which strands the
thread; the null driver; the fallback from one to the next), **Browser** (worklet messages and script processor, user events).
**Drivers** is `InitContext` and one of these, chosen in the initial state.

**Output** is what a driver promises: a queue of bounded length that hands on
blocks in order, each once, and loses some only when the device fails or is
away. Every driver implements it, with a refinement mapping of its own
(`Waiting`, `Bound`, `Away`).

### Oboe: streams

**AudioStream** holds the variables of the base class: where the app's thread,
its `close` and the callback are, whether the callback is `enabled`, whether
the stream is `gone`. **AAudioStream** adds the native stream with the service
behind it, the pointer to it, the threads that stop a stream for its callback,
the thread that deals with an error, a thread that uses the stream under the
shared lock. What happens between taking a lock and giving it up is one step,
unless somebody can see the difference: closing is split where the code waits
or where the pointer has been taken and the stream not yet closed. Whether
AAudio waits for its callbacks in `close` is chosen at the start (`joins`): the
code is written for one that does (`AudioStreamAAudio.cpp:145`), and
`AudioStream.h:491` knows of others, whose callbacks come once more after a stop
and even after a close.
**OpenSLStream** adds the states Oboe keeps itself, the queue, and engine and
mixer with their counts; another stream of the same program opens and closes
beside it, and any of the calls named in `Faults` fails. A start does not wait for
a callback that is still running: its answer is written to the flag that the
start has set, and a late Stop stops the new start. Two failures leave a thread
waiting for a lock it holds: `"hung"` in a start whose stop fails, `"stuck"` in the
opening of a mixer that cannot be created.

**StreamPromise** is the documentation of `AudioStream` and the two callback
classes as one state machine: a stream stays closed, does not call an app that
said Stop, nor one that has closed it if the API waits for its callbacks, and
tells an error once, before and after it has closed itself. Two calls of the app
at a time are possible in OpenSL ES, where a start asks for the first buffer
itself. **OboeStreams** chooses the API, and maps both onto it.

### Oboe: opening and the path of the frames

**Opening**: `openStreamInternal` step by step, with the quirks of the phone,
the child stream and its flow graph, MMAP switched off and on around it.

**Fifo**: a writer and a reader with a counter each, the copies in up to two
parts, and the blocking transfer around them (its wait, its time, the callback
that comes in between). A frame is the number it was written with, and a copy
that is under way is visible to the other side.

**Conversion**: the filter stream in all four directions (played by a callback
or by `write`, recorded by a callback or by `read`): requests of any size,
chunks, blocks that must be filled before the app is called, the phase of the
resampler, the partial answers of a child that is full, empty or closed. Frames
are counted.

**OboeData** runs a stream from `openStream` to its frames: Opening decides
whether there is a FIFO, a filter, both (the filter's child is then the FIFO:
its transfer is the filter's call) or neither.

### Oboe: clients

**OboeClients** runs these one at a time, like Packages. **FullDuplex**: two
streams with their own jitter, draining, discarding, the callback.
**LatencyTuner**: the four states, resets at any time. **ServicePosition**: the
32-bit position of the service in milliseconds with `Width` values, the counter
that widens it, stops, pauses, and flushes, which leave what was written counted
as written. **PerformanceHint**: sessions opened and closed by a callback, which
may come at any time, also after a close, and by starts and closes; those that
nobody will close any more are counted (`lost`). **Stabilized**: load generated until a time that
depends on callbacks that come late. **Resampler**: which frame and which
coefficient meet, for three kinds of filter. **Samples**: the values of samples
through sources, converters and sinks, with floats of `Mantissa` bits.
**FlowGraph**: pulls through graphs of any shape, also with cycles. **Ramp**:
`RampLinear` with a target and a length set by another thread, the length between
its two reads too. **AAudioLoader**: linking step by step, by any number of threads at a
time, with symbols missing that the version of Android lacks.

## The runs

| run | checks | bounds |
|---|---|---|
| `MuxSafe` | `NoStaleCallback`, `FramesAligned`, `OnlyLoopsPanic` | 2 slots, a track of three frames and a sound without data on one channel, buffers of one frame, crossfades of half the track and of all of it, loops without data, fade outs that end in mid-frame, seeks to the middle, calls during callbacks |
| `MuxLive` | `ImplementsFairVoices` | 2 slots, the track, crossfades of none and of half of it, no seeks, calls during callbacks |
| `SeekAfterEnd` | `OnlyPlayRevives`, **violated** | one slot, the track, seeks to the start, late calls |
| `PlaylistLists` | `OneMusic`, `LoopsSound` | 2 slots, an effect, seeks; a game with a list of two tracks, one with two lists of one track; a game thread and the audio thread |
| `PlaylistSilent` | `NextFollows`, **violated** | the first of these games, without effects and seeks |
| `PoolRace` | `HeardToTheEnd`, **violated** | 2 slots, 2 goroutines, a long and a short sound |
| `Packages` | `ClosedFormExact`, `Follows`, `HeardAsAsked`, `ListsPublished`, `LoadReturns`, `EffectsPlayed`, `PlayedInTime` | one slot, sounds of 1, 3 and 4 frames, buffers of 1, 2 and 5 frames, crossfades of 0 to 4 frames; a slice of up to 3 of 2 dynamic sounds; 2 lists with 3 tracks, 2 workers, 2 players, any number of loads; effects of 3 and 1 variation over 2 files, times up to 5; a scheduler of 4 sounds, times up to 3, any jumps of the clock |
| `Drivers` | `NothingTakenForGranted`, `ImplementsOutput`, `KeepsPlaying` | each driver; 8 block numbers, 2 failures, 3 buffers, 3 notifications, one retry |
| `OboeStreams` | `NobodyUsesClosed`, `SharedObjectsCounted`, `ImplementsStream`, `ClosesEnd`, `StopTakesEffect`, `ErrorFollowedUp` | both APIs, an AAudio that waits for callbacks and one that does not, Android 8.1, 11 and 12, output and input, two helper threads, two notifications; one failure of creating the engine, the mixer or an object, of starting, pausing, stopping or queueing |
| `OboeData` | `OpensOrFails`, `MMapOnlyWhereSafe`, `FramesInOrder`, `InStep`, `NothingLost`, `AppDecides`, `CallsEnd` | 8 phones and requests that differ in what decides on the path; a FIFO of 3 frames with a burst of 2, 7 frames through it, calls of 1 and 4 frames with and without time; rates 1:1, 2:3, 3:2, blocks of 2 and 3, chunks of 2, 5 frames to convert |
| `OboeClients` | `FreshInput`, `SessionsBounded`, `ReadFollowsPlay`, `LoadLeavesTime`, `FilterInPlace`, `SamplesKept`, `OncePerPull`, `LinkedBeforeCalled`, `GlitchesEnd` | each client; cushions of 0 and 1 burst, minimums of 0 to 2, input of 6; buffers up to 5 bursts; 8 values of the position, 11 ms; 3 starts and closes; callbacks of 5 units of time with breaks; 8 pairs of rates, filters of 2, 4 and 8 taps; blocks of two frames in every pair of formats; graphs of 4 nodes; ramps of 0, 2 and 3 frames; 2 threads that link, libraries of Android 8.1 and 12, phones of these versions and of the ones before |
| `PausedPosition` | `FramesNeverGoBack`, **violated** | the position only |

What they show, and why the bounds are enough:

- **Pool and playlists.** Two slots are the least with which a pass has an
  order, a callback can be given its own slot or another one, and the pool can
  be full; slots do not otherwise interact, and the proofs below hold for any
  number. A buffer of one frame against a sound of three lets calls come before,
  within and after a sound; longer buffers, in which a loop goes round several
  times, are the business of the mixer in `Packages`. Two tracks are the least
  that end and follow each other.
- **Packages.** Three tracks with two workers make one wait for the semaphore
  while another waits to send. Four scheduled sounds let the swap with the last
  element meet one that is due, one that is not, and itself. A slice
  that grows to three entries is moved while a pass goes over it.
- **Drivers.** Block numbers go up to 8 because no driver of that size holds
  more than 5 blocks, so that two blocks under way never share a number.
- **Streams.** The versions of Android are those between which the code
  branches. A second helper thread of a kind is the least that can meet the first in
  `close`; the threads are otherwise alike. Each failure alone reaches each
  early return of opening, starting and stopping.
- **Data.** A FIFO of three frames wraps in the middle of a copy of two, and 7
  frames go round it twice. Rates that do not divide each other, nor the blocks, nor the
  chunks, put every remainder at every boundary.
- **Clients.** Eleven milliseconds wrap a position of 8 values. Pairs of rates go up and
  down, by one step and by many, and one has a common factor that the list of
  primes lacks. Graphs of four nodes have every shape that tells a first pull
  from a second one. Of the threads that link AAudio, one that is inside `open` and
  one that finds the handle there are what can go wrong; two starts after a close can
  each leave a hint session open, a third shows that they add up.

Liveness: `ImplementsFairVoices` (a sound played once ends unless it is paused),
`LoadReturns`, `KeepsPlaying` (with the last of pause and resume obeyed),
`ClosesEnd`, `StopTakesEffect`, `ErrorFollowedUp`, `CallsEnd`, `GlitchesEnd`.

What some properties exclude, in the model as in their comments:

- `MuxSafe` excludes calls through a handle after its sound has ended
  (`LateCalls = FALSE`) and seeks to the very end, for `NoStaleCallback` fails with
  them; `SeekAfterEnd` shows what a late seek does. `OnlyLoopsPanic` holds with both.
- `MuxLive` has no seeks, late calls, or crossfades of more than half of a sound.
- `PlaylistLists` goes through games with a list of several tracks too, but its
  properties say nothing of them, and `OneMusic` fails with two goroutines.
- In `Packages` one goroutine plays dynamic sounds and effects; with
  two, the properties fail (see below). `Follows` starts anew after a crossfade
  that a buffer ended.
- `Drivers` takes Oboe's callbacks to ask for at most three times the buffer
  of the stream, and a WASAPI client whose device goes to signal its event a last
  time. Nothing in the code enforces these. `KeepsPlaying` lets a driver end with
  the error it stores (for WASAPI, that of a device that is gone when it is
  polled for, though line 443 would rather wait), and excepts WinMM's lost wakeup.
- `SharedObjectsCounted` excepts what the thread that waits for itself after a
  failing mixer has counted; `StopTakesEffect` a stop that OpenSL ES refuses when no buffer is
  left to be played; `ErrorFollowedUp` an app that releases or closes the stream first.
- `SessionsBounded` only bounds the hint sessions left open. `ReadFollowsPlay`
  holds until a pause. `LinkedBeforeCalled` allows a call of
  what is not linked while a thread is still inside `open`. `Smooth` (a part of
  `SamplesKept`) excepts ramps of no length and those whose length is set just
  as they start, `GlitchesEnd` buffers at their maximum and streams that
  do not count underruns.
- `CallsEnd` of a recording needs a device that brings frames.

Deadlock is checked in `MuxLive` (where the mixer never panics) and `Drivers`. The other
systems may stop: a mixer or a playlist that panicked, a clock at its last value,
a stream that is closed, frames at their bound.

## Fairness

- `Mux!FairSpec`: weak fairness of the audio thread's steps as a whole. A driver
  asks for the next buffer as long as it runs (`KeepsPlaying` says so of the
  drivers), a pass is a loop over a fixed pool, and callbacks are
  expected to return. Nothing is assumed of the game.
- `Packages!FairSpec`: weak fairness of `Load` once called, of each worker
  goroutine and of `Play` returning: goroutines are scheduled, reading a file
  comes to an end with a sound or an error, and `Play` does not block.
  Nobody has to call `Load` or `Play`.
- `Drivers!FairSpec`: weak fairness of the driver's thread and of the device,
  which plays what it holds and, with Oboe and the worklet, asks for more.
  Plugging, notifications, spurious wakeups and failures happen or do not.
- `OboeStreams!FairSpec`: strong fairness of threads that take a lock which others take
  again and again (closing, the stop and error threads, the callback of OpenSL
  ES), for the mutexes of Android let a waiter in; weak fairness of the
  callback, of a use of the stream that has begun, of the service of AAudio, and
  of opening, starting and closing in OpenSL ES and of its queue's playing what it
  holds. Nobody has to make a request.
- `OboeData!FairSpec`: weak fairness of calls that have begun, of copies and of callbacks.
  `RecordingSpec` adds strong fairness of a device that brings frames; without
  it a converted blocking read does not end (see below).
- `OboeClients!FairSpec`: weak fairness of the callback that tunes, and of
  underruns of a buffer that is too small.
- Safety properties need none of it.

## Proofs

| theorem | says | assuming |
|---|---|---|
| `MuxProofs!TypeCorrect` | `TypeOK` | nothing but the types of the constants |
| `MuxProofs!FramesStayAligned` | `FramesAligned` | the same: buffers and sounds of whole frames, any fades, any seeks |
| `MuxProofs!NoCallbackGoesStale` | `NoStaleCallback` | `Disciplined`: no late calls, seeks to before the end |
| `MuxProofs!MixingIsSafe` | `OnlyLoopsPanic` | `SeeksWithin`: seeks to within the sound, its end included; any sounds and fades, late calls and calls during callbacks |
| `MuxProofs!PoolImplementsVoices` | `ImplementsVoices` | `Careful`: `Disciplined`, loops have data; calls during callbacks included |
| `PlaylistProofs!OneMusicLeads` | `OneMusic`: games of lists of one track | `Sensible`: tracks have data, effects are no tracks, seeks to before the end; `OneCaller`: one goroutine calls the package, while the audio thread mixes |
| `PlaylistProofs!LoopsGoOn` | `LoopsSound`: the same games, any number of goroutines | `Sensible`; `LoopsFit`: tracks at least as long as two of the fades they loop with |
| `OboeBinding!OboeNeverHangs` | `OneIsAwake` and a bounded delay | callbacks of at most three times the stream's buffer |
| `DriversProofs!DriversTakeNothingForGranted` | `NothingTakenForGranted` | the same |
| `DriversProofs!DriversImplementOutput` | `ImplementsOutput` | the same |
| `OboeDataProofs!FifoTypeOK` | `TypeOK` of the FIFO | any capacity, bursts of at most the capacity |
| `OboeDataProofs!FifoInOrder` | `FramesInOrder` | the same |
| `OboeDataProofs!ConversionInStep` | `InStep` | rates, blocks and chunks above 0 |
| `OboeDataProofs!ConversionLosesNothing` | `NothingLost` | the same |
| `OboeDataProofs!AppHasTheLastWord` | `AppDecides` | the same |
| `OboeDataProofs!OpensOrFailsAlways` | `OpensOrFails` | rates and numbers of frames are natural, those of the device above 0 |
| `OboeDataProofs!MMapOnlyWhereSafeAlways` | `MMapOnlyWhereSafe` | the same |
| `OboeDataProofs!OpenedStreamsDeliver` | `FramesInOrder`, `InStep`, `NothingLost`, `AppDecides` of a stream that was opened, whatever its path | all of these |
| `StreamProofs!NobodyUsesClosedAlways` | `NobodyUsesClosed` | nothing but the types of the constants |
| `StreamProofs!SharedObjectsAreCounted` | `SharedObjectsCounted` | the same: any calls fail |
| `StreamProofs!StreamsKeepPromise` | `ImplementsStream` | the same |
| `ClientsProofs!SessionsBoundedAlways` | `SessionsBounded` | nothing |
| `ClientsProofs!LoadLeavesTimeAlways` | `LoadLeavesTime` | period above 0, times natural |
| `ClientsProofs!FreshInputAlways` | `FreshInput` | cushions and minimums are natural |
| `ClientsProofs!ReadFollowsPlayAlways` | `ReadFollowsPlay` | the position's values are even in number |
| `ClientsProofs!LinkedBeforeCalledAlways` | `LinkedBeforeCalled` | versions are numbers; any number of threads, any library |
| `ClientsProofs!FilterInPlaceAlways` | `FilterInPlace` | reduced rates are above 0, and two rows of coefficients fit into the table of the sinc filter |
| `ClientsProofs!OncePerPullAlways` | `OncePerPull` | every input is a node of the graph or open |
| `PackagesProofs!ListsPublishedAlways` | `ListsPublished` | finitely many tracks |
| `PackagesProofs!PlayedInTimeAlways` | `PlayedInTime` | nothing but types |
| `PackagesProofs!HeardAsAskedAlways` | `HeardAsAsked` | one goroutine plays and stops dynamic sounds |

All hold for every value of the constants that satisfies the assumptions named
in the modules: every pool size, every set of sounds, lengths, fades, buffers
and channels; every capacity and size of calls; every ratio of rates; every set of
phones and of requests to the builder; every number of threads, of failures, of
notifications; every number of tracks, workers and readers; graphs of every shape.
Where the last column names a condition that the code does not enforce, the run
that checks the property needs it too, and the table of [the next
section](#where-code-and-words-part) says what happens without it.

**The argument for the pool.** A step of the game or of the audio thread
changes one slot at most. `StepsBySlot` turns a step of the pool into a
`SlotStep` of each slot (untouched, allocated, handled, mixed, called back), so
that every invariant is a statement about one slot, `\A i \in Slot : P(slot[i])`,
and is proved once for each kind of `SlotStep`. The `...Fields` lemmas say what
each operation does to each field, so that the long records of Slots are opened
in one place only.

- `TypeInv` adds to `TypeOK` where the audio thread is while it is at work
  (`AtWork`): a buffer of one of the lengths drivers ask for, and a slot whose
  callback runs.
- `FrameInv`: the position is on a frame *or the slot is free*. The disjunct is
  needed because a fade out that ends in mid-frame leaves such a position.
- `SeekInv`: a seek is pending only on a slot that sounds, or on one that was never
  used and so ends at 0, and its target is before the end. `NoStaleCallback` is not
  inductive without it: a pending seek on a free slot is applied by the next pass,
  and the slot sounds again.
- `MixInv`: of every slot, also a free one, the position is at most the end and that
  within the data; while it loops, its two fades meet at the end
  (`fadeInEndsAt + fadeOutStartsAt = endAt`), and it has gone round only if it
  passed `fadeOutStartsAt`, which is then not negative. Lemma `SafeMixing` concludes
  that no index is outside the data unless the slot is `AtRisk`: a loop
  crossfades with samples up to its end; one that is faded out after it has
  gone round goes on crossfading before `fadeInEndsAt`, with samples that exist if the
  crossfade is at most half of the sound and the position is past the point where the fade out began.
- `RefinementInv` joins these with `VoiceOK` (a sounding slot has a sound, a loop is
  never at its end), and then every call and every step of the audio thread
  is one of `Voices!Next` or a stutter.

**The argument for playlists.** It rests on the lemmas about slots of the pool's.
`PlayersInv` holds of every game of lists of one track, with any number of goroutines:

- `MusicTypeInv`: an operation under way works on a list that is loaded (`OpOK`),
  and the current track of a list is one of its tracks.
- `MusicOK`, of each slot: only music loops, and only a loop has a seek pending.
- `ShortLists`: no slot has a callback, so that the audio thread does nothing but mix.
- `LoopsHeld`: every handle there is is that of a loop, and
  no two tracks have the same. Stopping a track would else hit an effect, or
  the music of another.

`OneMusic` speaks of moments when nobody is busy. `OneMusicInv` says what
holds meanwhile. An operation works on the list that is current; there is one handle
at most, that of the current track, and none from
the moment a track is stopped until the next is started (`OneHandle`); and what leads has
that handle, busy or not. It needs one goroutine: a second one, between two steps
of a first, changes the current list under it. With longer lists the audio
thread is such a second one, and neither theorem says anything of them.

`LoopsInv` adds to `PlayersInv` that effects are as they were started (`EffectOK`)
and that loops keep their indices inside the data (`FitOK`, a stronger form of the
pool's `MixOK` for crossfades of at most half), also with a seek pending (`LoopFits`) or while fading out (`LoopFadesOut`). It needs no
order among the operations of different goroutines.

**The argument for the Oboe binding.** A sleeper sleeps for a reason: the producer because
`buf_` is full, the consumer because it is short of what was asked. Whoever
changes `buf_` wakes the other (`notify_one` suffices, as only one can wait). If
both slept, `buf_` would hold at least three times the stream's buffer and less than what was
asked, which the assumption excludes. `RoomForChunk` adds that the
producer inserts only what it made room for, which bounds the delay.

**The argument for the drivers.** A program has one driver, so that `DriversInv`
joins an invariant for each, next to what holds of them all: how far `InitContext`
and the thread are with the ready channel (`ReadyInv`). None of the properties is
inductive by itself:

- *ALSA*: what `writei` left over is part of one period, and there is some only while
  the loop is writing (`AlsaInv`). Without this bound the delay is not one.
- *Darwin*: a buffer is free or queued, never both and never twice (`BuffersKept`),
  and while there is no error none is missing. The queue gives back the buffer it has
  played, the render loop takes the first free one: lemma `Rotation` says that
  neither loses nor doubles one. Who is about to take a buffer finds one
  (`SomethingToAppend`).
- *Windows*: the device is empty until a driver was chosen, and stays empty for the null
  driver (`WindowsInv`). That WinMM finds a free header for what it mixed
  (`HeaderForBuffer`) is a matter of counting: the headers in the queue differ, and so are
  fewer than there are unless all are queued (`DistinctBound`).
- *Browser*: the worklet has asked at most once, before it held half an answer, and
  every answer has the length of one (`BrowserInv`), which bounds what it may hold. With
  script processors nothing is asked for.
- *Oboe*: the invariant of its binding.

The refinement goes by `Mixes`, `Hears` and `Loses`, one for each action of
`Output`: every action of a driver is shown to be one of them, or to change neither
`next` nor what is waiting. What waits is the device's queue behind Oboe's or
ALSA's rest, the contents of headers and buffers, or the worklet's buffer with the
answer on its way; the lemmas on `Taken`, `Dropped` and concatenation
(`WrittenPart`, `DroppedOfFirst`) say that moving a block between these leaves the whole
as it was. `IdsSuffice`, by which blocks mixed at a time have different numbers,
is about the numbering of blocks and not about the code.

**The argument for the FIFO.** `FramesInOrder` says that each frame between the
two counters is in its place. That is not inductive: the writer raises its
counter only after it has copied, so that what it *has* copied must be in place
too (`CopiedInOrder`), and neither copy may reach into the part of the other
(`CopiesFit`). With `source = writeCounter` (the app's frames are numbered as
they are written) and `CallCovers` (a copy is about no more than its call has
left) this makes `QueueInv`. A place is the counter's remainder by the
capacity, raised by an offset and wrapped at most once; the lemmas
`IndexShifts` and `IndexDiffers` (two frames less than a capacity apart are in different
places) follow from the uniqueness of division with remainder.

**The argument for the conversion.** `PlaceInv`: the phase of the resampler is
the distance, in the rates' common unit, between the next frame to be produced
and the last one consumed. Producing a frame adds one rate to it, consuming one
takes the other away, and every other step leaves it alone, whichever call,
chunk or block it belongs to. `InStep` is what follows for the two totals.
`PathInv` follows the frames of one call: what the graph still has to pull
fits what is still asked (`PullFits`), what was fetched fits what the source was asked for
(`FetchFits`), and a block is never fuller than its size (`BlocksFit`); a frame that goes
into a block has room there, and `NothingLost`, a sum over these places, is then
inductive. `AnswersKept` adds to `AppDecides` which
answer of the app is on its way through blocks that still have frames to give.

**The argument for opening.** The builder that is at work is the app's or the one
made from it for a child, and a child asks for nothing that would need a filter
once more (`WorkInv`, with the lemma `ChildFields` about every builder); a stream
is there exactly if the result is OK, and is what *its* builder asked (`FoundInv`); the policy of MMAP
is changed only between the two lines that change it and restore it (`PolicyInv`). `Attached`
ties opening to the frames: the filter of a FIFO waits for its device
while the FIFO's transfer is under way, and what that has left is at most what the
filter asked for, so that what the FIFO answers is an answer the filter can take.

**The argument for the streams.** For AAudio, `PointerInv` says who may still use
the pointer: it is there unless the stream is gone or has been taken by the one
thread that closes it, whom the callback is joined by only if `joins`; a callback
that comes later runs without a pointer. `ErrorInv` says how far the
thread that follows up an error has come. For OpenSL ES, `OpeningInv`, `StartingInv` and
`ClosingInv` say which objects exist, and what is locked, at each step of opening,
starting and closing, the threads that wait for themselves included. `SharedObjectsCounted` is
inductive next to them once the counts of a stuck opening are added (`StuckCounts`). The
refinement needs both: a step of `StreamPromise` that tells the app something is
enabled because of what these say about the lock.

**The argument for the clients.** One part runs at a time, and `ClientsInv` joins
an invariant for each.
*Sessions*: a session that is open without the flag's saying so, and each one that was
forgotten, goes back to a close of the app's, and no two to the same (`FlagTells`,
`HintInv`). *Stabilized load*: the count is
that of callbacks since the epoch, and no later than the clock says
(`CountsFromEpoch`). *Full duplex*: once drained, what the input holds is newer than the
start (`DrainedOfOld`) and at most what cushion, minimum and twice the jitter allow
(`LittleAvailable`). *Position*: what is shown is what was played less what was not looked at yet,
by the width (`PlaceInv`). *AAudio*: whatever the other threads are at, each that is inside `open` has linked the
functions before the place it has come to (`OpenInv`), so that a missing one is called only
while somebody is inside (`FaultInv`); the phone and the library fit together (`LibraryInv`). *Resampler*: the row of coefficients is the phase
because the cursor moves as the phase does (`RowInv`: it is `row * numerator`
less a multiple of the denominator), and the delay line, which holds every frame twice,
holds the last ones from the cursor on (`DelayInv`). *Graph*: a pull gives every node it asks the
count of the sink; whoever has that count is on the stack or has been processed
(`CountedInv`, `StackInv`, `ProcessedInv`); in a simple graph each frame of the source was given out, is left at
the first node, or is in transit (`SimpleInv`).

**The argument for the packages.** *Loading* (`LoadInv`): the wait group is the
number of goroutines under way, so that nobody is left who could send once
the channel is closed; a list has failed exactly if one of the tracks collected so far has no
sound. *Scheduler* (`QueueInv`): no ticket is in two places, and what a turn has gone past
is not due; the swap with the last element keeps both because the loop looks at
the same index again. *Dynamic sounds* (`DynamicInv`): the slice holds the sounds
wanted and no others, and a sound that was wanted throughout a pass was either filled already or is
still to come in the array the pass goes over (`PassInv`), although the slice may be
another by then.

**Only model-checked**:

- liveness, which is beyond the prover;
- the sample-by-sample mixer (`ClosedFormExact`, `Follows`) and the effects
  (`EffectsPlayed`): a sum of samples or of throttled variations is a fold, and
  what a fold computes for every input needs induction over data;
- `SamplesKept`: conversions between formats, with powers of two and rounding, the same;
- that the current track of a list of several is followed by the next (`NextFollows`),
  that a sound that has ended stays so (`OnlyPlayRevives`), that what is played is heard
  to its end (`HeardToTheEnd`), that the frames read never go back: the code breaks
  them, as the next section says.

## Where code and words part

Four runs show a disagreement between the code and what the repository says of it.

- **`SeekAfterEnd`.** "If the sound already finished, this will do nothing", says
  `playing_sound.go:25` of `Seek`. But the mixer applies a pending seek before it looks
  whether the slot is free (`mux.go:73`), and nothing else does: the sound plays
  again from there, unless the slot is given away first.
- **`PlaylistSilent`.** `playing_sound.go:19` says of a callback that it "will be
  called once when the sound has finished playing". `playlistPlay` registers
  `PlayNext` at every track of a longer list (`playlist_notjs.go:39`). At the end
  of the first track, `PlayNext` runs as its callback, is given the slot of that
  very track, which is free, and registers itself there; `mux.go:85` then
  clears the callback. The second track plays, and nothing will follow it.
- **`PoolRace`.** "All the functions of a Sound returned by NewSound are
  concurrent-safe" (`sound.go:32`). `getFreePlayingSound` looks for a free slot and
  fills it with no lock (`mux.go:40-46`): two goroutines are given the same one, and
  a sound is never heard. With one goroutine, a mixer that comes between the writes
  meets the new, shorter sound with the old end, and panics.
- **`PausedPosition`.** The frames read are a "monotonic counter". A pause of
  an OpenSL ES output sets the 64-bit counter to the frames written
  (`AudioOutputStreamOpenSLES.cpp:344`) and leaves the 32-bit one: what was queued is
  counted as read, and counted again by the looks after the next start, as it
  is played. The next stop or pause sets the counter back to the frames written.

Others met while modelling. Each shows up as a counterexample when the run named
is changed as said, or can be read in the definition named. First the sound library:

| what the code does | where | run and change |
|---|---|---|
| A callback registered during a callback on the slot that has ended is lost | `mux.go:83-85` | `Voices!Register` does not owe it; `PlaylistSilent` |
| A sound that plays already is not the one that `PlayLoop` makes loop, though its comment (`sound.go:56-58`) says that it is not reset and that all its instances loop: a new instance is started, and that one loops | `sound.go:59-66` | `Mux!PlayLoop` takes a free slot |
| A callback registered after the end stays for the next sound of the slot | `mux.go:45` | `MuxSafe`, `LateCalls = TRUE`: `NoStaleCallback` |
| A seek to the very end ends the sound without its callback, which stays | `mux.go:79` | `MuxSafe`, `SeekTargets = {0, 2}`: `NoStaleCallback` |
| Looping a sound without data divides by zero | `mux.go:110` | `OnlyLoopsPanic`, first case |
| A loop with a crossfade longer than half of the sound reads past the data when it is faded out after it has gone round | `mux.go:128` | `OnlyLoopsPanic`, second case |
| A loop that has gone round, is faded out and sought back reads past the data, even with a crossfade of half | `mux.go:128` | `OnlyLoopsPanic`, last case |
| A crossfade of an odd number of samples swaps left and right | `sound.go:60` | `Mixer!Successor` with an odd `fadeOutStartsAt`: the first sample follows a left one |
| The jump of a crossfaded loop is forgotten at the end of a buffer: `loopAdjustment` is local, `pos` moves by the samples taken, and the next buffer goes back to the end of the sound, which was faded out already | `mux.go:136` | what `Follows` excepts |
| A half written slot is mixed with the old end and a new, shorter sound | `mux.go:46` | `PoolRace`, `GameThread = {game}`: `HeardToTheEnd` |
| Two goroutines that play dynamic sounds lose one, though `dynamic_sound.go:31` says "concurrent-safe" | `dynamic_sound.go:59` | `Packages`, `Parts = {"dynamic"}`, two `Thread`s: `HeardAsAsked` |
| A longer list panics on a nil handle when the pool is full | `playlist_notjs.go:39` | `PlaylistSilent`: `NoCrash` |
| Play and the end of a track at the same time leave two lists leading, or lose a handle | `playlist.go:74` | `PlaylistSilent`: `OneMusic` without its first conjunct |
| Two goroutines that play lists at the same time leave two leading | `playlist.go:55` | `PlaylistLists`, two `GameThread`s: `OneMusic` |
| A track that has ended keeps its handle; stopping it then cuts an effect short | `playlist_notjs.go:48` | `PlaylistSilent`, `Effect = {effect}`: `EffectsUndisturbed` |
| Two goroutines both find an effect not throttled | `sfx.go:34` | `Packages`, `Parts = {"effects"}`, two `Thread`s: `EffectsPlayed` |
| A variation that is throttled can be drawn, when the effect has several | `sfx.go:52` | what the throttling in `Effects!Played` excepts |
| WinMM: the callback of a header signals without the lock; if the last header under way is done between the look at the headers and the wait for one, nobody will wake the thread | `driver_winmm_windows.go:198,206` | what `KeepsPlaying` excepts (`stranded`) |
| WASAPI: if the poll is the first to notice that the last device is gone, the driver ends; the comment at line 443 would have it wait for the next | `driver_wasapi_windows.go:350` | `Windows!Poll` |
| The ready channel is closed although no device could be opened | `driver_unix.go:110` | `Alsa!Open` |
| `InitContext` cannot be called again after it failed | `context.go:65` | `Drivers!InitContextAgain` |
| Dynamic sounds go on when their channel is paused | `mux.go:88` | `DynamicSounds` has no channels |

Then Oboe (files without their prefix and `_android`):

| what the code does | where | run and change |
|---|---|---|
| A converted blocking read asks again at once when its child has timed out, and does not return until frames come, though its documentation has it end "when it runs out of time" | `FixedBlockReader.cpp:57-62` | `OboeData`, `FairSpec`: `ReadsTimeOut` |
| A filter that records may call the app again after it said Stop, within the same callback of the device | `DataConversionFlowGraph.cpp:245-264` | `Conversion!StopsImmediately` |
| The answer Stop is kept when the stream is started again | `FilterAudioStream.cpp:103-105` | `Conversion!Restart` leaves `heard` |
| A converted blocking write reports frames of the child's rate, and loses what the child does not take | `FilterAudioStream.cpp:74-82` | `lost` of `NothingLost` |
| Restoring the MMAP policy turns Always into Auto | `AudioStreamBuilder.cpp:182` | `Opening` |
| `openManagedStream` hands on an uninitialised pointer when opening fails | `AudioStreamBuilder.cpp:215-222` | not modelled |
| `stop` of a full-duplex stream, which "stops both streams" (line 148), stops the output twice and the input not at all | `FullDuplexStream.h:159` | `FullDuplex!Stop` |
| "Wrap if we run out of inputs" (line 41), but the comparison is one too late: the first output channel without an input is the first channel of the next frame, or memory behind the last | `ChannelCountConverter.cpp:44` | `Samples!Between` |
| A callback of an AAudio that does not wait for it, as `AudioStream.h:491` says some do not, calls the app of a stream that is closed, though the code counts on `close` to join it (`AudioStreamAAudio.cpp:145`) | `AudioStreamAAudio.cpp:145` | `StreamPromise!Call` where not `joins` |
| A callback that ends late writes its Stop to the flag of the next start, which then stops | `AudioStream.cpp:79` | `StreamPromise!Return` at any time |
| A stop that fails within a start is logged with the result of `flush()`, which waits for the lock the start holds; so is a failing flush of a stop | `AudioOutputStreamOpenSLES.cpp:299,407` | `"hung"` in `OpenSLStream`; the second is not modelled: clearing a queue does not fail |
| An output mixer that cannot be created closes itself under the lock that `close` takes: the thread waits for itself, with the mixer counted and not there | `OutputMixerOpenSLES.cpp:53` | `"stuck"` in `OpenSLStream`, what `SharedObjectsCounted` excepts |
| Frames that were flushed, or still queued at a stop, count as read though nobody heard them | `AudioOutputStreamOpenSLES.cpp:361-378,411-413` | `flushed` and `Written` in `ServicePosition` |
| An OpenSL ES input loses what was recorded since the last look when it is stopped | `AudioInputStreamOpenSLES.cpp` | `ReadFollowsPlay`: an input is exact until its first stop |
| Closing a stream during a callback, or just before one, leaves its hint session open | `AudioStreamAAudio.cpp:161` | `lost` in `PerformanceHint`, which `SessionsBounded` bounds |
| Three functions of ADPF are linked, and the check after each is of the first | `AdpfWrapper.cpp:50-64` | not modelled |
| `AAudioLoader::open` "should only be called from one thread" (`AAudioLoader.h:171`), yet every thread that opens a stream calls it: it returns OK as soon as there is a handle, and a second thread calls functions that the first has not linked yet | `AAudioLoader.cpp:46-52` | `fault` in `AAudioLoader`, what `LinkedBeforeCalled` allows |
| A ramp of no length divides by zero; the next ramp has a level that is no number | `RampLinear.cpp:42,56` | what `Smooth` excepts |
| A ramp reads its length twice, and another thread may set it in between | `RampLinear.cpp:55-56` | the same |
| The tuner shrinks the buffer at a glitch if the user's maximum is less than two bursts | `LatencyTuner.cpp` | `LatencyTuner!Tune` |
| The epoch of a stabilized callback is not renewed after a pause: every later callback counts as late, and no load is generated any more | `StabilizedCallback.cpp` | `Stabilized` |
| An OpenSL ES queue is to hold at least two callbacks; for the longest queues it does not, as its length is clipped | `AudioStreamOpenSLES.cpp` | not modelled |
| A full-scale sample of 32 bits loses one step more on its way through a coarser format | `SinkI*.cpp` | `SinkLoss` in `Samples` |
| A graph with two sources can process more frames than one of its inputs brought | `FlowGraphNode.cpp:33` | `OncePerPull` is stated for one source |
| A graph with a cycle brings nothing, and uses up frames of its source | `FlowGraphNode.cpp` | the same |

## Not modelled

- **Values of sound**: volumes, fades in loudness, the coefficients of the
  resampler, decoding. The loaders (`loaders/`) are sequential functions from bytes to samples.
- **Browser playlists** (`playlist_js.go`, `load_playlists_js.go`) play through
  HTML audio elements instead of the pool: what they do next depends on the
  order of events and promises of the browser, which nothing in the repository fixes.
- **A second `Load` while music plays** (`playlist.go:59`): the current list is
  then still one of the first, and nothing says what is meant to happen. Loading and
  playing are modelled apart.
- **Suspend, Resume and Err** of ALSA, WinMM and WASAPI: they
  belong to a context that `InitContext` does not give out, so that no program
  can call them. Darwin's are called by its notifications and are modelled.
- **`driver_android.go`, `driver_console.go`**: they still have the signatures of
  the library this one was forked from, and do not compile with `context.go`. The
  Oboe binding below the first is modelled; the console back ends are stubs.
- **System bindings** (`api_*.go`): calls of system functions, without state. The
  COM thread of WASAPI, the choice among ALSA's device names and the
  parameters of clients are left out with them.
- **Of Oboe**: timestamps; the getters of parameters one by one (they take one
  lock and are one action); the clipping of the size of the buffer; counters of a FIFO
  that live elsewhere; `Limiter` and `ClipToRange`, which no stream puts into
  its graph; names of values as text, traces, versions; the linking of ADPF. The clients of
  a stream are modelled each against a stream seen from outside, not together.
- **`sfx/export.go`, examples**: formatting for a code generator; programs that use the library.
- **The memory model of Go, and of C++,** beyond interleaved accesses.
- **The log of missing effects** (`id.go`), and the settings of channels other than
  the paused flag. `channel.go` loads a channel's settings, changes a copy and
  stores it: of `SetVolume` and `Pause` at the same time one can be lost, and
  the model, where each is one step, does not show it.

## Conventions

- Names are the source's where TLA+ allows it; the comment of a module names its
  file.
- A definition whose comment begins with *Variant* is a deliberate mistake in the
  definition below it: PROJECT.json uses it as a mutant, to show that a property notices.
  No specification refers to one.
- Bounds (`Ids`, `MaxFailures`, `MaxNotices`, `MaxTime`, `MaxTickets`, `MaxLength`,
  `MaxFrames`, `MaxEntered`, `MaxFaults`, `MaxClosings`, ...) are constants, named as bounds where they are
  declared, and appear in guards.
- Modules that run several parts (`Packages`, `OboeClients`) have a variable that
  says which; a property of a part says so first.
- Names that begin with `MC`, and the values at the end of Mux, only give values to
  constants.
