# Show control of Inkue: a verification project

Inkue is a cue player for live shows: a Tauri application whose Rust backend
(`src/src-tauri/src`, the root of every path below) keeps a list of cues, fires
them on GO, ticks them thirty times a second and renders sound, video, light and
MIDI.  This directory holds TLA+ modules of its show control, its audio and picture engines,
its files, its lighting, timecode and MIDI, the TLC configurations that check them on
small instances, and TLAPS proofs of the properties that matter most for instances of
any size.

Each module names the code it models in its comments, and `PROJECT.json` gives the
lines of every definition, the properties of every run, a mutation of the code that
each property catches, and the hazards.  What the code does that its documentation, or
a reader of it, would not expect is collected in section 5.

    tlc -workers 2 -config ShowControl.cfg MCShowControl.tla     # check a run
    tlapm ShowControl_proofs.tla                                 # check the proofs

## 1. Inventory

### Threads and what they share

| thread | what it does | how it meets the others |
| --- | --- | --- |
| main thread | every Tauri command (GO, Stop, edits, undo) | `lock()` on the one `Arc<Mutex<Workspace>>` |
| event loop (`show/event_loop.rs`) | a tick 30 times a second: drains statuses, ticks cues, completes them, chains Auto-Continue and Auto-Follow | `try_lock()`: the tick is given up when a command holds the workspace |
| audio callback (`engine/audio_engine.rs`) | mixes the voices | never locks: a command ring in, a status ring out |
| device watchdog (`lib.rs`) | looks at the health of the streams, reopens them or falls back to the default device | the engine's own locks |
| decoding threads | decode one file each, then install the samples | `lock()` for one call |
| render thread of an output (`engine/output_engine/`) | ticks the slots, drives crossfades, draws | the lock of a slot, let go before mpv is commanded |
| event thread of a slot | handles what its mpv player reports | as the render thread |
| timecode generator, timecode receiver | send and read MTC or LTC | a queue the loop drains |
| DMX thread (`engine/dmx_engine.rs`) | runs fades at 40 Hz, sends the universes | a channel in, a snapshot out |
| MIDI player threads (`engine/midi_file.rs`) | play one file each | told to stop or pause, never joined |
| autosave (`lib.rs`) | writes a recovery file when the revision has moved | `lock()` to serialize, then writes outside it |
| OSC server, MIDI input, frontend | what the operator and other machines ask for | they end up calling the commands |

Two consequences shape everything else.  A command is atomic for the event loop,
but a command made of two critical sections (an edit takes its undo snapshot in the
first and changes the list in the second) is not.  And everything the loop does
before its `try_lock` (it drains the completions of the audio engine first) is lost
when the lock is taken.

### Components

| component | state | operations | what makes it correct |
| --- | --- | --- | --- |
| cue life cycles (`cue/*.rs`) | state, pre-wait, clocks, the voice it owns, `auto_continue_fired` | `go`, `stop`, `hard_stop`, `pause`, `resume`, `preload`, `reset`, `tick` | a voice has one owner; a failed start is rolled back; a finite cue ends |
| transport (`show/transport.rs`) | none of its own | `go` with its chain, `go_by_id`, stop, pause and resume of one or all | a chain gives the workspace back; a panic is a panic |
| event loop (`show/event_loop.rs`) | pending Auto-Follows, freeze flag, auto-paused cues, timecode position | the passes of a tick | nothing fires twice, nothing is lost for ever, nothing ends too early |
| Group Cue (`cue/group_cue.rs`) | children, current child, bag of a random group, post-wait deadline | the life cycle, `absorbs_go`, `releases_playhead`, the four modes | a playlist plays one child; a finished group completes; the Playhead leaves it |
| cue list (`show/cue_list.rs`) | hierarchy, Playhead | insert, remove, move, group, ungroup, nest, un-nest | a tree at every moment, the Playhead on its top level |
| editing commands (`commands/cue_cmds.rs`) | decoding threads in flight | add, remove, duplicate, relink, rebuild | samples are those of the file a cue names; a removed cue falls silent |
| undo and redo (`show/undo_stack.rs`, `commands/undo_cmds.rs`) | two stacks of snapshots | push, undo, redo | one line of history, bounded |
| audio engine (`engine/audio_engine.rs`) | streams, voices, command and status rings, the published pool | play, stop with a fade, pause, resume, devamp, seek, collect, restart, the watchdog | commands in order; every ended voice reported or recovered; nothing sounds without an owner |
| output engine (`engine/output_engine/`) | slots with one player each, threads, outputs, overlay and curtain | load, reveal, stop, release, timer, text, pattern, identify, open and tear down | a picture has an owner and comes; a sound has a picture; a stopped slot is freed |
| visual cues (`cue/video_cue.rs`, `image_cue.rs`, `camera_cue.rs`, `text_cue.rs`) | the voice, pre-wait, what is preloaded | the life cycle, with slots for voices | a running cue is never forgotten by its output |
| Fade Cue and crossfade (`cue/fade_cue.rs`, `show/crossfade.rs`, `output_engine/crossfade.rs`) | targets, clock; a link on the incoming slot | start, tick, stop, hold, release, abandon | sound and picture keep step; nothing is left dim or silent; a Fade ends |
| lighting (`cue/light_cue.rs`, `engine/fixture.rs`, `engine/dmx_engine.rs`) | fixtures, running fades, the buffer, the sockets | fades, captures, blackout, send and keep alive | the latest value asked wins; a clash of fixtures is found; the lamps follow |
| timecode (`cue/timecode_cue.rs`, `engine/timecode_*.rs`, `engine/ltc.rs`) | generators, receiver, last position, triggers covered | generate, read, chase, re-arm, fire | a trigger fires once per crossing and none is passed over |
| MIDI File Cue (`cue/midi_file_cue.rs`, `engine/midi_file.rs`) | players and their threads, the tempo map | parse, start, seek, pause, rebuild, drop | no note is left hanging; a note is played at its moment |
| workspace, autosave, recovery | revision, dirty flag, show files, recovery file | open, save, autosave, clear, restore | what was edited and not saved can be recovered; a save never costs the file |
| collect and save (`show/workspace.rs`) | names taken, the map of paths | copy, rename, relativize | each cue finds its own file; nothing is overwritten |
| preferences, preflight, import, decoding, logging, frontend | their own settings | input and output | leaf components: they move no state of the show by themselves |

The behaviours that are hard here: the interleaving of commands, loop and callbacks
around one lock; completions that are dropped; two code paths (transport and loop)
that both chain Auto-Continue; a cue restarted, loaded, paused or resumed while it
owns a voice; a panic between the passes of a tick; a device that stops calling back
and one that is unplugged; players that are commanded after the lock of their slot was
let go; two clocks that must agree on one crossfade; cycles of Goto; a group whose
children are ended by three different paths; a file that is decoded while its cue is
relinked, removed, undone and redone; a save, a crash and the autosave thread; a
position that jumps back while the workspace is held; threads told to stop that still
sound.  `PROJECT.json` lists these hazards with their lines, each with the properties
that would catch it going wrong.

## 2. Modules

    CueRuntime ---- ShowControl ---- MCShowControl     (two runs)
        |               \----------- ShowControl_proofs
        \---------- GroupCue ------- MCGroupCue
                        \----------- GroupCue_proofs
    CueEditing ---- MCCueEditing
        \---------- CueEditing_proofs
    AudioEngine --- MCAudioEngine                      (INSTANCE VoicePromise)
        \---------- AudioEngine_proofs
    Overlay ------- OutputSlots ---- MCOutputSlots
                        \----------- OutputSlots_proofs
    ShowFiles ----- MCShowFiles
        \---------- ShowFiles_proofs
    CollectMedia --/
        \---------- MCCollectMedia
    Timecode ------ MCTimecode
        \---------- Clocks_proofs
    Crossfade -----/
        \---------- MCCrossfade
    Lighting ------ MCLighting
        \---------- Devices_proofs
    MidiFile ------/
        \---------- MCMidiFile

**CueRuntime** is one cue: operators from its runtime record before a call to the
record after it, for Audio, Mic and Wait Cues and the instant cues (Memo, Stop, Command,
Devamp, OSC, MIDI, Script), and what the call sends to the engine (`EngineAfter`).  Time
is three predicates a running clock makes true: `pre` (`elapsed() >= pre_wait`), `post`
and `end` (`action_elapsed() >= duration`).  A clock may reach them at any moment, so TLC
explores every relative order of the deadlines, a superset of what real durations
allow.

**ShowControl** is the transport and the event loop over one list.  `lock` says who
holds the workspace.  A command is one step, except that a GO chain is one step per
cue (`Go`, then `GoStep` under the lock) so that the callback, the clocks and the
decoder come in between.  A tick is `DrainStatus` (before the lock), then
`SkipTick` or `LockWorkspace` (the freeze guard, due follows), `TickCues`,
`ReapCompleted`, `ContinueCues`, and the GO the tick decided on; each pass is one
step, with the pass order of the code.  `VoiceEnds`, `Elapse`, `FollowDue`,
`AcceptPreloadedAudio` and `Device` are the callback, the clocks, the decoder and
the output device.  `eng` is the audio engine reduced to its promise: the state of
each voice, with commands applied in order.  `chains`, `gos` and `quiet` are
history variables; no guard reads them.

**GroupCue** is one group of `N` children in its four modes, with the part of the
transport and the loop that concerns it.  `here` says whether the Playhead is on the
group.  The body of a call is a composition of operators on one stage (group,
children, engine), because `go`, `tick` and `reset` call one another in the code.
A child's voice is identified with the child.

**CueEditing** is the list being edited: the hierarchy, the Playhead, the file and
the samples of every cue, the decoding threads, both history stacks.  `busy` is the
gap between the snapshot of an edit command (`BeginEdit`) and its change: GO and
undo run on the main thread like the edit and cannot fall in it, the event loop and
the decoding threads can.  `orphans` are the voices the last step left with no cue
that owns them.

**AudioEngine** is what ShowControl's `eng` stands for: a main stream and one auxiliary
stream, each with a published pool of voices, a command ring that the callback drains
command by command, a status ring the loop drains, the snapshot of the pool a callback
loaded when it began (`at`, `snap`), the collection of finished voices (`gc`, in two
steps because the loop reads and then publishes), and the watchdog that reopens a
stream, falls back to the default device and comes back from it.  A play is two steps
(`ctl`): the voice is published first, the command sent after.  `released`, `leaked`
and `unheard` are history: which voices were resumed, whose silencing command was lost,
and whose end the cue heard of too early.

**VoicePromise** is the abstract specification of a voice: how it sounds and the
requests that are on their way to it.  It has no streams, rings, callbacks or
snapshots.  The refinement mapping in `AudioEngine` (`Promise`) takes the commands
for a voice out of the ring of the stream it lives on; `PromiseKept`, a property of the
run `engine`, says that every step of the engine serves the oldest request of a voice,
forgets one, ends the voice, collects it, or is no step of the voice at all.

**OutputSlots** is the picture side: Video, Image, Camera and Text Cues, the slots of
each output, the overlay, and the threads.  `slot` is what is changed under the lock of
a slot; `mpv` is the player, which is commanded after the unlock: `hand` is what a
thread has yet to do to it.  `sound` is the audio voice of a video, `config` the outputs
the show has, `output` those that exist, with their opening and their teardown on
threads of their own, `status` the reports the loop has not drained.  **Overlay** has
the operators on the overlay of an output: text, timer, pattern, identification, the
curtain, the surface the player has and the one the output believes it has.

**Crossfade** is Fade Cues over the same pictures, without the queueing of the slots:
the Fade's own clock on the loop's ticks, the link on the incoming slot whose clock
starts with the first frame, and what holds, releases, overtakes or abandons it.  A
handler is an operator from a *world* (fades, pictures, slots) to the world it leaves, and
the loop's pass folds these over the cues in their order.  `past` is history: the exceptions
its properties name.  `Clocks_proofs` extends this module and Timecode.

**ShowFiles** is the show in memory and its files: a save (write beside, rename, clear
the snapshot) in its steps, Collect and Save's copy, the autosave thread with the lock
let go between its look and its write, the recovery dialog, a clean exit and a crash
at any step.  What a show contains is a number, its *work*, so that later work is told
from earlier.  `past` is history.  **CollectMedia** is the copying itself: names, the
numbers that make them unique, the map of paths, and the project opened elsewhere; its
specification is called `CopySpec`, for `ShowFiles_proofs` extends both modules.

**Timecode** goes from the cue and its generator threads over the wire, piece by piece,
to the receiver and the loop, which drains positions, re-arms after a jump back and
fires; it tries the lock three times in a tick and each may fail on its own.
**Lighting** goes from the patch, the Light Cues and the desk over the engine's channel
to its 40 Hz thread, the buffer, the socket and the lamp at the other end.
**MidiFile** has the parser as a pure operator (`Parse`), the cue with its clocks, and
the player threads, of which several may be alive on one instrument.

**MC...** modules give shows, groups, devices and files to TLC, and where a module's
properties rest on them, the properties.  **..._proofs** hold the theorems.

Definitions called "Mutant of ..." are plausible mistakes in the code: they stand
beside the definition they would replace and no other definition uses them.

A *trial* (`AudioEngine`, `OutputSlots`) is a record of what a behaviour may meet: the
cues, the calls made besides GO and how many, the devices that may be lost.  One run
then covers several instances, each small, instead of their product.

## 3. What is checked

| run | states | shows |
| --- | --- | --- |
| `show_safety` | 1.5 M | six three-cue shows, one with a vamp and a Devamp, GO, panic, pause, resume, a device that comes and goes: voices stay owned (`VoiceOwnership`), an endless voice, the microphone's included, stays within reach of Stop All (`LoopReachable`), transport and loop between them chain a play on no more often than it is given a GO (`AutoContinueOnce`), a panic holds (`PanicHolds`) |
| `show_live` | 120 k | every GO gives the workspace back (`ChainReturns`), a finite Audio Cue ends though its completion was dropped (`FiniteCueEnds`), an Auto-Follow is honoured (`FollowFires`) |
| `group` | 40 k | six groups of three children: one child of a playlist at a time and no endless voice out of reach (`GroupSafety`), `PlayheadMovesOn`, `TickCutsNothing`, `GroupEnds` |
| `editing` | 192 k | two edits of any kind on a list with a group, those that are refused and lose the cue in hand included, undo, redo, GO, decoding: `ListIsSound`, `PlayheadTopLevel`, `SamplesMatchFile`, `RearrangingKeepsCues`, `RemovalSilences`, `HistoryIsWalked` |
| `engine` | 516 k | a voice of each kind, two control calls, devices lost: nothing plays unowned, ends are reported, nothing paused is heard (`EngineSafety`); the engine implements VoicePromise (`PromiseKept`); the watchdog brings a stream back (`StreamReturns`) |
| `output` | 286 k | five pairs of visual cues on one output or two, one of which comes and goes: pictures, sounds and texts have their owners and their surface, and a running cue is on an output, or its end is reported or was lost in one of three ways (`OutputSafety`), what waits for its first frame is shown or given up (`PictureComes`), what is stopped frees its slot (`StopFreesRevealed`) |
| `fade` | 129 k | a dissolve across two outputs into a slow picture, and a Fade that darkens it: sound and picture keep step and nothing is left dim (`FadeSafety`) or silent (`SoundComes`), Fades end (`FadeEnds`) |
| `files` | 387 k | two files, two changes, two shows in hand, a crash at any step: unsaved work is in the snapshot and what a crash left stays (`SnapshotSafety`), a save never costs the file (`SavesAreWhole`), the snapshot follows the show and goes when it is overtaken (`SnapshotFollows`) |
| `collect` | 99 k | every show of up to three media among six places, with every set of files there: `CollectIsSafe` |
| `timecode` | 325 k | MTC and LTC, one edit, setting or loss, a receiving thread that outlives its replacement, ticks that are given up: frames are read as sent and no key is lost (`TimecodeSafety`), triggers fire once and none after the first frame of the day is passed over (`TriggersKept`), each round of the day fires them again (`RoundsFire`) |
| `lighting` | 57 k | a dimmer and a head with a 16-bit pan, two shows, packets lost and sockets bound anew: `LightingSafety`, `LampsFollow` |
| `midi` | 634 k | two player threads of one cue on one instrument: no note hangs (`NothingHangs`), one thread means to play (`PlayerIsTheCues`), silence after a stop (`FallsSilent`); the tempo map of every score of two tracks against its definition (`TempoMapKept`) |

Properties that need one another to be read are conjunctions of named parts
(`EngineSafety`, `OutputSafety`, `FadeSafety`, `SnapshotSafety`, `TimecodeSafety`,
`TriggersKept`, `LightingSafety`, `GroupSafety`, `ListIsSound`, `CollectIsSafe`,
`TempoMapKept`); the type invariant of a module is one of the parts.  In ShowControl its
`steps` is the bound of the GO chain, in CueEditing its length conjunct the bound of the
undo history.

### Bounds, and why they are enough

* `N = 3` cues in `show_safety` (a chain needs a cue, the cue it fires and one to
  land on), `N = 2` in `show_live`.  The shows are chosen so that each pairs the
  features that interact: an endless cue with a late Auto-Continue and a soft stop;
  a pre-wait with Load; a Goto cycle; an Auto-Follow with Start and Reset; a Mic Cue
  with and without its device, chained and loaded.
* `Voice`: as many as cues.  A cue takes any identifier that no other cue remembers
  and whose sound has ended, so three identifiers are never exhausted by three cues
  unless faded-out voices are still audible, and then the GO waits for one.  In the
  code identifiers are never reused; reuse after silence is indistinguishable to the
  properties and keeps the model finite.  The voices are symmetric in `show_safety`;
  the liveness run uses no symmetry.
* `MaxChain = 4` or 3 for the code's 1000: a cycle over two cues passes any bound,
  so what is seen is what a chain does at the bound and below it.  The proofs are
  for every bound.
* `MaxCount`, the bound of `chains` and `gos`, is 3 in `show_safety`, one more than a play
  needs for a GO that is ignored, and 2 in `show_live`.  Both stop counting there; the proof
  is for every bound from 2 on.
* `Operator` names the commands of a run.  `show_safety` has GO, panic, pause and
  resume; `show_live` has the commands on single cues and Stop All.  Between them
  every action of the module fires.
* `DeviceLoss` lets the device stall at any moment in `show_safety`; the live run
  has a device that works, since a voice on a dead device ends by its clock only.
* `MaxPresses = 4` operator commands on a group of three children: enough to fire
  every child, and to pause, stop or restart in between.
* `MaxUndo = 1` for the code's 50, `MaxEdits = 2`: two edits overflow the history,
  and undo, redo and a new edit meet.  `Cue = 1..4`: three cues at the start and one
  identifier for a cue that is added, duplicated or made by grouping.
* `engine`: one voice, because the pool, the rings and the streams treat each voice
  alone and its hazards are between its own commands, its end and a restart; the other
  voices appear as the space in the rings, which take one or two commands for the code's
  256 (so that a full ring is met) and one completion.  `RetryEvery = 2`: the watchdog
  retries on one tick and not on the next.
* `output`: one slot for each output (so that two cues meet on it), two loads, up to four
  calls besides the GOs.  `fade`: `Span = 2`, a step that is neither the start nor the end.
* `files`: two changes and two shows give two shows of the same revision; two sessions, so
  a crash and what the next session does with it.
* `collect`: names that clash need two media, a name that is numbered already a third.
* `timecode`: a day of a few frames, so that it wraps; `MaxEvents = 1`: one edit, setting
  changed or message lost, against every position of the clock and of the loop.  Two threads
  of the receiver: the one that missed the flag and its replacement.  (Each further change
  of settings could leave one more; they differ in nothing.)
* `lighting`: `Levels = 3` is the least at which a byte can be rounded; a universe of four
  slots has a fixture at its end and two that overlap.  `Numbers = 4`: the sequence wraps.
* `midi`: two threads are a player and the one it replaced; `Horizon = 3` is past the end of
  both scores.  Scores: two tracks of two events and an end, every order of notes and two tempos.

### Fairness, and why the code justifies it

Nothing is assumed of the operator, of devices that come and go, of the network or of the
disk, beyond what is named here.

* `ShowControl!Fairness`: a GO chain and a tick that has the lock run to their end
  (weak fairness: they are straight-line code); time passes and voices end (weak).
  `DrainStatus` and `LockWorkspace` are strongly fair: the loop runs thirty times a
  second whatever the operator does, a command holds the lock for milliseconds and
  nothing synchronises it with the loop, so neither the start of a tick nor its
  `try_lock` falls inside a command for ever.  How often a single tick is given up is
  open.  `GroupCue!Fairness` says the same of the one step its tick has.
* `AudioEngine`: the callback of a stream that lives, the loop and the second half of a
  play are weakly fair; `Watchdog` strongly, since it is a thread that wakes every two
  seconds whatever the devices do meanwhile.
* `OutputSlots`: threads do what they have in hand, players open or refuse a file and show
  its first frame, time passes, the loop drains its reports: weak, the threads' steps for
  each slot and thread, the window's for each output.
* `Crossfade`: time passes, first frames come, the render thread drives its dissolves and
  lets go of what is stopped and dark (weak).  The loop's two passes and the end of a
  pre-wait are said in `[]<>`: those actions are also taken at the operator's pace.
* `ShowFiles`: commands end (weak); the autosave thread's `Look` is strongly fair because it
  takes the lock between commands, `WriteLands` because a disk that refuses some writes does
  not refuse them all (else `WorkIsKept` says nothing).
* `Timecode`: a running generator sends, the loop drains and fires (weak); strongly fair are
  the ticks that find the workspace free, at a jump back, at a crossing and at a firing.
  It is the assumption on `try_lock` above, stated for the moments at which it matters.
* `Lighting`: the thread and the holder of the workspace go on (weak); `Taken` strongly: the
  network does not lose every packet that the receiver would have taken.
* `MidiFile`: threads, the loop's tick and completion, the seek command, and time (weak).

## 4. What is proved

| theorem | statement |
| --- | --- |
| `TypeCorrect` | `Spec => []TypeOK` in ShowControl, for every list, show, set of voices and chain bound |
| `VoicesHaveOneOwner` | `Spec => []VoiceOwnership` |
| `ContinuesOnce` | `Spec => []AutoContinueOnce` |
| `PanicStaysQuiet` | `Spec => []PanicHolds` |
| `EndlessWithinReach` | `Spec => []LoopReachable` |
| `GroupIsSafe`, `PlayheadGoesOn` | `Spec => []GroupSafety` and `Spec => []PlayheadMovesOn` in GroupCue, for every number of children and every set of groups |
| `TicksCutNothing` | `Calm => (Spec => TickCutsNothing)`, an action property, likewise; `Calm` excludes playlists with a pre-wait or with post-waits, of which it is false |
| `SamplesAreOfTheFile` | `Spec => []SamplesMatchFile` in CueEditing, for every number of cues, files, edits and undo levels |
| `ListStaysSound` | `Spec => []ListIsSound`, likewise and for every initial forest and every operator |
| `PlayheadStaysTopLevel`, `UndoWalksHistory` | with neither `"group_playhead"` nor `"ungroup_playhead"` in `Operator`, `Spec => []PlayheadTopLevel` and `Spec => HistoryIsWalked`, an action property |
| `RearrangingLosesNothing`, `RemovedCuesAreSilenced` | `Spec => RearrangingKeepsCues` and `Spec => RemovalSilences`, action properties, for every operator |
| `OutputsAreSafe` | `Spec => []OutputSafety` in OutputSlots, for every number of cues, outputs, slots of an output and loads, and every trial |
| `SnapshotIsSafe` | `Spec => []SnapshotSafety` in ShowFiles, for every number of files, changes, shows taken in hand and sessions |
| `SavesKeepTheFile` | `Spec => SavesAreWhole`, an action property, likewise |
| `CollectingIsSafe` | `CopySpec => []CollectIsSafe` in CollectMedia, for every set of shows and of disks, every folder of the project, with case folded or not |
| `EngineIsSafe` | `Spec => []EngineSafety` in AudioEngine, for every set of voices, size of the rings and trial |
| `EngineKeepsPromise` | `Spec => PromiseKept`: AudioEngine implements VoicePromise, likewise |
| `NoNoteHangs`, `OnePlayer` | `Spec => []NothingHangs` and `Spec => []PlayerIsTheCues` in MidiFile, for every set of threads, files, scores and horizon |
| `LightsAreSafe` | `"cart" \notin Firing` implies `LightSpec => []LightingSafety` in Lighting, for every universe, set of fixtures, layouts of one slot or two, cues, groups, shows and calls |
| `FadesAreSafe`, `SoundsCome` | `OneFadeEach` implies `FadeSpec => []FadeSafety` and `FadeSpec => []SoundComes` in Crossfade, for every finite set of pictures, list of Fades, plan, outputs, pre-waits, length of a fade, voices and calls; `OneFadeEach` says that no two Fades dissolve into the same picture |
| `SentAndRead`, `TriggersFireOnce` | `Spec => []TimecodeSafety` and `Spec => []TriggersKept` in Timecode, for every base and number of pieces, day, list and set of triggers |

The assumptions are the named ones of the modules: the list is `1..N`, the shows are
well-typed, `NoVoice` is no voice, the bounds are positive, the lists a behaviour
begins with name the files their samples came from, `NoPath` is no path, the groups are
well-typed and their children are `1..N`, a day fits the pieces that carry a position,
`NoThread` is no thread, a Light Cue and a group name fixtures that there are, with values in
range and addresses from 1 (`LightingAssumption`), the cues of a list are finitely many and it is a forest of cues
in use at the start (`SeedsAreTrees`), `"label"` is no cue, only a Video Cue has sound, and a disk has finitely
many files, no two of them under names that are the same there (`Given`), and the pictures
are finitely many, with plans that name only them (`CrossfadeAssumption`).

*Voices.*  `VoiceOwnership` is not inductive: a failed start puts a cue back to
Standby and leaves its voice alone, so one must know that a cue with a voice is
decoded and cannot fail (`OwnedIn`).  A start takes a voice nobody else remembers,
which keeps owners apart (`ApartIn`).  The lemmas about
`After` in the first part of `ShowControl_proofs` say what each call of the trait
does to a record of the right type; every action is then a call on a set of cues
(`RtAfter`), and the invariant is preserved by calls once, not once per action.

*Auto-Continue.*  A GO that is chained on is counted in `chains`, a GO on the cue in `gos`.
The loop looks at `auto_continue_fired`, the transport sets it and never looks: it chains on
every GO that comes, the one the cue ignores too, but only as it gives that GO.  `FlaggedIn`
says, besides the property, that a running cue has been given a GO and that a play that was
chained on has its flag set: the loop, which looks, adds the first chain of a running play or
none; and a play that begins or is over starts both counts and the flag anew.

*Panic.*  The lock is what makes it hold: no GO is in progress and no pass of the
tick is between deciding on a GO and firing it while a panic takes the lock
(`LockInv`), and with `quiet` there is no GO due and no follow pending (`QuietInv`).
An Auto-Follow that waited when the panic came does fire later; the property says so.

*The reach of Stop All.*  A cue may leave an endless voice only by stopping it.  Three
facts say so: no cue is in a pre-wait that it does not have (`PreIn`); a cue that holds an
endless voice holds one that the loop will not take for ended, and that does not play while
the cue is paused, whom the loop might reset (`HeldIn`); and an endless voice that plays is
remembered by somebody (`KeptIn`).  The last two fail of a cue that forgets voices
(`ForgetsVoices`, section 5), and are stated for the shows without one.

*Groups.*  A call on a group is a composition of operators on stages, and the proof follows
it: `ChildSound` is what one child keeps under each call that may be made on it, `DoSound`
carries it to a set of calls, and from there each operator (a firing, a stop, a tick, the
end of the pass) is shown once to keep `Sound` and `Alone`.  `Sound` is needed because a
child is reset without a word to the engine: that this strands no endless voice rests on
where the code does it (a child that is over by its clock has none that is endless, one that
is on standby or paused has none that plays).  `Alone` says more than the exclusiveness it
implies: unless a GO is awaited, what a playlist plays is the child the sequence has come
to, so that the firing that follows that child's end finds nobody to stop, which is the
third theorem.  The Playhead is on the group only if the group has a child to fire
(`NotPassed`), whatever the group's state: a pause in between changes nothing.

*The engine.*  `EngineSafety` looks at the end of every ring, so the invariant must look at
all of it: every command that starts a voice nobody holds is followed by one that silences
it (`Accounted`), the last word on a voice that was submitted paused is not a start
(`Unreleased`), what the callback has in hand is in the pool or gone (`Snapshots`), a
completion is of a voice of its stream (`Reports`).  The refinement is proved from the same
invariant, one lemma for each action: each serves the oldest request of the voices it
concerns, and is no step of the others.

*Timecode.*  What is read is what was sent because the pieces that came in order are those
of the frame whose next piece is on its way (`Reading`), and because a position is
determined by its pieces: the lemmas on positional numbers, proved by induction over the
naturals in the form of least elements.  Triggers are squeezed between two facts: what has
fired lies behind both the position and the mark (`Covered`), and what lies behind either
has fired, is about to, or has its reason not to (`Accounted`).

*MIDI.*  `NothingHangs` and `PlayerIsTheCues` need one another: a rebuild drops the player
it knew of, and that it is the only one that means to play on is the second property;
`CueStates` says in which states of the cue there is one.

*Samples.*  Undo brings snapshots back, so the invariant must speak of every snapshot
of both stacks, and a decoding thread must be known to carry a file, not a cue's
present file: `AgreementInv`.  The step that needs the code's check
(cue_cmds.rs:1029, `StillWanted`) is `DecodeDone`, and only that one.

*The list.*  `ListIsSound` is about one hierarchy, but an undo may bring back any that is
recorded: `TreeInv` asks of the list and of every snapshot (`Recorded`) that no cue has two
places, that everything in it hangs from the root, that what does not hang from it has no
children, and that its cues are in use by the *present* kinds.  That there is no cycle
follows: what is below the root is the least set that is closed under children (`Below`),
so a hierarchy in which some closed set has no cue twice is a tree (`Fits`), and each edit
is proved by naming such a set after it.  The lemmas on sequences (taking out, putting in at
an index, duplicating) are about `Without`, a recursive function, by least elements.
`ParkInv` follows the Playhead through the same snapshots.  Both exceptions in the theorems
about it are commands in which the code itself breaks the property (section 5): grouping over
the Playhead and an ungroup of a cue there that is no group.  A refused command is an edit as
any other, whose result is the list without the cue that was taken out.  Of `RemovalSilences` the heart is that a stop
reaches what is below the removed cue as long as every group on the way runs, which is
again said of a closed set.

*The outputs.*  `OutputSafety` is proved from `SlotsInv`: the types, `PictureInv`,
`CurtainIsUp` and `TextInv`.  A slot is changed under its lock and its player after the
unlock, so most of `PictureInv` is about what a thread has in hand.  Loads are numbered
(`Numbered`) and each is of one cue and one slot (`Single`), so a message or a task that
carries a number is about that load whatever happened to the slot since; what was reported
ended is on no slot (`Settled`).  A reveal under way resumes a sound only if the slot still
plays that load with its sound (`RevealFits`); an unload under way has the sound with it
(`UnloadFits`); a slot that is being released has no owner and no sound any more
(`Disowned`, `Hushed`), else its release would strand them; what is held back is of a
preloaded cue (`HeldBack`), which a GO shows.  An output that opens becomes live with its
slots as they are, so they must be empty (`Vacated`).  The property of the runs speaks of
running cues; that a cue is accounted for must hold of paused ones as well (`Accounted`),
because a Resume makes them run without a load, and likewise a text that is up stays seen
while its cue is paused (`ShownIsSeen`).  A GO on a Text Cue puts other texts to rest before
it shows its own: the texts are proved across that middle state (`TextsAre`, `Keeps`).

*The snapshot.*  `CaughtUp` speaks of a thread at rest, and is not inductive: what the
thread will note when its write lands was decided at its look, and the show may have been
changed, saved, replaced or closed since.  `NotesInv` says what every note is worth: a
revision the thread has noted of the show in hand is not ahead of the show's, the snapshot
in its hand is of the revision it will note, and where both are the show's own the
snapshot is the show.  `OwedInv` follows the debt of a crash from the file to the dialog,
to the restored show and its changes: as long as something is owed, it is in the snapshot,
and the thread, which clears only what it wrote for a show that has since been saved, is
not about to clear it.  `BoundInv` keeps the main thread, the dialog and the process in
step (a process that is down is in no command).

*Collecting.*  A copy goes to a place with no file: each number that is not available is
so because of a file of its own, named with it (`Noted`: a name is noted as used once there
is such a file), and there are fewer files than numbers to try.
So no copy changes what a path leads to, and what was mapped keeps leading to the content
the medium had (`Led`); a medium that is no longer to be collected was mapped, or was not
there (`Seen`).  A file that is found in its place is not copied onto itself; it is in the
project already, which is all that the property asks.

*Light.*  `LatestWins` looks at a parameter at rest, so the invariant says where a value that
was asked is on its way there (`Aims`): if the caller has yet to submit an order for the
slot, the last of these is the value; if not, the last one in the channel is; if there is none,
the fade of the slot runs to it; and without a fade the slots hold it.  Each of these hands it
to the next, and at each a fade of another parameter could write over it: `Clear` and `Apart`
say that none does, which is what `Promised` asks when the value is asked for and what
everything asked later keeps, because it takes the promise away from what it clashes with.
That a frame writes each slot once, whatever the order of its map, follows (`AdvancedIs`), and
that a fade ends on its target (`NowIs`, and `BytesAre` for the rounding to a byte).
`FollowInv` is the same argument about the last order of a kind in the channel.  What a list
of targets comes to is proved only as far as it is a list of fades (`FlattenIs`): the invariant
holds of any list.  The theorem excludes `go_cue` ("cart"), which asks and submits nothing
(section 5).

*Crossfades.*  The loop's pass is three folds over the cues (the ticks, the crossfades that
wait, the stops that were queued), each in an order that matters, so the invariant is a
predicate of worlds (`FadesSafe`) and holds between any two cues of each: each operator is
shown once to keep it, each fold by induction over the cues in the form of a least element,
and an action follows from `Becomes`.  `InStep` compares two clocks; what makes
it inductive is `Together`: Fade and link are paused together, and until the Fade has seen
the first frame the dissolve has been driven for all the time since it started, which is
what the clock of the Fade is then set to.  A pause in between breaks just that
(`past.late`).  A Fade whose link is gone has seen the dissolve to its end or has yet to be
told (`StepIn`), and the picture it dissolves into has a link from nobody else (`AloneIn`):
here two Fades into the same picture would come in (section 5).  For the sound, whoever
silenced it still has it in hand, or is about to link it again (`SoundIn`, whose last case
is needed only between the ticks and the crossfades of one pass), and a Fade that is done has
brought it to the end (`DoneIn`).  For the pictures, what is dim is dissolved on its own
link or apart by another (`DimIn`), because a link that goes gives back what it took.  The
rest says which voices belong to which cues (`PicsIn`, `VoicesIn`), what a clock may look
like (`LinksIn`) and that history has recorded what the Fades drive (`HistIn`).

Only model-checked: everything that is liveness (out of the prover's reach), and with it
the fairness arguments; and one invariant: what `Parse`, a fold over a score, computes
(`TempoMapKept`) is induction over data, and out of the prover's reach.

## 5. Where the code does otherwise

Modelling met places where the code does what a reader, or its documentation, would not
expect.  Each is kept out of the way of the properties by name: an instance that leaves
it out, a history variable, or a disjunct of the property that says so.

| where | what the code does | in the models |
| --- | --- | --- |
| audio_cue.rs:610 | `duration` ignores slices: a cue that vamps until a Devamp is completed by the wall clock and its voice loops on with no owner | `ForgetsVoices`, an exception of `LoopReachable` |
| audio_cue.rs:510, mic_cue.rs:248 | GO on a paused cue with a pre-wait keeps the old voice, a Resume in the pre-wait sounds it, and the tick then overwrites its identifier: an endless voice is lost | `ForgetsVoices`, an exception of `LoopReachable` |
| event_loop.rs:509 | the freeze guard acts on the edge of a freeze: a cue fired during it runs its clock out with its audio still queued | no property of ShowControl speaks of a frozen timeline |
| wait_cue.rs | a Wait Cue does not keep `auto_continue_fired`: the loop fires a GO on each tick while it runs | `AutoContinueOnce` is about the cues that keep the flag |
| transport.rs:356 | an Auto-Follow that was pending at a panic fires after it | said in `PanicHolds` |
| group_cue.rs:242 | in a random group the current child is cleared by one of the three ways a child ends: the group may run for ever | no instant child in the random groups of the run |
| group_cue.rs:286 | a GO during a post-wait does not cancel it: the deadline cuts the child that GO started | no child with both a voice and a post-wait |
| group_cue.rs:244 | a paused playlist with a pre-wait that gets GO, and a Resume before the pre-wait is over: the end of the pre-wait cuts the child that was resumed | `Calm`, the condition of `TicksCutNothing`; no such playlist in the run |
| cue_list.rs:596 | grouping the cue at the Playhead nests the Playhead, and GO is dead until it is moved | `group_playhead` is not among the operations of the run |
| cue_list.rs:642-652, 674-687 | a cue is taken out before the command knows whether it can go on: an ungroup of what is no group, a cue dropped on what is no group or is gone, and a group dropped on a group inside it are refused and lose the cue, with all it holds; the Playhead stays on an ungrouped one | `UngroupRefused`, `AddRefused`, said in `RearrangingKeepsCues` and `RemovalSilences`; `ungroup_playhead` is not among the operations of the run |
| transport.rs:263-276 | the transport marks a cue as chained on and never looks at the mark: a GO on a running cue with Auto-Continue is ignored by the cue (audio_cue.rs:439), and fires the next one again | `AutoContinueOnce` compares with the GOs |
| undo_cmds.rs:64 | undo to a snapshot taken during a decode leaves a cue with no samples and no thread to bring them | no property asks that a cue be decoded |
| audio_engine.rs:1140 | a restart replaces the rings: a command to silence a voice that waited there is lost and the voice plays on | `leaked`, an exception of `NoOrphans`; VoicePromise lets requests be forgotten |
| audio_engine.rs:942 | a pause goes to the main stream only, a resume to every stream | `Home` and the commands; VoicePromise promises order, not service |
| event_loop.rs:417 | what the outputs report is drained before the lock is tried: a tick that gives up loses the end or the withdrawal of a picture, and a cue without a duration runs on for ever | `past.unheard`, an exception of `RunningIsAccounted` |
| output_engine/slot.rs:660, 673 | a file that mpv refuses at once (or a path with a NUL in it) is logged and no more: the slot is taken, nothing is ever shown, and the cue runs | `past.refused`, an exception of `PictureComes` |
| output slots | a file that mpv cannot play is not noted by the loop; a reveal under way when a stop comes lights the layer again | `past.failed`, `past.raised` |
| overlay.rs:283, 295 | clearing a pattern closes the curtain over whatever runs below and takes the surface of texts; a panic stops the player and keeps the flags, so that later texts are not seen | `past.shut`, `Stripped` |
| cue_cmds.rs:1275-1318 | identifications share one generation number: a second one leaves the label of the first on its output | `past.left` |
| text_cue.rs:232 | stopping a Text Cue clears whatever text is shown; a timed one that is over leaves its text | `past.covered`, `past.left` |
| traits.rs:439 | the default `preload` is GO and pause: it shows a Camera or a Text | modelled as it is |
| event_loop.rs, fades | a Fade that is over may be reaped before its last tick has set its levels or stopped its targets | `past.missed` |
| show/crossfade.rs:233, fade_cue.rs:208 | a dissolve that is over before a tick of the Fade saw it, with nothing left to take away, has dropped its link: the Fade links the picture again, whose sound is at nothing by then, and brings it back to that | `past.dull`, an exception of `SoundComes` |
| output_engine/slot.rs:900 | two Fades may dissolve into the same picture: the second link replaces the first, whose Fade reads the clock of the other | `OneFadeEach`, the condition of `FadesAreSafe` and `SoundsCome`; one such Fade in the run |
| output_engine/slot.rs:736 | a stopped slot is released when it is dark, and a crossfade that is given up, or a Fade, may light it again before: the stopped picture then stays on the output until something takes its slot | modelled as it is (`Released`); no property says that a stop of one is followed by its release |
| cue_list.rs:167-171, 222 | "`0` means nothing has been covered yet, so every trigger is still armed", but what fires lies in `(0, position]`: a trigger at 00:00:00:00 never does | `CanFire`, said in `CrossedAreAccounted` and `RoundsFire` |
| timecode_receiver.rs:251-262 | the flag that ends a receiving thread is raised for 50 ms, and the thread looks at it every 50 ms: it may miss it and report beside its replacement for good | modelled as it is; no trigger fires twice for it (`FiresOnce`) |
| timecode_cue.rs:262 | the reset of a Timecode Cue (its end, for one) forgets the voice of its LTC without stopping it: the voice stays in the engine's pool, silent | the voice is not modelled |
| lib.rs:305 | the thread compares revisions, and two shows may have the same one: it then takes one for the other, after a write that failed too | `Confused` in the properties of ShowFiles |
| workspace.rs:560 | the show file of Collect and Save is written in place: a crash leaves it torn | said in `SavesAreWhole` |
| transport_cmds.rs:185 | `go_cue` makes its context with the workspace held, so the `try_lock` in it finds nothing: a Light Cue fired that way (from a cart) knows no fixtures | `Firing` has "go" and "loop"; "cart" is a parameter |
| midi_file_cue.rs:296 | a seek starts the new player before the old one is paused, both on one port | modelled as it is: an exclusive port refuses the new one |

## 6. What is abstracted, and what is not modelled

* ShowControl's passes are atomic each; between two of them only the callback, the
  clocks, the device and the decoder's own lock-free work can come, because the loop
  holds the workspace.  GroupCue's tick is one step for the same reason, and its
  clocks therefore do not move inside one tick.
* GroupCue identifies a child's voice with the child, so a voice forgotten at a restart
  (audio_cue.rs:510, section 5) is in it the voice of the new play.  A group resumes no
  child in its pre-wait, so the old voice of a child stays paused.
* ShowControl's engine applies a command at once; AudioEngine shows what may come in
  between, and VoicePromise what a cue may rely on all the same.
* A call of ShowControl finds room in the engine's command ring.  It is full when 256
  commands wait behind a device that has stalled; the GO is then rolled back
  with its voice published (audio_engine.rs:556-598, 1181), a stop has forgotten its voice.
  AudioEngine has the full ring, and `leaked` what it costs.
* `StreamReturns` is about the times when no fallback is in force; in one the watchdog waits
  for the configured device, which may never come.
* `show_live` has neither pause nor resume: an operator who pauses a cue does not
  promise to resume it.
* `quiet` ends with any command of the operator except moving the Playhead.
* `GroupEnds` does not speak of a Running group that has fired nothing, which a
  Resume of a stopped group makes; the passing groups have no Auto-Follow on a last
  child without a voice (group_cue.rs:259: the chain runs off the end).
* `RemovalSilences` is about cues whose enclosing groups all run; a cue started on
  its own inside a Standby group sounds on when the group is removed (cue_cmds.rs:917).
  Nor does it speak of Undo and Redo, which rebuild every cue and forget what plays, or of
  refused commands.
* In MidiFile's scores notes are alike: how many are due when is compared, not which.
* In the pictures time is a choice: a file ends, a fade lands and a deadline passes when
  they like.  Geometry, opacity between dark and lit, and every frame but the first are
  left out.  Crossfade has no pauses of pictures, no preloads, no stops with a fade of their
  own and no fades of length 0; OutputSlots has no
  fades between pictures.
* Left out of ShowControl: seek, the end-of-file fade, edits of a running cue, groups
  in the list, OSC feedback, more than one list, the double-GO guard.  Left out of
  GroupCue: nested groups, preload, Auto-Continue flags of the children as the loop sees
  them, edits of the children, a Playhead set on the group again.  Left out of CueEditing:
  numbering, triggers, names, batch edits and the clipboard, levels, the set of cues being
  loaded.  Left out of AudioEngine: samples, gains, level matrices, the scanning of
  devices.  Left out of Lighting: editing of fixtures, the DMX monitor, packet layout.
* Not modelled at all: preferences, preflight, the QLab import, codecs, logging, the
  frontend.  They read or write files and display state; what they may ask of the rest
  is what the models enumerate.  `PROJECT.json` has the reason for each.
* Out of reach of these tools: what OpenGL draws, the timing of real threads, the
  arithmetic of audio samples.

## 7. Plan

Done, in this order: CueRuntime, ShowControl with its proofs, GroupCue, CueEditing with
its first proof; AudioEngine and its refinement of VoicePromise; OutputSlots and Overlay;
Crossfade; ShowFiles with its proofs, CollectMedia; Timecode; Lighting; MidiFile; Mic, OSC,
MIDI and Script Cues in ShowControl; the proofs of AudioEngine, MidiFile, Timecode and
GroupCue, and that of `LoopReachable`; the other proofs of CueEditing; those of OutputSlots,
of CollectMedia, of Lighting and of Crossfade.

Next, by importance:

1. Nested groups: groups as children in GroupCue and as cues of ShowControl's list
   (`absorbs_go` and `releases_playhead` in the chain).
2. Seek, and edits of a running cue, in CueRuntime; the clipboard and batch edits in
   CueEditing.
