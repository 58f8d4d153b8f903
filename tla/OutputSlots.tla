---------------------------- MODULE OutputSlots ----------------------------
(***************************************************************************)
(* The picture side of a show: Video, Image, Camera and Text Cues, the slots *)
(* (one mpv player each) and the overlay of every video output, and the     *)
(* threads that meet there: the control threads (commands and event loop,   *)
(* one at a time under the workspace lock), the output's render thread,     *)
(* which ticks its slots, the slot's own event thread, which handles what   *)
(* mpv reports, the thread of the timer, the cleanup of an identification,  *)
(* and the teardown thread of an output that left the show.                 *)
(*                                                                          *)
(* A slot's state is changed under its lock and mpv is commanded after the  *)
(* unlock: the render and event threads do it in two steps here (hand).  A  *)
(* control call is one step.  Pictures and times are abstracted: a layer is *)
(* dark, lit, or on its way; a file ends when it likes.  Every cue has a    *)
(* file.  Bounds: LastVoice loads, trial.calls calls besides the GOs, SlotsPer *)
(* slots (8 in the code), all created at the start.                         *)
(***************************************************************************)
EXTENDS Overlay, Naturals, Sequences, FiniteSets, FiniteSetsExt

CONSTANTS Cue, Extra,      \* cues; the extra outputs the show may configure
          SlotsPer, LastVoice,
          Trials           \* what a behaviour may meet: records of
                           \*   plan     what each cue is, from Cue to Plans
                           \*   extras   of Extra, those the show may have at the start
                           \*   calls    MaxCalls, calling  the calls made besides GO

MainOutput == "main"
Output == {MainOutput} \cup Extra
\* sound: it has an audio track; held: hold_last_frame or an endless loop, which
\* never ends by itself; timed: its duration is known before it plays.
Plans == [kind: {"video", "image", "camera", "text"}, to: Output, sound: BOOLEAN,
          waits: BOOLEAN, held: BOOLEAN, timed: BOOLEAN]
\* "refusal" is no call: the player may refuse to load a file.
Operations == {"preload", "stop", "pause", "resume", "devamp", "panic", "pattern",
               "clear", "timer", "identify", "outputs", "fade", "refusal"}

ASSUME SlotsAssumption ==
  /\ SlotsPer \in Nat \ {0} /\ LastVoice \in Nat \ {0} /\ MainOutput \notin Extra
  /\ "label" \notin Cue
  /\ \A t \in Trials :
       /\ t.plan \in [Cue -> Plans] /\ t.extras \subseteq Extra
       /\ t.calls \in Nat /\ t.calling \subseteq Operations
       /\ \A c \in Cue : t.plan[c].sound => t.plan[c].kind = "video"

Voice == 1..LastVoice
None  == 0
Slot  == Output \X (1..SlotsPer)
Thread == {"render", "events"}

VARIABLES
  cue,      \* the cues: state, active_voice_id, in_pre_wait, preloaded
  slot,     \* SlotState
  hand,     \* what a thread has still to do to a slot whose lock it has let go
  mpv,      \* the player: the file it has, where it is with it, paused, its events
  sound,    \* the audio voices of the loads
  output,   \* the outputs: in the map and registry, opening, closing
  overlay,  \* what is above the slots of an output, and the curtain
  label,    \* the output the latest identification is still to be taken off
  config,   \* OutputsConfig: the extras the show has
  status,   \* OutputStatus messages not drained yet
  trial,    \* the show and what happens to it
  next, calls,    \* bounds: the next voice, the calls made
  past      \* history, see the properties

above == <<overlay, label>>
vars == <<cue, slot, hand, mpv, sound, output, overlay, label, config, status, next, calls,
          trial, past>>

Standby == [state |-> "standby", voice |-> None, waits |-> FALSE, preloaded |-> FALSE]
\* SlotState::idle
IdleSlot == [voice |-> None, audio |-> FALSE, reveal |-> FALSE, deadline |-> FALSE,
             preloaded |-> FALSE, unload |-> FALSE, stopAtEnd |-> FALSE, light |-> "dark"]
IdlePlayer == [file |-> None, at |-> "idle", paused |-> FALSE, held |-> FALSE, events |-> <<>>]
Free == [do |-> "nothing", voice |-> None, audio |-> FALSE]

Init ==
  /\ trial \in Trials
  /\ cue = [c \in Cue |-> Standby]
  /\ slot = [s \in Slot |-> IdleSlot]
  /\ hand = [s \in Slot |-> [t \in Thread |-> Free]]
  /\ mpv = [s \in Slot |-> IdlePlayer]
  /\ sound = [v \in Voice |-> "none"]
  /\ config \in SUBSET trial.extras
  /\ output = [o \in Output |-> IF o \in config \cup {MainOutput} THEN "live" ELSE "none"]
  /\ overlay = [o \in Output |-> Dark] /\ label = {}
  /\ status = {} /\ next = 1 /\ calls = 0
  /\ past = [failed |-> {}, cut |-> {}, raised |-> {}, adrift |-> {}, unheard |-> {},
             refused |-> {}, covered |-> {}, left |-> {}, shut |-> {}]

OutputOf(s) == s[1]
Registered(o) == output[o] \in {"live", "dropped"}
\* slot_for_voice: the slots of the outputs in the registry.
SlotsOf(v) == { s \in Slot : v # None /\ slot[s].voice = v /\ Registered(OutputOf(s)) }
Holder(v)  == { c \in Cue : v # None /\ cue[c].voice = v }

\* AudioEngine: stop_voice and resume_voice on the audio voice of a load.  A voice
\* is resumed whatever its state as long as it has not been collected.
SoundOff(v, b)  == IF b /\ sound[v] \in {"paused", "playing"}
                   THEN [sound EXCEPT ![v] = "stopped"] ELSE sound
SoundOn(v, b)   == IF b /\ sound[v] # "gone" THEN [sound EXCEPT ![v] = "playing"] ELSE sound
SoundHeld(v, b) == IF b /\ sound[v] # "gone" THEN [sound EXCEPT ![v] = "paused"] ELSE sound

\* mpv "stop", and "loadfile replace": the file it had is closed for a reason
\* other than its end, which the event thread ignores.
Stopped(s)     == [mpv EXCEPT ![s].file = None, ![s].at = "idle"]
Loading(s, v, p, h) == [mpv EXCEPT ![s].file = v, ![s].at = "opening", ![s].paused = p,
                                   ![s].held = h]
\* A path that is no C string, or a loadfile that is refused: the player keeps the file it
\* had, and has only been paused or not for the new one.
Refusing(s, p) == [mpv EXCEPT ![s].paused = p]
CanRefuse == IF "refusal" \in trial.calling THEN BOOLEAN ELSE {FALSE}

---------------------------------------------------------------------------
(***************************************************************************)
(* The slots, as the control threads use them.                              *)
(***************************************************************************)
\* send_status of an unload.
Reports(kind, v) == IF v = None THEN {} ELSE {[kind |-> kind, voice |-> v]}

\* Mutant of Withdrawn: the cue whose content is taken off hears nothing.
StolenInSilence(v) == {}
\* What is told of content that is taken off its output.
Withdrawn(v) == Reports("withdrawn", v)

\* hard_unload of the slots S by a control thread or the teardown thread.
Unloaded(S) == [s \in Slot |-> IF s \in S THEN IdleSlot ELSE slot[s]]
HardUnload(S) ==
  /\ slot' = Unloaded(S)
  /\ mpv' = [s \in Slot |-> IF s \in S THEN [mpv[s] EXCEPT !.file = None, !.at = "idle"]
                            ELSE mpv[s]]
  /\ sound' = [v \in Voice |->
                 IF /\ \E s \in S : slot[s].voice = v /\ slot[s].audio
                    /\ sound[v] \in {"paused", "playing"}
                 THEN "stopped" ELSE sound[v]]
  /\ status' = status \cup UNION { Withdrawn(slot[s].voice) : s \in S }

\* acquire_slot: the first one that is empty and not fading out, or the one with
\* the oldest content.
Vacant(o) == { i \in 1..SlotsPer : slot[<<o, i>>].voice = None /\ ~slot[<<o, i>>].unload }
Oldest(o) == CHOOSE i \in 1..SlotsPer :
               \A j \in 1..SlotsPer : slot[<<o, i>>].voice <= slot[<<o, j>>].voice
Acquired(o) == <<o, IF Vacant(o) # {} THEN Min(Vacant(o)) ELSE Oldest(o)>>

\* load_into_slot.  A video, held while it is preloaded, waits in the dark for its first
\* frame, paused; an image shows at once unless it is preloaded; a camera is never
\* preloaded.
VideoContent(c, v, preload) ==
  [IdleSlot EXCEPT !.voice = v, !.audio = trial.plan[c].sound, !.reveal = TRUE,
                   !.preloaded = preload]
ImageContent(v, preload) ==
  [IdleSlot EXCEPT !.voice = v, !.reveal = preload, !.preloaded = preload,
                   !.light = IF preload THEN "dark" ELSE "rising"]
CameraContent(v) == [IdleSlot EXCEPT !.voice = v, !.reveal = TRUE]
Content(c, v, preload) ==
  CASE trial.plan[c].kind = "video" -> VideoContent(c, v, preload)
    [] trial.plan[c].kind = "image" -> ImageContent(v, preload)
    [] OTHER                        -> CameraContent(v)

\* The audio voice of a load, submitted, paused, before the output is looked for.
Submitted(c, snd) == [snd EXCEPT ![next] = IF trial.plan[c].sound THEN "paused" ELSE "none"]

\* show_content on an output that is live: the curtain is lifted, a slot is taken and
\* the content loaded.
ShowContent(c, preload, over) ==
  LET o == trial.plan[c].to
      s == Acquired(o)
      victim == slot[s]
      content == Content(c, next, preload)
  IN
  /\ output[o] = "live" /\ UNCHANGED output
  /\ overlay' = [over EXCEPT ![o].curtain = "open"]
  /\ slot' = [slot EXCEPT ![s] = content]
  /\ sound' = Submitted(c, SoundOff(victim.voice, victim.audio /\ victim.voice # None))
  /\ status' = status \cup Withdrawn(victim.voice)
  /\ \E refuses \in CanRefuse :
       /\ mpv' = IF refuses THEN Refusing(s, content.reveal)
                 ELSE Loading(s, next, content.reveal, trial.plan[c].held)
       /\ past' = [past EXCEPT !.adrift = @ \cup ({cue[c].voice} \ {None}), !.shut = @ \ {o},
                               !.refused = IF refuses THEN @ \cup {next} ELSE @]

\* output_for, when it refuses: the output is opening, or has no screen; one that was
\* never opened is asked for.
Refused(o) ==
  /\ o # MainOutput
  /\ output' = IF output[o] = "none" /\ o \in config
               THEN [output EXCEPT ![o] = "opening"] ELSE output
OutputFor(c, over) ==
  /\ Refused(trial.plan[c].to)
  /\ sound' = Submitted(c, sound) /\ overlay' = over
  /\ UNCHANGED <<slot, mpv, status, past>>

\* start_video_action, start_image_action, start_camera_action.
Start(c, preload, ok, over) ==
  /\ next <= LastVoice /\ next' = next + 1
  /\ IF ok THEN ShowContent(c, preload, over) ELSE OutputFor(c, over)

\* begin_stop: the layer fades out, or is dark at once; the slot keeps its voice until
\* the render thread has seen it dark.
FadingOut(r, fade) ==
  [r EXCEPT !.reveal = FALSE, !.deadline = FALSE, !.preloaded = FALSE, !.unload = TRUE,
            !.audio = FALSE, !.light = IF fade THEN "falling" ELSE "dark"]

\* stop_content, of the slots S of voice v.
Stopping(S, v, fade) ==
  /\ slot' = [s \in Slot |-> IF s \in S THEN FadingOut(slot[s], fade) ELSE slot[s]]
  /\ sound' = IF \E s \in S : slot[s].audio THEN SoundOff(v, TRUE) ELSE sound

\* Mutant of MayReveal: a paused player is left alone, and every load is paused.
MayRevealPlaying(s) == slot[s].reveal /\ ~slot[s].preloaded /\ ~mpv[s].paused
\* A first frame is waited for, and not held back by a preload.
MayReveal(s) == slot[s].reveal /\ ~slot[s].preloaded

\* reveal, its first half under the lock.
Taken(s) == [slot EXCEPT ![s].reveal = FALSE, ![s].deadline = FALSE, ![s].preloaded = FALSE]
RevealTask(s) == [do |-> "reveal", voice |-> slot[s].voice, audio |-> slot[s].audio]

---------------------------------------------------------------------------
(***************************************************************************)
(* The cues.                                                                *)
(***************************************************************************)
Set(c, r) == cue' = [cue EXCEPT ![c] = r]
Playing(v) == [state |-> "running", voice |-> v, waits |-> FALSE, preloaded |-> FALSE]
Call(op) == op \in trial.calling /\ calls < trial.calls /\ calls' = calls + 1 /\ trial' = trial
IsKind(c, kind) == trial.plan[c].kind = kind
Texts == { c \in Cue : IsKind(c, "text") }

\* An output has content: has_content.
Busy(o) == \E s \in Slot : OutputOf(s) = o /\ slot[s].voice # None

\* clear_text_overlay on the outputs of the Text Cues S, as far as they are there.
TextOutputs(S) == { o \in Output : output[o] = "live" /\ \E c \in S : trial.plan[c].to = o }
TextsOff(S) == [o \in Output |-> IF o \in TextOutputs(S) THEN TextCleared(overlay[o], Busy(o))
                                 ELSE overlay[o]]
\* The text of another cue goes with it.
AlsoCleared(S) == (UNION { overlay[o].text : o \in TextOutputs(S) }) \ S

Shown(c) == overlay[trial.plan[c].to].text = {c}

\* A GO of the list stops the Text Cues that run, and no other cue; a GO inside a group
\* does not.
StoppedByGo(c) == { {}, { d \in Texts : d # c /\ cue[d].state = "running" } }
Rested(S) == [c \in Cue |-> IF c \in S THEN Standby ELSE cue[c]]

\* start_preloaded on the slots S, or else resume_voice, as a cue resumes.
ShowAgain(c) ==
  LET v == cue[c].voice
      S == SlotsOf(v)
      waiting == { s \in S : cue[c].preloaded /\ slot[s].preloaded }
      audio == \E s \in S : slot[s].audio
  IN
  /\ slot' = [s \in Slot |->
                IF s \in waiting
                THEN [slot[s] EXCEPT !.reveal = FALSE, !.preloaded = FALSE, !.light = "rising"]
                ELSE slot[s]]
  /\ IF trial.plan[c].kind = "video" \/ waiting # {}
     THEN /\ mpv' = [s \in Slot |-> IF s \in S THEN [mpv[s] EXCEPT !.paused = FALSE] ELSE mpv[s]]
          /\ sound' = SoundOn(v, audio)
     ELSE UNCHANGED <<mpv, sound>>

\* What go leads to, once the cues before it are at rest and the overlays are over: what
\* was preloaded is shown ...
ShowPreloaded(c, cues, over) ==
  /\ cue[c].preloaded /\ cue' = [cues EXCEPT ![c] = Playing(cue[c].voice)]
  /\ ShowAgain(c) /\ overlay' = over
  /\ UNCHANGED <<output, status, next, past>>

\* ... a pre-wait is waited for ...
WaitFirst(c, cues, over) ==
  /\ ~cue[c].preloaded /\ trial.plan[c].waits /\ (IsKind(c, "text") \/ next <= LastVoice)
  /\ cue' = [cues EXCEPT ![c].state = "running", ![c].waits = TRUE]
  /\ overlay' = over /\ UNCHANGED <<slot, mpv, sound, output, status, next, past>>

\* ... or the action starts: start_action_or_reset.
StartOrReset(c, cues, over) ==
  \E ok \in BOOLEAN :
    /\ Start(c, FALSE, ok, over)
    /\ cue' = [cues EXCEPT ![c] = IF ok THEN Playing(next)
                                  ELSE [@ EXCEPT !.state = "standby", !.waits = FALSE]]

\* start_text_action: an output that is not to be had is logged, and nothing more.
TextUp(c, over) ==
  LET o == trial.plan[c].to IN
  /\ \/ /\ output[o] = "live" /\ UNCHANGED output
        /\ overlay' = [over EXCEPT ![o] = TextShown(over[o], c)]
        /\ past' = [past EXCEPT !.covered = (@ \cup (over[o].text \cap Texts)) \ {c},
                                !.left = @ \ {c}, !.shut = @ \ {o}]
     \/ /\ Refused(o) /\ overlay' = over
        /\ past' = [past EXCEPT !.covered = @ \cup {c}]
  /\ UNCHANGED <<slot, mpv, sound, status, next>>
StartText(c, cues, over) == cue' = [cues EXCEPT ![c] = Playing(None)] /\ TextUp(c, over)

\* go of each kind; one on a running cue is ignored.
VideoGo(c, cues, over) ==
  /\ IsKind(c, "video")
  /\ \/ ShowPreloaded(c, cues, over) \/ WaitFirst(c, cues, over)
     \/ ~cue[c].preloaded /\ ~trial.plan[c].waits /\ StartOrReset(c, cues, over)
ImageGo(c, cues, over) ==
  /\ IsKind(c, "image")
  /\ \/ ShowPreloaded(c, cues, over) \/ WaitFirst(c, cues, over)
     \/ ~cue[c].preloaded /\ ~trial.plan[c].waits /\ StartOrReset(c, cues, over)
CameraGo(c, cues, over) ==
  /\ IsKind(c, "camera")
  /\ WaitFirst(c, cues, over) \/ (~trial.plan[c].waits /\ StartOrReset(c, cues, over))
TextGo(c, cues, over) ==
  /\ IsKind(c, "text")
  /\ WaitFirst(c, cues, over) \/ (~trial.plan[c].waits /\ StartText(c, cues, over))

Go(c) ==
  /\ cue[c].state # "running" /\ UNCHANGED <<hand, config, calls, trial, label>>
  /\ \E S \in StoppedByGo(c) :
       LET cues == Rested(S)  over == TextsOff(S)
       IN  VideoGo(c, cues, over) \/ ImageGo(c, cues, over) \/ CameraGo(c, cues, over)
             \/ TextGo(c, cues, over)

\* tick of each kind, at the end of the pre-wait; that of a Text Cue cannot fail.
VideoTick(c) == IsKind(c, "video") /\ StartOrReset(c, cue, overlay)
ImageTick(c) == IsKind(c, "image") /\ StartOrReset(c, cue, overlay)
CameraTick(c) == IsKind(c, "camera") /\ StartOrReset(c, cue, overlay)
TextTick(c) == IsKind(c, "text") /\ StartText(c, cue, overlay)
PreWaitOver(c) ==
  /\ cue[c].state = "running" /\ cue[c].waits
  /\ VideoTick(c) \/ ImageTick(c) \/ CameraTick(c) \/ TextTick(c)
  /\ UNCHANGED <<hand, config, calls, trial, label>>

\* preload, by a Load Cue.  One that fails changes nothing but the pool.
Preload(c) ==
  /\ Call("preload") /\ (IsKind(c, "video") \/ IsKind(c, "image"))
  /\ cue[c].state # "running" /\ ~cue[c].preloaded /\ UNCHANGED <<hand, config, label>>
  /\ \E ok \in BOOLEAN :
       /\ Start(c, TRUE, ok, overlay)
       /\ IF ok THEN Set(c, [state |-> "paused", voice |-> next, waits |-> FALSE,
                             preloaded |-> TRUE])
          ELSE UNCHANGED cue

\* The default preload, of a camera and a text: go, then pause.  They are seen.
LoadCamera(c) ==
  /\ Call("preload") /\ cue[c].state # "running" /\ CameraGo(c, cue, overlay)
  /\ UNCHANGED <<hand, config, label>>
LoadText(c) ==
  /\ Call("preload") /\ IsKind(c, "text") /\ UNCHANGED <<hand, config, label>>
  /\ Set(c, [cue[c] EXCEPT !.state = "paused",
                           !.waits = IF cue[c].state = "running" THEN @ ELSE trial.plan[c].waits])
  /\ IF cue[c].state = "running" \/ trial.plan[c].waits
     THEN UNCHANGED <<slot, mpv, sound, output, overlay, status, next, past>>
     ELSE TextUp(c, overlay)

\* stop and hard_stop of a cue with content; a cut, when no fade is set.
LetGo(c, fade) ==
  /\ Set(c, Standby) /\ Stopping(SlotsOf(cue[c].voice), cue[c].voice, fade)
  /\ UNCHANGED <<mpv, overlay, past>>
VideoStop(c) == IsKind(c, "video") /\ \E fade \in BOOLEAN : LetGo(c, fade)
ImageStop(c) == IsKind(c, "image") /\ \E fade \in BOOLEAN : LetGo(c, fade)
CameraStop(c) == IsKind(c, "camera") /\ \E fade \in BOOLEAN : LetGo(c, fade)

\* A Text Cue clears the text of its output, whosever it is, in any state.
TextStop(c) ==
  /\ IsKind(c, "text") /\ Set(c, Standby) /\ overlay' = TextsOff({c})
  /\ past' = [past EXCEPT !.covered = @ \cup (AlsoCleared({c}) \cap Texts)]
  /\ UNCHANGED <<slot, mpv, sound>>
Stop(c) ==
  /\ Call("stop") /\ (VideoStop(c) \/ ImageStop(c) \/ CameraStop(c) \/ TextStop(c))
  /\ UNCHANGED <<hand, output, label, config, status, next>>

\* pause: a video whatever its state but a pre-wait, which pauses mpv and the sound and
\* leaves a reveal that is due alone; an image and a text, which only take note and stay
\* where they are; a camera ignores it.
PauseVideo(c) ==
  /\ IsKind(c, "video") /\ ~cue[c].waits
  /\ LET S == SlotsOf(cue[c].voice) IN
     /\ mpv' = [s \in Slot |-> IF s \in S THEN [mpv[s] EXCEPT !.paused = TRUE] ELSE mpv[s]]
     /\ sound' = SoundHeld(cue[c].voice, \E s \in S : slot[s].audio)
PauseStill(c) ==
  /\ IsKind(c, "image") \/ IsKind(c, "text")
  /\ cue[c].state = "running" /\ UNCHANGED <<mpv, sound>>
Pause(c) ==
  /\ Call("pause") /\ (PauseVideo(c) \/ PauseStill(c))
  /\ Set(c, [cue[c] EXCEPT !.state = "paused"])
  /\ UNCHANGED <<slot, hand, output, above, config, status, next, past>>

ResumeVideo(c) == IsKind(c, "video") /\ ShowAgain(c)
ResumeImage(c) == IsKind(c, "image") /\ cue[c].state = "paused" /\ ShowAgain(c)
ResumeText(c) ==
  IsKind(c, "text") /\ cue[c].state = "paused" /\ UNCHANGED <<slot, mpv, sound>>
Resume(c) ==
  /\ Call("resume") /\ (ResumeVideo(c) \/ ResumeImage(c) \/ ResumeText(c))
  /\ Set(c, [cue[c] EXCEPT !.state = "running", !.preloaded = FALSE])
  /\ past' = [past EXCEPT !.covered = IF IsKind(c, "text") /\ ~Shown(c) THEN @ \cup {c} ELSE @]
  /\ UNCHANGED <<hand, output, above, config, status, next>>

\* A Devamp Cue that stops its target at the end of the slice.
Devamp(c) ==
  /\ Call("devamp") /\ trial.plan[c].kind = "video" /\ cue[c].voice # None
  /\ slot' = [s \in Slot |-> IF s \in SlotsOf(cue[c].voice)
                             THEN [slot[s] EXCEPT !.stopAtEnd = TRUE] ELSE slot[s]]
  /\ UNCHANGED <<cue, hand, mpv, sound, output, above, config, status, next, past>>

\* The fade before the natural end: the layer goes dark and nothing is stopped.
FadeAtEnd(c) ==
  /\ Call("fade") /\ cue[c].state = "running" /\ ~cue[c].waits /\ trial.plan[c].timed
  /\ trial.plan[c].kind # "camera" /\ ~trial.plan[c].held /\ SlotsOf(cue[c].voice) # {}
  /\ slot' = [s \in Slot |-> IF s \in SlotsOf(cue[c].voice)
                             THEN [slot[s] EXCEPT !.light = "falling"] ELSE slot[s]]
  /\ UNCHANGED <<cue, hand, mpv, sound, output, above, config, status, next, past>>

\* hard_stop_all: the Text Cues that are up are stopped, every slot is emptied without a
\* word, the overlays and voices are cut, every cue reset.
Panic ==
  /\ Call("panic")
  /\ slot' = Unloaded({ s \in Slot : Registered(OutputOf(s)) })
  /\ mpv' = [s \in Slot |-> IF Registered(OutputOf(s))
                            THEN [mpv[s] EXCEPT !.file = None, !.at = "idle"] ELSE mpv[s]]
  /\ sound' = [v \in Voice |-> IF sound[v] \in {"paused", "playing"} THEN "stopped" ELSE sound[v]]
  /\ LET off == TextsOff({ c \in Texts : cue[c].state # "standby" })
     IN  overlay' = [o \in Output |-> IF output[o] = "live" THEN Panicked(off[o]) ELSE off[o]]
  /\ cue' = [c \in Cue |-> Standby]
  /\ UNCHANGED <<hand, output, label, config, status, next, past>>

---------------------------------------------------------------------------
(***************************************************************************)
(* What else is put on the overlays.                                        *)
(***************************************************************************)
Shows(o, what) == overlay' = [overlay EXCEPT ![o] = what]
\* The Text Cues whose text on the outputs S is hidden or taken away by another.
Hidden(S) == past.covered \cup ((UNION { overlay[o].text : o \in S }) \cap Texts)

\* show_test_pattern; the show's screen may be missing once the output is emptied.
TestPattern(o) ==
  /\ Call("pattern") /\ output[o] = "live"
  /\ HardUnload({ s \in Slot : OutputOf(s) = o })
  /\ \/ Shows(o, PatternShown(overlay[o])) /\ past' = [past EXCEPT !.shut = @ \ {o}]
     \/ o # MainOutput /\ UNCHANGED <<overlay, past>>
  /\ UNCHANGED <<cue, hand, output, label, config, next>>

\* clear_test_pattern, of one output or of all.
ClearTestPattern(S) ==
  /\ Call("clear") /\ S # {} /\ \A o \in S : output[o] = "live"
  /\ overlay' = [o \in Output |-> IF o \in S THEN PatternCleared(overlay[o]) ELSE overlay[o]]
  /\ past' = [past EXCEPT !.covered = Hidden(S), !.shut = @ \cup { o \in S : Busy(o) }]
  /\ UNCHANGED <<cue, slot, hand, mpv, sound, output, label, config, status, next>>

\* set_output_timer, over and over by the thread of the timer, on the output the show
\* picked: a text while a cue runs and the timer is wanted, or else none.
SetOutputTimer(on) ==
  /\ "timer" \in trial.calling /\ Shows(MainOutput, TimerSet(overlay[MainOutput], on))
  /\ UNCHANGED <<cue, slot, hand, mpv, sound, output, label, config, status, next, calls,
                 trial, past>>

\* identify_output_screen: the label takes the place of a text.  The cleanup of an earlier
\* one does nothing any more, be this one for another output, or refused.
Superseded(S) == IF label \subseteq S THEN past.left ELSE past.left \cup {"label"}
Identify(o) ==
  /\ Call("identify")
  /\ \/ /\ output[o] = "live" /\ UNCHANGED output
        /\ Shows(o, TextShown(overlay[o], "label")) /\ label' = {o}
        /\ past' = [past EXCEPT !.covered = Hidden({o}), !.left = Superseded({o}),
                                !.shut = @ \ {o}]
     \/ /\ Refused(o) /\ label' = {} /\ UNCHANGED overlay
        /\ past' = [past EXCEPT !.left = Superseded({})]
  /\ UNCHANGED <<cue, slot, hand, mpv, sound, config, status, next>>

\* end_identify, by the thread of the latest identification.
EndIdentify(o) ==
  /\ o \in label /\ label' = {}
  /\ IF output[o] = "live"
     THEN /\ Shows(o, TextCleared(overlay[o], Busy(o))) /\ UNCHANGED output
          /\ past' = [past EXCEPT !.covered = Hidden({o})]
     ELSE Refused(o) /\ UNCHANGED <<overlay, past>>
  /\ UNCHANGED <<cue, slot, hand, mpv, sound, config, status, next, calls, trial>>

---------------------------------------------------------------------------
(***************************************************************************)
(* The event loop's tick, and the outputs.                                  *)
(***************************************************************************)
\* The voices that have ended or were withdrawn, by what was drained; an Error is logged
\* and nothing else.
Ended(drained) == { m.voice : m \in { n \in drained : n.kind \in {"completed", "withdrawn"} } }

\* The workspace is free: of the cues whose voice has ended those that run are reset.
TickHears(drained) ==
  LET deaf == { c \in Cue : cue[c].state # "running" /\ cue[c].voice \in Ended(drained) } IN
  /\ cue' = [c \in Cue |-> IF cue[c].state = "running" /\ cue[c].voice \in Ended(drained)
                           THEN Standby ELSE cue[c]]
  /\ past' = [past EXCEPT !.unheard = @ \cup { cue[c].voice : c \in deaf }]

\* A command has it: the tick returns, and what it drained is lost.
TickGivesUp(drained) ==
  LET deaf == { c \in Cue : cue[c].voice \in Ended(drained) } IN
  /\ cue' = cue
  /\ past' = [past EXCEPT !.unheard = @ \cup { cue[c].voice : c \in deaf }]

\* drain_status, and what the tick does with it once it has tried the workspace.  The
\* step is taken when it has: what was reported since the drain stays for the next tick.
EventLoopDrains ==
  \E drained \in (SUBSET status) \ {{}} :
    /\ status' = status \ drained
    /\ TickHears(drained) \/ TickGivesUp(drained)
    /\ UNCHANGED <<slot, hand, mpv, sound, output, above, config, next, calls, trial>>

\* Its duration has elapsed: the cue is reset, its voice let go, its text left where it is.
TimeDone(c) ==
  /\ cue[c].state = "running" /\ ~cue[c].waits /\ trial.plan[c].timed
  /\ Set(c, Standby)
  /\ past' = [past EXCEPT !.adrift = @ \cup ({cue[c].voice} \ {None}),
                          !.left = IF IsKind(c, "text") /\ Shown(c) THEN @ \cup {c} ELSE @]
  /\ UNCHANGED <<slot, hand, mpv, sound, output, above, config, status, next, calls, trial>>

\* sync_outputs_config: an output that left the show is dropped from the map, one
\* that joined it is created in the background.
SyncOutputs(extras) ==
  /\ Call("outputs") /\ extras # config /\ config' = extras
  /\ output' = [o \in Output |->
                  CASE o \in Extra \ extras /\ output[o] = "live" -> "dropped"
                    [] o \in extras /\ output[o] = "none"         -> "opening"
                    [] OTHER                                      -> output[o]]
  /\ past' = [past EXCEPT !.covered = Hidden(Extra \ extras)]
  /\ UNCHANGED <<cue, slot, hand, mpv, sound, above, status, next>>

\* build_extra and adopt_output, on the background thread.
Built(o) ==
  /\ output[o] = "opening"
  /\ \E ok \in BOOLEAN :
       output' = [output EXCEPT ![o] = IF ok /\ o \in config THEN "live" ELSE "none"]
  /\ overlay' = [overlay EXCEPT ![o] = Dark]
  /\ UNCHANGED <<cue, slot, hand, mpv, sound, label, config, status, next, calls, trial, past>>

\* lifecycle::destroy on the teardown thread: the output leaves the registry, so
\* that no voice is found on it any more ...
Unregister(o) ==
  /\ output[o] = "dropped" /\ output' = [output EXCEPT ![o] = "closing"]
  /\ UNCHANGED <<cue, slot, hand, mpv, sound, above, config, status, next, calls, trial, past>>

\* ... then its slots are retired, their event threads and the render thread joined.
Retire(o) ==
  /\ output[o] = "closing"
  /\ \A s \in Slot, t \in Thread : OutputOf(s) = o => hand[s][t] = Free
  /\ HardUnload({ s \in Slot : OutputOf(s) = o })
  /\ output' = [output EXCEPT ![o] = "none"]
  /\ UNCHANGED <<cue, hand, above, config, next, calls, trial, past>>

\* gc_voices: a stopped audio voice is collected.
Collect(v) ==
  /\ sound[v] = "stopped" /\ sound' = [sound EXCEPT ![v] = "gone"]
  /\ UNCHANGED <<cue, slot, hand, mpv, output, above, config, status, next, calls, trial, past>>

---------------------------------------------------------------------------
(***************************************************************************)
(* The render thread's tick of a slot.                                      *)
(***************************************************************************)
\* The watchdog: the first frame is overdue.  A preloaded slot is left alone.
Overdue(s) == MayReveal(s) /\ slot[s].deadline
WatchdogReveals(s) ==
  /\ hand[s]["render"] = Free /\ Overdue(s)
  /\ slot' = Taken(s) /\ hand' = [hand EXCEPT ![s]["render"] = RevealTask(s)]
  /\ UNCHANGED <<cue, mpv, sound, output, above, config, status, next, calls, trial, past>>

\* OpacityAnim::tick comes to its end.
FadeLands(s) ==
  /\ hand[s]["render"] = Free /\ slot[s].light \in {"rising", "falling"}
  /\ slot' = [slot EXCEPT ![s].light = IF @ = "rising" THEN "lit" ELSE "dark"]
  /\ UNCHANGED <<cue, hand, mpv, sound, output, above, config, status, next, calls, trial, past>>

\* Mutant of Finished: a fade that lands in the same tick is waited for, so that a
\* cut, which never animates, is not seen to finish.
FinishedByFade(s) == FALSE
\* The stop fade has landed, or there was none.
Finished(s) == slot[s].unload /\ slot[s].light = "dark"

\* The slot is released, and mpv is told to stop after the unlock.
Release(s) ==
  /\ hand[s]["render"] = Free /\ Finished(s)
  /\ slot' = [slot EXCEPT ![s].unload = FALSE, ![s].voice = None]
  /\ hand' = [hand EXCEPT ![s]["render"] = [Free EXCEPT !.do = "stop", !.voice = slot[s].voice]]
  /\ UNCHANGED <<cue, mpv, sound, output, above, config, status, next, calls, trial, past>>

(***************************************************************************)
(* The second half of what the render or the event thread does to a slot.   *)
(* By then the slot may hold the next content.                              *)
(***************************************************************************)
\* mpv "stop"; what another load had put there goes with it.
Cut(s, v) == IF mpv[s].file \in {None, v} THEN {} ELSE {mpv[s].file}

HandStops(s, t) ==
  /\ hand[s][t].do = "stop" /\ mpv' = Stopped(s)
  /\ past' = [past EXCEPT !.cut = @ \cup Cut(s, hand[s][t].voice)]
  /\ hand' = [hand EXCEPT ![s][t] = Free]
  /\ UNCHANGED <<cue, slot, sound, output, above, config, status, next, calls, trial>>

\* reveal: the sound resumes, mpv is unpaused, the layer lights up.
HandReveals(s, t) ==
  LET task == hand[s][t] IN
  /\ task.do = "reveal"
  /\ sound' = SoundOn(task.voice, task.audio)
  /\ mpv' = [mpv EXCEPT ![s].paused = FALSE]
  /\ slot' = [slot EXCEPT ![s].light = "rising"]
  /\ past' = [past EXCEPT !.raised =
                IF slot[s].voice = task.voice /\ ~slot[s].unload THEN @
                ELSE @ \cup ({task.voice, slot[s].voice} \ {None})]
  /\ hand' = [hand EXCEPT ![s][t] = Free]
  /\ UNCHANGED <<cue, output, above, config, status, next, calls, trial>>

\* hard_unload by the event thread, after the devamped slice.
HandUnloads(s, t) ==
  LET task == hand[s][t] IN
  /\ task.do = "unload" /\ mpv' = Stopped(s)
  /\ sound' = SoundOff(task.voice, task.audio)
  /\ status' = status \cup Reports("completed", task.voice)
  /\ past' = [past EXCEPT !.cut = @ \cup Cut(s, task.voice)]
  /\ hand' = [hand EXCEPT ![s][t] = Free]
  /\ UNCHANGED <<cue, slot, output, above, config, next, calls, trial>>

---------------------------------------------------------------------------
(***************************************************************************)
(* The slot's event thread (slot_event_loop): the player's events in order. *)
(* None of the handlers looks at the load an event is about.                *)
(***************************************************************************)
Handles(s, kind) ==
  /\ hand[s]["events"] = Free /\ mpv[s].events # <<>> /\ Head(mpv[s].events).kind = kind
Handled(s) == mpv' = [mpv EXCEPT ![s].events = Tail(@)]

\* FILE_LOADED: the reveal gets its deadline.
FileLoaded(s) ==
  /\ Handles(s, "loaded") /\ Handled(s)
  /\ slot' = [slot EXCEPT ![s].deadline = @ \/ (slot[s].voice # None /\ MayReveal(s))]
  /\ UNCHANGED <<cue, hand, sound, output, above, config, status, next, calls, trial, past>>

\* PLAYBACK_RESTART, the first frame.
FirstFrame(s) ==
  /\ Handles(s, "restart") /\ Handled(s)
  /\ IF MayReveal(s)
     THEN slot' = Taken(s) /\ hand' = [hand EXCEPT ![s]["events"] = RevealTask(s)]
     ELSE UNCHANGED <<slot, hand>>
  /\ UNCHANGED <<cue, sound, output, above, config, status, next, calls, trial, past>>

\* vacate_after_end stops the audio voice of the slot.
AudioToStop(s) == slot[s].audio

\* END_FILE, for its end or an error: the slot is vacated, whichever load it has now.
FileEnds(s) ==
  /\ \/ Handles(s, "eof") \/ Handles(s, "error")
  /\ Handled(s)
  /\ slot' = [slot EXCEPT ![s] = IdleSlot]
  /\ sound' = SoundOff(slot[s].voice, slot[s].voice # None /\ AudioToStop(s))
  /\ status' = status \cup Reports(IF Head(mpv[s].events).kind = "eof" THEN "completed"
                                   ELSE "error", slot[s].voice)
  /\ past' = [past EXCEPT
       !.failed = IF Head(mpv[s].events).kind = "error"
                  THEN @ \cup ({slot[s].voice} \ {None}) ELSE @]
  /\ UNCHANGED <<cue, hand, output, above, config, next, calls, trial>>

\* time-pos at the end of the slice that is to stop there: hard_unload, first half.
SliceEnds(s) ==
  /\ hand[s]["events"] = Free /\ slot[s].stopAtEnd
  /\ mpv[s].at = "open" /\ ~mpv[s].paused
  /\ slot' = [slot EXCEPT ![s] = IdleSlot]
  /\ hand' = [hand EXCEPT ![s]["events"] = [do |-> "unload", voice |-> slot[s].voice,
                                            audio |-> slot[s].audio]]
  /\ UNCHANGED <<cue, mpv, sound, output, above, config, status, next, calls, trial, past>>

(***************************************************************************)
(* mpv itself.                                                              *)
(***************************************************************************)
Emit(s, kinds) == [mpv[s] EXCEPT !.events = @ \o [i \in 1..Len(kinds) |->
                                        [kind |-> kinds[i], file |-> mpv[s].file]]]
Opens(s) ==
  /\ mpv[s].at = "opening"
  /\ mpv' = [mpv EXCEPT ![s] = [Emit(s, <<"loaded", "restart">>) EXCEPT !.at = "open"]]
  /\ UNCHANGED <<cue, slot, hand, sound, output, above, config, status, next, calls, trial, past>>

Fails(s) ==
  /\ mpv[s].at = "opening"
  /\ mpv' = [mpv EXCEPT ![s] = [Emit(s, <<"error">>) EXCEPT !.at = "idle", !.file = None]]
  /\ UNCHANGED <<cue, slot, hand, sound, output, above, config, status, next, calls, trial, past>>

\* A file ends unless it is paused; one that is held never does.
Ends(s) ==
  /\ mpv[s].at = "open" /\ ~mpv[s].paused /\ ~mpv[s].held
  /\ mpv' = [mpv EXCEPT ![s] = [Emit(s, <<"eof">>) EXCEPT !.at = "idle", !.file = None]]
  /\ UNCHANGED <<cue, slot, hand, sound, output, above, config, status, next, calls, trial, past>>

---------------------------------------------------------------------------
ControlStep ==
  \/ \E c \in Cue : \/ Go(c) \/ Preload(c) \/ LoadCamera(c) \/ LoadText(c) \/ Stop(c) \/ Pause(c) \/ Resume(c)
                    \/ Devamp(c) \/ FadeAtEnd(c) \/ PreWaitOver(c) \/ TimeDone(c)
  \/ Panic \/ EventLoopDrains
  \/ \E S \in {{o} : o \in Output} \cup {{o \in Output : output[o] = "live"}} : ClearTestPattern(S)
  \/ \E on \in BOOLEAN : SetOutputTimer(on)
  \/ \E o \in Output : TestPattern(o) \/ Identify(o) \/ EndIdentify(o) \/ Built(o) \/ Unregister(o) \/ Retire(o)
  \/ \E extras \in SUBSET trial.extras : SyncOutputs(extras)
  \/ \E v \in Voice : Collect(v)
SlotStep(s) ==
  \/ WatchdogReveals(s) \/ FadeLands(s) \/ Release(s)
  \/ FileLoaded(s) \/ FirstFrame(s) \/ FileEnds(s) \/ SliceEnds(s)
  \/ Opens(s) \/ Fails(s) \/ Ends(s)
  \/ \E t \in Thread : HandStops(s, t) \/ HandReveals(s, t) \/ HandUnloads(s, t)
Next == ControlStep \/ \E s \in Slot : SlotStep(s)
Spec == Init /\ [][Next]_vars

\* The render, event and teardown threads, the event loop and mpv go on; an opening
\* file opens or fails.
Fairness ==
  /\ WF_vars(EventLoopDrains)
  /\ \A c \in Cue : WF_vars(PreWaitOver(c))
  /\ \A o \in Output : WF_vars(Built(o) \/ Unregister(o) \/ Retire(o))
  /\ \A s \in Slot :
       /\ WF_vars(WatchdogReveals(s)) /\ WF_vars(FadeLands(s)) /\ WF_vars(Release(s))
       /\ WF_vars(FileLoaded(s) \/ FirstFrame(s) \/ FileEnds(s))
       /\ WF_vars(Opens(s) \/ Fails(s)) /\ WF_vars(Ends(s))
       /\ \A t \in Thread : WF_vars(HandStops(s, t) \/ HandReveals(s, t) \/ HandUnloads(s, t))
FairSpec == Spec /\ Fairness

---------------------------------------------------------------------------
\* Types.  (All the variables; the queue of a player's events is bounded by what its
\* loads emit.)
Events == [kind: {"loaded", "restart", "eof", "error"}, file: Voice]
TypeOK ==
  /\ cue \in [Cue -> [state: {"standby", "running", "paused"}, voice: Voice \cup {None},
                      waits: BOOLEAN, preloaded: BOOLEAN]]
  /\ slot \in [Slot -> [voice: Voice \cup {None}, audio: BOOLEAN, reveal: BOOLEAN,
                        deadline: BOOLEAN, preloaded: BOOLEAN, unload: BOOLEAN,
                        stopAtEnd: BOOLEAN, light: {"dark", "rising", "lit", "falling"}]]
  /\ hand \in [Slot -> [Thread -> [do: {"nothing", "stop", "reveal", "unload"},
                                   voice: Voice \cup {None}, audio: BOOLEAN]]]
  /\ \A s \in Slot : /\ mpv[s].file \in Voice \cup {None}
                     /\ mpv[s].at \in {"idle", "opening", "open"}
                     /\ mpv[s].events \in Seq(Events)
  /\ sound \in [Voice -> {"none", "paused", "playing", "stopped", "gone"}]
  /\ output \in [Output -> {"none", "opening", "live", "dropped", "closing"}]
  /\ config \in SUBSET Extra
  /\ status \subseteq [kind: {"completed", "withdrawn", "error"}, voice: Voice]
  /\ next \in 1..(LastVoice + 1) /\ calls \in 0..trial.calls
  /\ overlay \in [Output -> [curtain: {"open", "closed"}, surface: Surfaces, dummy: BOOLEAN,
                              timer: BOOLEAN, text: SUBSET (Texts \cup {"label"}),
                              pattern: BOOLEAN]]
  /\ label \in SUBSET Output
  /\ past \in [failed: SUBSET Voice, cut: SUBSET Voice, raised: SUBSET Voice,
               adrift: SUBSET Voice, unheard: SUBSET Voice, refused: SUBSET Voice,
               covered: SUBSET Texts, left: SUBSET (Texts \cup {"label"}), shut: SUBSET Output]

\* A running cue is not forgotten by its output: the voice it waits for is on a slot,
\* or the end of it is on its way to the event loop.  There are three exceptions: a file
\* mpv could not play, of which the event loop takes no note; an end that was reported
\* while the cue was paused or preloaded; and an end, or a withdrawal, that a tick of the
\* event loop drained before it found the workspace taken and gave up.  (Such a cue ends
\* by the clock if its duration was known, and otherwise not at all.)
RunningIsAccounted ==
  \A c \in Cue : cue[c].state = "running" /\ cue[c].voice # None =>
    LET v == cue[c].voice IN
    \/ \E s \in Slot : slot[s].voice = v
    \/ \E m \in status : m.voice = v
    \/ \E s \in Slot, t \in Thread : hand[s][t].do = "unload" /\ hand[s][t].voice = v
    \/ v \in past.failed \cup past.unheard

\* Whatever is on a slot of an output that is there is somebody's: a cue holds the voice, or it is being stopped,
\* or its cue let go of it knowingly (its time was over, or a GO on the paused cue
\* started it anew).
PictureIsOwned ==
  \A s \in Slot : slot[s].voice # None /\ Registered(OutputOf(s)) =>
    \/ Holder(slot[s].voice) # {} \/ slot[s].unload \/ slot[s].voice \in past.adrift

\* The sound of a video is heard only while a slot has its picture, one that is not
\* merely preloaded, and will stop the sound with it; unless a reveal, already under
\* way when the slot was emptied, resumed the sound after it was stopped.
SoundHasPicture ==
  \A v \in Voice : sound[v] = "playing" =>
    \/ \E s \in Slot : slot[s].voice = v /\ slot[s].audio /\ ~slot[s].preloaded
    \/ \E s \in Slot, t \in Thread : hand[s][t].do = "unload" /\ hand[s][t].voice = v
    \/ v \in past.raised

\* The curtain is not over a picture: it is open while a slot has content that stays,
\* unless a test pattern was cleared there, which closes it whatever the slots hold.
CurtainIsUp ==
  \A s \in Slot :
    slot[s].voice # None /\ ~slot[s].unload /\ output[OutputOf(s)] = "live" =>
      overlay[OutputOf(s)].curtain = "open" \/ OutputOf(s) \in past.shut

\* The text of a Text Cue that runs is seen: it is what its output shows, on a surface,
\* with the curtain open, unless another text, a cleared one, a cleared pattern or an
\* output that left the show took its place, or the output believes in a surface that
\* a panic or a cleared pattern has taken.
TextIsSeen ==
  \A c \in Texts : cue[c].state = "running" /\ ~cue[c].waits /\ c \notin past.covered =>
    LET o == overlay[trial.plan[c].to]
    IN  o.text = {c} /\ o.curtain = "open" /\ (o.surface # "none" \/ Stripped(o))

\* No text is left behind: what an output shows is of a cue that runs or is paused, or
\* the latest identification, which is still to be taken off; but for a cue whose time
\* was over, and for an identification that another superseded.
NoTextLeft ==
  \A o \in Output : output[o] = "live" =>
    \A what \in overlay[o].text \ past.left :
      IF what = "label" THEN label = {o} ELSE cue[what].state # "standby"

\* A picture that was started comes or its cue hears of it: a slot does not keep
\* content waiting for its first frame for ever, unless the player refused the file, or
\* a thread that had released the slot stopped the player after the file was loaded.
PictureComes ==
  \A v \in Voice :
    LET Expected == \E s \in Slot : slot[s].voice = v /\ slot[s].reveal
    IN  Expected /\ (\A s \in Slot : slot[s].voice = v => ~slot[s].preloaded)
          ~> ~Expected \/ v \in past.cut \cup past.refused

\* slot.rs: once the stop fade has landed the render thread unloads the slot, whether
\* the layer faded out or was cut, and mpv lets go of the file or the camera; but for
\* a reveal under way when the stop came: it lights the layer up again, and nothing
\* darkens it after that.
StopFreesRevealed ==
  \A v \in Voice :
    (\E s \in Slot : slot[s].voice = v /\ slot[s].unload)
      ~> (\A s \in Slot : slot[s].voice # v) \/ v \in past.raised

\* The safety of the outputs, in one: what is seen and heard is somebody's, and nobody
\* waits for what is not there.
OutputSafety == /\ TypeOK /\ PictureIsOwned /\ SoundHasPicture /\ RunningIsAccounted
                /\ CurtainIsUp /\ TextIsSeen /\ NoTextLeft
=============================================================================
