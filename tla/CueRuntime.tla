---------------------------- MODULE CueRuntime ----------------------------
(***************************************************************************)
(* The life cycle of one cue: what go, stop, pause, resume, hard_stop,      *)
(* reset, preload and tick of the trait Cue do to the runtime fields of an  *)
(* Audio, a Mic, a Wait or an instant cue (Memo, Stop, Command, Devamp, OSC, *)
(* MIDI, Script).  Every method is an operator from the record before the   *)
(* call to the record after it; the voice an Audio or a Mic Cue submits is  *)
(* chosen by the caller, and what the call does to the audio engine is      *)
(* EngineAfter.  A call finds room in the command ring: the error of a full  *)
(* one (256 commands behind a device that has stalled), after which a GO is   *)
(* rolled back and a stop breaks off, is in AudioEngine and not here.         *)
(*                                                                          *)
(* Time is abstracted to three predicates a running clock makes true:       *)
(*   "pre"   elapsed() >= pre_wait        "post"  action_elapsed() >= post  *)
(*   "end"   action_elapsed() >= duration                                   *)
(***************************************************************************)
EXTENDS Naturals, FiniteSets

CONSTANTS Cue,      \* the cues of the list (their identifiers)
          Voice,    \* engine voices; an identifier is reused once forgotten
          NoVoice   \* active_voice_id = None

ASSUME VoiceAssumption == NoVoice \notin Voice

Due    == {"pre", "post", "end"}
States == {"standby", "running", "paused", "completed"}
Kinds  == {"audio", "mic", "wait", "memo", "stop", "command", "devamp", "osc", "midi", "script"}
Voiced == {"audio", "mic"}                \* the kinds that own a voice and defer their action
Modes  == {"none", "continue", "follow"}
Lengths == {"finite", "loop", "vamp"}     \* loop: loop_count = u32::MAX; vamp: a slice with no play count
\* absent: no file assigned; of a Mic Cue: no input patch, or its device cannot be opened.
Media   == {"ready", "loading", "absent"}
CommandActions ==
  {"start", "pause", "resume", "load", "reset", "goto", "arm", "disarm"}

\* What the show file says of a cue.  pre and post say that the wait is not zero.
CueDef == [kind: Kinds, mode: Modes, pre: BOOLEAN, post: BOOLEAN,
           length: Lengths, media: Media,
           action: CommandActions, hard: BOOLEAN, targets: SUBSET Cue]

\* What a cue remembers while the show runs.  acting: action_started_at is set;
\* ripe: the predicates its clocks have reached; mark: the same for the frozen
\* elapsed_before_pause and action_elapsed_before_pause; fired:
\* auto_continue_fired.
Runtime == [state: States, pre: BOOLEAN, acting: BOOLEAN, fired: BOOLEAN,
            voice: Voice \cup {NoVoice}, ripe: SUBSET Due, mark: SUBSET Due]

Idle == [state |-> "standby", pre |-> FALSE, acting |-> FALSE, fired |-> FALSE,
         voice |-> NoVoice, ripe |-> {}, mark |-> {}]

Operations == {"none", "go", "stop", "hard_stop", "pause", "resume", "preload",
               "reset", "tick"}

---------------------------------------------------------------------------
\* The action of an Audio or a Mic Cue begins: a voice is submitted and the action clock starts.
StartAudioAction(r, v) ==
  [r EXCEPT !.voice = v, !.acting = TRUE, !.pre = FALSE,
            !.ripe = r.ripe \cap {"pre"}]

\* What stop, hard_stop and reset leave.  Mutant: the voice is not forgotten.
HaltedKeepingVoice(r) == [Idle EXCEPT !.voice = r.voice]
Halted(r) == Idle

\* A second GO on a running cue is ignored; a failed start rolls back to Standby.
AudioGo(r, d, decoded, v) ==
  LET fresh == [r EXCEPT !.state = "running", !.fired = FALSE, !.ripe = {}]
  IN  IF r.state = "running" THEN r
      ELSE IF d.pre THEN [fresh EXCEPT !.pre = TRUE]
      ELSE IF decoded THEN StartAudioAction(fresh, v)
      ELSE [fresh EXCEPT !.state = "standby"]

\* Ignored in pre-wait only: no other state is looked at.
AudioPause(r) ==
  IF r.pre THEN r
  ELSE LET frozen == IF r.state = "running" THEN r.ripe ELSE r.mark
       IN  [r EXCEPT !.state = "paused", !.acting = FALSE,
                     !.ripe = frozen, !.mark = frozen]

\* No state is looked at: both clocks are re-anchored to the frozen position.
AudioResume(r) == [r EXCEPT !.state = "running", !.acting = TRUE, !.ripe = r.mark]

AudioTick(r, decoded, v) ==
  IF r.pre /\ "pre" \in r.ripe /\ decoded THEN StartAudioAction(r, v) ELSE r

Audio(op, r, d, decoded, v) ==
  CASE op = "go"      -> AudioGo(r, d, decoded, v)
    [] op = "preload" -> LET up == AudioGo(r, d, decoded, v)
                         IN  IF up.state = "standby" THEN up ELSE AudioPause(up)
    [] op = "pause"   -> AudioPause(r)
    [] op = "resume"  -> AudioResume(r)
    [] op = "tick"    -> AudioTick(r, decoded, v)
    [] op \in {"stop", "hard_stop", "reset"} -> Halted(r)
    [] OTHER          -> r

\* A Mic Cue looks at no state either, but its clock is neither frozen nor anchored.
MicPause(r) == IF r.pre THEN r ELSE [r EXCEPT !.state = "paused"]

\* Its preload is that of the trait, go and pause.
Mic(op, r, d, found, v) ==
  CASE op = "go"      -> AudioGo(r, d, found, v)
    [] op = "preload" -> LET up == AudioGo(r, d, found, v)
                         IN  IF up.state = "standby" THEN up ELSE MicPause(up)
    [] op = "pause"   -> MicPause(r)
    [] op = "resume"  -> [r EXCEPT !.state = "running"]
    [] op = "tick"    -> AudioTick(r, found, v)
    [] op \in {"stop", "hard_stop", "reset"} -> Idle
    [] OTHER          -> r

WaitGo == [Idle EXCEPT !.state = "running", !.acting = TRUE]

WaitPause(r) ==
  IF r.state = "running" THEN [r EXCEPT !.state = "paused"] ELSE r

\* A Wait restarts on every GO, and pauses and resumes only from the right state.
Wait(op, r) ==
  CASE op = "go"      -> WaitGo
    [] op = "preload" -> WaitPause(WaitGo)
    [] op = "pause"   -> WaitPause(r)
    [] op = "resume"  -> IF r.state = "paused"
                         THEN [r EXCEPT !.state = "running"] ELSE r
    [] op \in {"stop", "hard_stop", "reset"} -> Idle
    [] OTHER          -> r

\* A cue that completes inside go().
Instant(op, r) ==
  CASE op \in {"go", "preload"} -> [Idle EXCEPT !.state = "completed"]
    [] op \in {"stop", "hard_stop", "reset"} -> Idle
    [] OTHER -> r

Memos(op, r)      == Instant(op, r)
StopCues(op, r)   == Instant(op, r)     \* what it stops is the transport's: StopTargets
CommandCues(op, r) == Instant(op, r)    \* likewise: CommandCall
Devamps(op, r)    == Instant(op, r)     \* likewise: Released
Osc(op, r)        == Instant(op, r)     \* a message that cannot be sent is logged
Midi(op, r)       == Instant(op, r)     \* likewise
Script(op, r)     == Instant(op, r)     \* its process is launched, and not waited for

After(op, r, d, decoded, v) ==
  CASE d.kind = "audio"   -> Audio(op, r, d, decoded, v)
    [] d.kind = "mic"     -> Mic(op, r, d, decoded, v)
    [] d.kind = "wait"    -> Wait(op, r)
    [] d.kind = "memo"    -> Memos(op, r)
    [] d.kind = "stop"    -> StopCues(op, r)
    [] d.kind = "command" -> CommandCues(op, r)
    [] d.kind = "devamp"  -> Devamps(op, r)
    [] d.kind = "osc"     -> Osc(op, r)
    [] d.kind = "midi"    -> Midi(op, r)
    [] d.kind = "script"  -> Script(op, r)

\* The call submits a voice to the engine.
Submits(op, r, d, decoded) ==
  /\ d.kind \in Voiced /\ decoded
  /\ \/ op \in {"go", "preload"} /\ r.state # "running" /\ ~d.pre
     \/ op = "tick" /\ r.pre /\ "pre" \in r.ripe

---------------------------------------------------------------------------
(***************************************************************************)
(* A voice in the engine: free (not in a pool), playing, fading (a stop     *)
(* with a fade), paused, stopped (in the pool until the next collection).   *)
(***************************************************************************)
VoiceStates == {"free", "playing", "fading", "paused", "stopped"}

\* Mutant of EngineAfter: only a hard stop reaches a voice that plays.
EngineAfterHardOnly(op, r, s) ==
  CASE s = "free"                             -> s
    [] op = "hard_stop"                       -> "stopped"
    [] op = "stop"  /\ s = "paused"           -> "stopped"
    [] op = "pause" /\ ~r.pre                 -> "paused"
    [] op = "preload" /\ r.state = "running" /\ ~r.pre -> "paused"
    [] op = "resume"                          -> "playing"
    [] OTHER                                  -> s

\* The command a method sends for the voice it owns, as the callback applies it.
\* Pausing or resuming looks at no state; a fade on a paused voice cuts it.
EngineAfter(op, r, s) ==
  CASE s = "free"                             -> s
    [] op = "hard_stop"                       -> "stopped"
    [] op = "stop"  /\ s = "paused"           -> "stopped"
    [] op = "stop"  /\ s # "paused"           -> "fading"
    [] op = "pause" /\ ~r.pre                 -> "paused"
    [] op = "preload" /\ r.state = "running" /\ ~r.pre -> "paused"
    [] op = "resume"                          -> "playing"
    [] OTHER                                  -> s
============================================================================
