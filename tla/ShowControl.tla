---------------------------- MODULE ShowControl ----------------------------
(***************************************************************************)
(* The transport (Transport::go and the stop, pause and resume commands)    *)
(* and the event loop that ticks, completes and chains cues, over one cue   *)
(* list of Audio, Mic, Wait and instant cues.                               *)
(*                                                                          *)
(* Three threads share the workspace: commands take its lock, the event     *)
(* loop tries it and gives its tick up when it is held, and the audio       *)
(* callback never takes it.  A command is one step, except that a GO chain  *)
(* is one step per cue; a tick is one step per pass over the cues.          *)
(***************************************************************************)
EXTENDS CueRuntime

CONSTANTS N,          \* the list is 1..N; a playhead of N + 1 stands for None
          Shows,      \* the show files considered
          Operator,   \* the commands the operator uses
          DeviceLoss, \* whether the output device can stop calling back
          MaxChain,   \* MAX_CHAIN_STEPS
          MaxCount    \* how far the histories count

CommandNames == {"go", "go_cue", "stop_all", "hard_stop_all", "stop_cue",
                 "hard_stop_cue", "pause_cue", "resume_cue", "set_playhead"}

ASSUME ListAssumption == N \in Nat \ {0} /\ Cue = 1..N
ASSUME ShowAssumption == Shows \subseteq [Cue -> CueDef]
\* A Mic Cue has no duration and no file to decode.
ASSUME MicAssumption ==
  \A s \in Shows, c \in Cue :
    s[c].kind = "mic" => s[c].length = "loop" /\ s[c].media # "loading"
ASSUME BoundAssumption == /\ Operator \subseteq CommandNames
                          /\ DeviceLoss \in BOOLEAN
                          /\ MaxChain \in Nat \ {0}
                          /\ MaxCount \in Nat \ {0, 1}

VARIABLES
  show,      \* the show file, fixed over a behaviour
  disabled,  \* the cues with is_disabled set
  decoded,   \* the Audio Cues whose samples have arrived, the Mic Cues whose input is there
  playhead,
  rt,        \* the runtime of every cue
  eng,       \* the state of every voice in the engine
  looping,   \* the voices that loop until released
  statusQ,   \* Completed statuses in the engine's ring
  stalled,   \* the output device has stopped calling back
  lock,      \* who holds the workspace: "free", "command" or "loop"
  steps,     \* the iteration of the GO chain in progress, 0 when there is none
  pc,        \* the pass of the event loop
  drained,   \* the completed_voice_ids of this tick
  goDue,     \* should_go_lists holds the list
  follow,    \* auto_follow_pending: "none", "waiting" or "due" for every cue
  frozen,    \* audio_frozen
  autoPaused \* auto_paused

\* History, read by properties only.
VARIABLES
  chains,    \* Auto-Continues of the current play of an Audio or a Mic Cue, up to MaxCount
  gos,       \* GOs on it in that play, up to MaxCount: go() ignores all but the first
  quiet      \* a panic was the last thing the operator did, and no Auto-Follow waited

vars == <<show, disabled, decoded, playhead, rt, eng, looping, statusQ, stalled,
          lock, steps, pc, drained, goDue, follow, frozen, autoPaused,
          chains, gos, quiet>>

None     == N + 1
Position == 1..(N + 1)

TypeOK ==
  /\ show \in [Cue -> CueDef]
  /\ disabled \subseteq Cue /\ decoded \subseteq Cue
  /\ playhead \in Position
  /\ rt \in [Cue -> Runtime]
  /\ eng \in [Voice -> VoiceStates]
  /\ looping \subseteq Voice /\ statusQ \subseteq Voice
  /\ stalled \in BOOLEAN
  /\ lock \in {"free", "command", "loop"}
  /\ steps \in 0..MaxChain
  /\ pc \in {"idle", "drained", "tick", "reap", "continue", "go"}
  /\ drained \subseteq Voice
  /\ goDue \in BOOLEAN
  /\ follow \in [Cue -> {"none", "waiting", "due"}]
  /\ frozen \in BOOLEAN /\ autoPaused \subseteq Cue
  /\ chains \in [Cue -> 0..MaxCount] /\ gos \in [Cue -> 0..MaxCount] /\ quiet \in BOOLEAN

Init ==
  /\ show \in Shows
  /\ disabled = {}
  /\ decoded = {c \in Cue : show[c].media = "ready"}
  /\ playhead = 1
  /\ rt = [c \in Cue |-> Idle]
  /\ eng = [v \in Voice |-> "free"]
  /\ looping = {} /\ statusQ = {} /\ stalled = FALSE
  /\ lock = "free" /\ steps = 0
  /\ pc = "idle" /\ drained = {} /\ goDue = FALSE
  /\ follow = [c \in Cue |-> "none"]
  /\ frozen = FALSE /\ autoPaused = {}
  /\ chains = [c \in Cue |-> 0] /\ gos = [c \in Cue |-> 0] /\ quiet = FALSE

---------------------------------------------------------------------------
\* Calls on cues.

Running(c) == rt[c].state = "running"
Active(c)  == rt[c].state \in {"running", "paused"}
IsAudio(c) == show[c].kind = "audio"
HasVoice(c) == show[c].kind \in Voiced

Owned == {rt[c].voice : c \in Cue}

\* The identifiers c may take for a new voice: no other cue remembers them, and
\* what is left of the old voice is silent (only a panic still reaches it).
Fresh(c) == {v \in Voice : /\ eng[v] \notin {"playing", "fading"}
                           /\ \A d \in Cue \ {c} : rt[d].voice # v}

\* is_action_started(): an Audio or a Mic Cue defers its action.
ActionStarted(c) == ~(HasVoice(c) /\ rt[c].pre)

PostWaitOver(c) == ~show[c].post \/ "post" \in rt[c].ripe

\* Mutant of TimeDone: a cue with a voice is completed by its voice alone.
TimeDoneOfWaits(c) == "end" \in rt[c].ripe /\ show[c].kind = "wait"

\* duration() is known and action_elapsed() has reached it; it ignores slices.
TimeDone(c) ==
  /\ "end" \in rt[c].ripe
  /\ \/ show[c].kind = "wait"
     \/ IsAudio(c) /\ show[c].length # "loop" /\ c \in decoded

Submitters(ops) ==
  {c \in Cue : Submits(ops[c], rt[c], show[c], c \in decoded)}

\* A play of a cue with a voice begins (play_generation moves) or is over.
Begins(op, c)   == op \in {"go", "preload"} /\ ~Running(c)
Restarts(op, c) == Begins(op, c) \/ op \in {"stop", "hard_stop", "reset"}

\* Distinct new voices for the cues whose action starts.
Voices(ops) ==
  {new \in [Submitters(ops) -> Voice] :
     /\ \A c \in Submitters(ops) : new[c] \in Fresh(c)
     /\ \A c, d \in Submitters(ops) : new[c] = new[d] => c = d}

\* One call on each cue c with ops[c] # "none": the runtime it leaves,
RtAfter(ops, new) ==
  [c \in Cue |-> After(ops[c], rt[c], show[c], c \in decoded,
                       IF c \in Submitters(ops) THEN new[c] ELSE NoVoice)]

\* and the commands sent to the engine, for new voices and for owned ones.
EngAfter(ops, new) ==
  [v \in Voice |->
     IF \E c \in Submitters(ops) : new[c] = v
     THEN IF \E c \in Submitters(ops) : new[c] = v /\ ops[c] = "preload"
          THEN "paused" ELSE "playing"
     ELSE IF v \in Owned
     THEN EngineAfter(ops[CHOOSE c \in Cue : rt[c].voice = v],
                      rt[CHOOSE c \in Cue : rt[c].voice = v], eng[v])
     ELSE eng[v]]

\* A reused identifier forgets what the old voice was.
LoopsAfter(ops, new) ==
  {v \in Voice :
     IF \E c \in Submitters(ops) : new[c] = v
     THEN \E c \in Submitters(ops) : new[c] = v /\ show[c].length # "finite"
     ELSE v \in looping}

\* A status of the old voice would name nobody: it goes with the old identifier.
Taken(new) == {new[c] : c \in DOMAIN new}

Counted(n) == IF n < MaxCount THEN n + 1 ELSE n

\* Every GO of a play counts, the ignored ones too; a resume looks at no state, and
\* is the GO of a cue it finds without a play.
GosAfter(ops) ==
  [c \in Cue |->
     IF ~HasVoice(c) \/ ops[c] \in {"stop", "hard_stop", "reset"} THEN 0
     ELSE IF Begins(ops[c], c) THEN 1
     ELSE IF ops[c] \in {"go", "preload"} \/ (ops[c] = "resume" /\ gos[c] = 0)
          THEN Counted(gos[c])
     ELSE gos[c]]

ChainsAfter(ops) == [c \in Cue |-> IF Restarts(ops[c], c) THEN 0 ELSE chains[c]]

\* The cues of a set are chained on by Auto-Continue.
ChainedOn(set, count) ==
  [c \in Cue |-> IF c \in set /\ HasVoice(c) THEN Counted(count[c]) ELSE count[c]]

Call(ops) ==
  \E new \in Voices(ops) :
    /\ rt' = RtAfter(ops, new)
    /\ eng' = EngAfter(ops, new)
    /\ looping' = LoopsAfter(ops, new)
    /\ statusQ' = statusQ \ Taken(new) /\ drained' = drained \ Taken(new)
    /\ chains' = ChainsAfter(ops) /\ gos' = GosAfter(ops)

Only(c, op)   == [d \in Cue |-> IF d = c THEN op ELSE "none"]
Each(set, op) == [d \in Cue |-> IF d \in set THEN op ELSE "none"]

---------------------------------------------------------------------------
\* GO.

NextEnabled(p) ==
  LET later == {q \in Cue : q > p /\ q \notin disabled}
  IN  IF later = {} THEN None ELSE CHOOSE q \in later : \A r \in later : q <= r

StopTargets(c) ==
  IF show[c].targets = {} THEN {d \in Cue : Active(d)} \ {c}
                          ELSE show[c].targets \ {c}

CommandTargets(c) == show[c].targets \ {c}

\* Arm, Disarm and Goto call nothing on their targets; Reset hard-stops first.
CommandCall(action) ==
  CASE action = "start" -> "go"
    [] action = "load"  -> "preload"
    [] action = "reset" -> "hard_stop"
    [] action \in {"arm", "disarm", "goto"} -> "none"
    [] action \in {"pause", "resume"} -> action

\* The calls a GO on c makes: on c, then what a Stop or a Command Cue asks for.
FireCalls(c) ==
  [d \in Cue |->
     IF d = c THEN "go"
     ELSE IF show[c].kind = "stop" /\ d \in StopTargets(c)
          THEN (IF show[c].hard THEN "hard_stop" ELSE "stop")
     ELSE IF show[c].kind = "command" /\ d \in CommandTargets(c)
          THEN CommandCall(show[c].action)
     ELSE "none"]

\* A devamp releases sliced voices only.
Released(c) ==
  IF show[c].kind = "devamp"
  THEN {rt[d].voice : d \in {e \in show[c].targets :
                               IsAudio(e) /\ show[e].length = "vamp"}}
  ELSE {}

Fails(c) == HasVoice(c) /\ ~Running(c) /\ ~show[c].pre /\ c \notin decoded

PlayheadAfter(c) ==
  IF show[c].kind = "command" /\ show[c].action = "goto" /\ CommandTargets(c) # {}
  THEN CHOOSE d \in CommandTargets(c) : TRUE
  ELSE NextEnabled(c)

DisabledAfter(c) ==
  IF show[c].kind # "command" THEN disabled
  ELSE CASE show[c].action = "arm"    -> disabled \ CommandTargets(c)
         [] show[c].action = "disarm" -> disabled \cup CommandTargets(c)
         [] OTHER                     -> disabled

\* chain_now, from the state go() left the cue in.
ChainsNow(c, state) ==
  \/ show[c].mode = "continue" /\ ~show[c].post
  \/ show[c].mode = "follow" /\ state # "running"

\* Mutant of Mark: the default mark_auto_continue_fired(), which does nothing.
MarkNothing(set, r) == r

\* mark_auto_continue_fired() does something on an Audio and a Mic Cue only.
Mark(set, r) ==
  [c \in Cue |-> IF c \in set /\ HasVoice(c) THEN [r[c] EXCEPT !.fired = TRUE]
                                            ELSE r[c]]

\* The end of a tick forgets the voices that have stopped.
Collect(e) == [v \in Voice |-> IF e[v] = "stopped" THEN "free" ELSE e[v]]

\* The holder leaves: a command returns, or the loop collects and goes to sleep.
Release(e, done) ==
  /\ lock' = "free" /\ steps' = 0
  /\ goDue' = FALSE
  /\ pc' = IF lock = "loop" THEN "idle" ELSE pc
  /\ drained' = IF lock = "loop" THEN {} ELSE done
  /\ eng' = IF lock = "loop" THEN Collect(e) ELSE e

\* Mutants of Again: the cap is checked too late; the iterations are not counted.
AgainOnceMore(e, done) ==
  \/ /\ steps <= MaxChain
     /\ steps' = steps + 1 /\ eng' = e /\ drained' = done
     /\ UNCHANGED <<lock, goDue, pc>>
  \/ steps > MaxChain /\ Release(e, done)
AgainForEver(e, done) ==
  /\ eng' = e /\ drained' = done
  /\ UNCHANGED <<steps, lock, goDue, pc>>

\* The loop of Transport::go goes round again, unless it has reached its cap.
Again(e, done) ==
  \/ /\ steps < MaxChain
     /\ steps' = steps + 1 /\ eng' = e /\ drained' = done
     /\ UNCHANGED <<lock, goDue, pc>>
  \/ steps = MaxChain /\ Release(e, done)

\* The cue at the playhead is fired, after the playhead has moved on.
Fire(c) ==
  \E new \in Voices(FireCalls(c)) :
    LET r == RtAfter(FireCalls(c), new)
        e == EngAfter(FireCalls(c), new)
        done == drained \ Taken(new)
        chained  == ~Fails(c) /\ ChainsNow(c, r[c].state)
        byAutoContinue == chained /\ show[c].mode = "continue"
    IN  /\ rt' = IF byAutoContinue THEN Mark({c}, r) ELSE r
        /\ looping' = LoopsAfter(FireCalls(c), new) \ Released(c)
        /\ chains' = ChainedOn(IF byAutoContinue THEN {c} ELSE {},
                               ChainsAfter(FireCalls(c)))
        /\ gos' = GosAfter(FireCalls(c))
        /\ playhead' = PlayheadAfter(c)
        /\ disabled' = DisabledAfter(c)
        /\ statusQ' = statusQ \ Taken(new)
        /\ IF chained THEN Again(e, done) ELSE Release(e, done)

\* One iteration of Transport::go, under the lock of a command or of the loop.
GoStep ==
  /\ lock # "free" /\ steps > 0
  /\ \/ /\ playhead = None
        /\ Release(eng, drained)
        /\ UNCHANGED <<disabled, playhead, rt, looping, statusQ, chains, gos>>
     \/ /\ playhead \in disabled
        /\ playhead' = NextEnabled(playhead)
        /\ Again(eng, drained)
        /\ UNCHANGED <<disabled, rt, looping, statusQ, chains, gos>>
     \/ /\ playhead \in Cue \ disabled
        /\ Fire(playhead)
  /\ UNCHANGED <<show, decoded, stalled, follow, frozen, autoPaused, quiet>>

---------------------------------------------------------------------------
\* Commands.

Loading(c) == IsAudio(c) /\ show[c].media # "absent" /\ c \notin decoded

Command(name) == name \in Operator /\ lock = "free"

StartGo == /\ lock' = "command" /\ steps' = 1
           /\ quiet' = FALSE
           /\ UNCHANGED <<show, disabled, decoded, rt, eng, looping, statusQ, stalled,
                          pc, drained, goDue, follow, frozen, autoPaused, chains,
                          gos>>

\* GO is skipped while the file of the cue at the playhead is being decoded.
Go == /\ Command("go")
      /\ playhead \in Cue => ~Loading(playhead)
      /\ UNCHANGED playhead
      /\ StartGo

GoCue(c) == /\ Command("go_cue")
            /\ ~Loading(c)
            /\ playhead' = c
            /\ StartGo

SetPlayhead(c) ==
  /\ Command("set_playhead")
  /\ playhead' = c
  /\ UNCHANGED <<show, disabled, decoded, rt, eng, looping, statusQ, stalled, lock,
                 steps, pc, drained, goDue, follow, frozen, autoPaused, chains, gos, quiet>>

Calls(name, ops) ==
  /\ Command(name)
  /\ Call(ops)
  /\ quiet' = FALSE
  /\ UNCHANGED <<show, disabled, decoded, playhead, stalled, lock, steps, pc, goDue,
                 follow, frozen, autoPaused>>

StopAll        == Calls("stop_all", Each({c \in Cue : Active(c)}, "stop"))
StopCue(c)     == Calls("stop_cue", Only(c, "stop"))
HardStopCue(c) == Calls("hard_stop_cue", Only(c, "hard_stop"))
PauseCue(c)    == Calls("pause_cue", Only(c, "pause"))
ResumeCue(c)   == Calls("resume_cue", Only(c, "resume"))

\* Every voice of every pool is cut, then every cue is reset.
HardStopAll ==
  /\ Command("hard_stop_all")
  /\ rt' = [c \in Cue |-> Idle]
  /\ eng' = [v \in Voice |-> IF eng[v] = "free" THEN "free" ELSE "stopped"]
  /\ quiet' = \A c \in Cue : follow[c] = "none"
  /\ chains' = [c \in Cue |-> 0] /\ gos' = [c \in Cue |-> 0]
  /\ UNCHANGED <<show, disabled, decoded, playhead, looping, statusQ, stalled, lock,
                 steps, pc, drained, goDue, follow, frozen, autoPaused>>

---------------------------------------------------------------------------
\* The event loop.

OutsideTick == <<show, disabled, decoded, playhead, stalled, quiet>>

\* The statuses are taken from the ring before the lock is tried.
DrainStatus ==
  /\ pc = "idle"
  /\ drained' = statusQ /\ statusQ' = {}
  /\ pc' = "drained"
  /\ UNCHANGED <<OutsideTick, rt, eng, looping, chains, gos, lock, steps, goDue, follow,
                 frozen, autoPaused>>

\* A command holds the workspace: the tick ends here.
SkipTick ==
  /\ pc = "drained" /\ lock # "free"
  /\ pc' = "idle" /\ drained' = {}
  /\ UNCHANGED <<OutsideTick, rt, eng, looping, chains, gos, statusQ, lock, steps, goDue,
                 follow, frozen, autoPaused>>

\* Whether the loop takes the output for frozen: a stall is noticed after a while.
FrozenNow == IF ~stalled THEN {FALSE} ELSE IF frozen THEN {TRUE} ELSE BOOLEAN

\* The freeze guard pauses what plays, and resumes it when the callbacks return.
GuardPauses  == {c \in Cue : Running(c) /\ rt[c].voice # NoVoice}
GuardResumesAll == autoPaused  \* mutant: the state of the cue is not looked at
GuardResumes == {c \in autoPaused : rt[c].state = "paused"}

LockWorkspace ==
  /\ pc = "drained" /\ lock = "free"
  /\ \E now \in FrozenNow :
       /\ frozen' = now
       /\ CASE now /\ ~frozen -> /\ Call(Each(GuardPauses, "pause"))
                                 /\ autoPaused' = autoPaused \cup GuardPauses
            [] ~now /\ frozen -> /\ Call(Each(GuardResumes, "resume"))
                                 /\ autoPaused' = {}
            [] now <=> frozen -> UNCHANGED <<rt, eng, looping, statusQ, drained, chains,
                                            gos, autoPaused>>
  /\ goDue' = (\E c \in Cue : follow[c] = "due")
  /\ follow' = [c \in Cue |-> IF follow[c] = "due" THEN "none" ELSE follow[c]]
  /\ lock' = "loop" /\ pc' = "tick"
  /\ UNCHANGED <<OutsideTick, steps>>

TickCues ==
  /\ pc = "tick"
  /\ Call(Each({c \in Cue : Running(c)}, "tick"))
  /\ pc' = "reap"
  /\ UNCHANGED <<OutsideTick, lock, steps, goDue, follow, frozen, autoPaused>>

VoiceDone(c) == rt[c].voice \in drained

Done == {c \in Cue : Running(c) /\ (VoiceDone(c) \/ TimeDone(c))}

\* Mutant of GoWanted: a GO that was due already is forgotten.
GoWantedNow == \E c \in Done : show[c].mode = "follow" /\ ~show[c].post

\* should_go_lists, once the completions have asked for their Auto-Follow.
GoWanted == goDue \/ \E c \in Done : show[c].mode = "follow" /\ ~show[c].post

\* Completions; Auto-Follow asks for a GO now or after the post-wait.
ReapCompleted ==
  /\ pc = "reap"
  /\ Call(Each(Done, "reset"))
  /\ goDue' = GoWanted
  /\ follow' = [c \in Cue |->
       IF c \in Done /\ show[c].mode = "follow" /\ show[c].post
       THEN "waiting" ELSE follow[c]]
  /\ pc' = "continue"
  /\ UNCHANGED <<OutsideTick, lock, steps, frozen, autoPaused>>

\* The cues whose Auto-Continue is due.
AutoContinues ==
  {c \in Cue : /\ Running(c) /\ show[c].mode = "continue" /\ ~rt[c].fired
               /\ ActionStarted(c) /\ PostWaitOver(c)}

ContinueCues ==
  /\ pc = "continue"
  /\ rt' = Mark(AutoContinues, rt)
  /\ chains' = ChainedOn(AutoContinues, chains)
  /\ IF goDue \/ AutoContinues # {}
     THEN /\ pc' = "go" /\ steps' = 1 /\ goDue' = FALSE
          /\ UNCHANGED <<eng, lock, drained>>
     ELSE Release(eng, drained)
  /\ UNCHANGED <<OutsideTick, looping, statusQ, follow, frozen, autoPaused, gos>>

EventLoop == \/ DrainStatus \/ SkipTick \/ LockWorkspace \/ TickCues
             \/ ReapCompleted \/ ContinueCues

---------------------------------------------------------------------------
\* The audio callback, the clocks and the decoder.

Audible(v) == eng[v] \in {"playing", "fading"}

\* A voice reaches its end, or its fade-out does.
VoiceEnds(v) ==
  /\ ~stalled
  /\ Audible(v) /\ (eng[v] = "playing" => v \notin looping)
  /\ eng' = [eng EXCEPT ![v] = "stopped"]
  /\ statusQ' = statusQ \cup {v}
  /\ UNCHANGED <<show, disabled, decoded, playhead, rt, looping, stalled, lock, steps,
                 pc, drained, goDue, follow, frozen, autoPaused, chains, gos, quiet>>

\* Whether anything reads the predicate.
Clocked(c, due) ==
  CASE due = "pre"  -> rt[c].pre
    [] due = "post" -> rt[c].acting /\ show[c].post /\ show[c].mode = "continue"
    [] due = "end"  -> /\ rt[c].acting
                       /\ HasVoice(c) => show[c].length # "loop"

Elapse(c, due) ==
  /\ Running(c) /\ Clocked(c, due) /\ due \notin rt[c].ripe
  /\ rt' = [rt EXCEPT ![c].ripe = @ \cup {due}]
  /\ UNCHANGED <<show, disabled, decoded, playhead, eng, looping, statusQ, stalled,
                 lock, steps, pc, drained, goDue, follow, frozen, autoPaused, chains,
                 gos, quiet>>

FollowDue(c) ==
  /\ follow[c] = "waiting"
  /\ follow' = [follow EXCEPT ![c] = "due"]
  /\ UNCHANGED <<show, disabled, decoded, playhead, rt, eng, looping, statusQ, stalled,
                 lock, steps, pc, drained, goDue, frozen, autoPaused, chains, gos, quiet>>

\* accept_preloaded_audio: the decoder takes the lock for one call.
AcceptPreloadedAudio(c) ==
  /\ lock = "free"
  /\ show[c].media = "loading" /\ c \notin decoded
  /\ decoded' = decoded \cup {c}
  /\ UNCHANGED <<show, disabled, playhead, rt, eng, looping, statusQ, stalled, lock,
                 steps, pc, drained, goDue, follow, frozen, autoPaused, chains, gos, quiet>>

Device ==
  /\ DeviceLoss
  /\ stalled' = ~stalled
  /\ UNCHANGED <<show, disabled, decoded, playhead, rt, eng, looping, statusQ, lock,
                 steps, pc, drained, goDue, follow, frozen, autoPaused, chains, gos, quiet>>

---------------------------------------------------------------------------
Next ==
  \/ Go \/ StopAll \/ HardStopAll \/ GoStep \/ EventLoop \/ Device
  \/ \E c \in Cue : \/ GoCue(c) \/ SetPlayhead(c) \/ StopCue(c) \/ HardStopCue(c)
                    \/ PauseCue(c) \/ ResumeCue(c)
                    \/ FollowDue(c) \/ AcceptPreloadedAudio(c)
                    \/ \E due \in Due : Elapse(c, due)
  \/ \E v \in Voice : VoiceEnds(v)

Spec == Init /\ [][Next]_vars

(***************************************************************************)
(* A GO runs to its end; time passes; voices end; the loop keeps ticking    *)
(* (30 times a second), and neither the start of its tick nor its try_lock  *)
(* always falls inside a command.                                           *)
(***************************************************************************)
Fairness ==
  /\ WF_vars(GoStep) /\ WF_vars(EventLoop)
  /\ SF_vars(lock = "free" /\ DrainStatus) /\ SF_vars(LockWorkspace)
  /\ \A c \in Cue : WF_vars(FollowDue(c)) /\ \A due \in Due : WF_vars(Elapse(c, due))
  /\ \A v \in Voice : WF_vars(VoiceEnds(v))

FairSpec == Spec /\ Fairness

---------------------------------------------------------------------------
\* What the transport and the loop guarantee.

\* A voice has at most one owner, a cue that is running or paused: a
\* completion names one cue, and Stop reaches every voice a cue remembers.
VoiceOwnership ==
  /\ \A c \in Cue : rt[c].voice # NoVoice => HasVoice(c) /\ Active(c)
  /\ \A c, d \in Cue : c # d /\ rt[c].voice = rt[d].voice => rt[c].voice = NoVoice

\* A cue that may lose an endless voice that sounds: the old voice is resumed in the
\* pre-wait of the next GO and forgotten when the new one starts; or it vamps, and is
\* completed by the wall clock, which ignores slices.
ForgetsVoices(c) ==
  HasVoice(c) /\ (show[c].length = "vamp" \/ (show[c].length = "loop" /\ show[c].pre))

\* A voice that would play for ever belongs to a cue Stop All visits, in every show
\* without a cue that forgets voices.
LoopReachable ==
  \A v \in looping : eng[v] = "playing" =>
    \E c \in Cue : (Active(c) /\ rt[c].voice = v) \/ ForgetsVoices(c)

\* In a play of an Audio or a Mic Cue Auto-Continue fires no more often than the cue is
\* given a GO: the transport and the loop never both chain the same GO on.  A further GO
\* on a cue that still runs is ignored by go(), yet the transport chains it on again: it
\* sets auto_continue_fired and never reads it, so "once a play" would be wrong.
AutoContinueOnce == \A c \in Cue : HasVoice(c) => chains[c] <= gos[c]

\* After a panic nothing runs until the operator starts something, or an
\* Auto-Follow that waited for its post-wait does: the panic leaves it pending.
PanicHolds == quiet => \A c \in Cue : ~Running(c)

\* A GO gives the workspace back, even when Goto routes its chain into itself.
ChainReturns == lock = "command" ~> lock = "free"

\* An Audio Cue of known length does not run for ever, even when the tick that
\* took the completion of its voice was given up.
FiniteCueEnds ==
  \A c \in Cue : (Running(c) /\ IsAudio(c) /\ show[c].length = "finite" /\ c \in decoded)
                   ~> ~Running(c)

\* A completion that asks for Auto-Follow is followed by a GO of the loop, at once
\* or after its post-wait; a cue that completes again meanwhile restarts the wait.
FollowFires ==
  \A c \in Cue :
    /\ (pc = "reap" /\ c \in Done /\ show[c].mode = "follow" /\ ~show[c].post)
         ~> (pc = "go")
    /\ (follow[c] = "waiting") ~> (pc = "go" \/ (pc = "reap" /\ c \in Done))
============================================================================
