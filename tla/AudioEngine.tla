---------------------------- MODULE AudioEngine ----------------------------
(***************************************************************************)
(* The audio engine: a main output stream and one auxiliary stream (opened  *)
(* by the first cue whose Output Patch names another device), each with a   *)
(* voice pool, a command ring the callback drains, a status ring the event  *)
(* loop drains, and the callback itself; the control calls of the cues; the *)
(* collection of finished voices; the live input feed of Mic Cues; and the  *)
(* device watchdog with its fallback to the default device.                 *)
(*                                                                          *)
(* The callback works on the pool snapshot it loaded when it began, drains  *)
(* the ring command by command, then mixes.  Samples, gains, curves and     *)
(* positions are abstracted to one fact: the voice has run out (over).      *)
(* Bounds: the rings (trial.ring, StatusSize; 256 each in the code); a      *)
(* trial limits the control calls besides the GOs and the losses of devices.*)
(***************************************************************************)
EXTENDS Naturals, Sequences, FiniteSets, SequencesExt

CONSTANTS Voice,        \* the voices of a behaviour: a VoiceId is never reused
          StatusSize, RetryEvery,   \* RETRY_EVERY_TICKS
          Trials        \* what a behaviour may meet: records of
                        \*   ring      RingSize: the commands a ring takes
                        \*   plans     what the voices play: from Voice to ProgramKinds
                        \*   calls     MaxCalls, calling  the control calls, of Operations
                        \*   start     what may be plugged in at startup; {}: new_silent
                        \*   losses    MaxLosses, unstable the devices that may be lost;
                        \*             "aux" is the second one
                        \*   patched   voices whose Output Patch names the second device

Streams == {"main", "aux"}
Devices == {"chosen", "other"}       \* the hardware
Configs == {"chosen", "default"}     \* device_id: Some(chosen), or None
ProgramKinds == {"file", "vamp", "live"}
VoiceStates == {"free", "playing", "fading", "paused", "stopped", "gone"}
Operations == {"play", "stop", "fade", "pause", "resume", "devamp", "devampstop",
               "seek"}

ASSUME EngineAssumption ==
  /\ IsFiniteSet(Voice) /\ StatusSize \in Nat \ {0} /\ RetryEvery \in Nat \ {0}
  /\ \A t \in Trials :
       /\ t.plans \subseteq [Voice -> ProgramKinds] /\ t.calling \subseteq Operations
       /\ t.start \subseteq SUBSET Devices /\ t.unstable \subseteq Devices \cup {"aux"}
       /\ t.calls \in Nat /\ t.losses \in Nat
       /\ t.ring \in Nat \ {0} /\ t.patched \subseteq Voice

VARIABLES
  stream,    \* closed: no stream object; dead: its callbacks have stopped
  ring,      \* AudioCommands on their way to the callback
  report,    \* AudioStatus: the completions in the ring, and the slots in use
  pool,      \* VoicePool: the published snapshot
  at, snap,  \* the callback: idle or draining, and the snapshot it loaded
  state, prog, request, over,   \* Voice: state, slices left, devamp_request, at its end
  own,       \* voices a cue holds in active_voice_id
  ctl,       \* the command thread in the middle of a play call
  gc,        \* the event loop in the middle of gc_voices
  feed,      \* the input feed of the one capture device exists
  dev,       \* devices: present, the one in use, desired_config,
             \* in_fallback; the watchdog's ticks and the health it has read
  trial, calls, losses,     \* the trial, and what it has used up
  released, leaked, unheard  \* history, see the properties

callback == <<at, snap>>
voices   == <<state, prog, request, over>>
device   == <<dev, losses>>
bounds   == <<calls, trial>>
history  == <<released, leaked, unheard>>
vars == <<stream, ring, report, pool, callback, voices, own, ctl, gc, feed, device,
          bounds, history>>

Idle == [do |-> "idle"]
NoReport == [done |-> {}, used |-> 0]
Cmd(op, v) == [op |-> op, voice |-> v]
StopAll == [op |-> "stopall"]
SetPatchGain == [op |-> "gain"]
Commands == [op: Operations, voice: Voice] \cup {StopAll, SetPatchGain}

\* The hardware a configuration opens: None is the system default, which is
\* some device as long as one is plugged in.
Opens(c, set) == IF c = "chosen" THEN set \cap {"chosen"}
                 ELSE IF "other" \in set THEN {"other"} ELSE set

\* new: a chosen device that is not there falls back at once; new_silent: nothing
\* opens, and no callback empties the ring.
Init ==
  /\ trial \in Trials
  /\ dev \in { [present |-> set, desired |-> c, ticks |-> 0, health |-> "ok",
                on |-> IF Opens(c, set) = {} THEN "other"
                       ELSE CHOOSE d \in Opens(c, set) : TRUE,
                fallback |-> Opens(c, set) = {} /\ set # {}] :
                set \in trial.start, c \in Configs }
  /\ stream = [s \in Streams |->
                 IF s = "main" /\ dev.present # {} THEN "live" ELSE "closed"]
  /\ ring = [s \in Streams |-> <<>>] /\ report = [s \in Streams |-> NoReport]
  /\ pool = [s \in Streams |-> {}]
  /\ at = [s \in Streams |-> "idle"] /\ snap = [s \in Streams |-> {}]
  /\ state = [v \in Voice |-> "free"] /\ prog \in trial.plans
  /\ request = [v \in Voice |-> "none"] /\ over = {}
  /\ own = {} /\ ctl = Idle /\ gc = "idle" /\ feed = FALSE
  /\ calls = 0 /\ losses = 0
  /\ released = {} /\ leaked = {} /\ unheard = {}

Home(v) == CHOOSE s \in Streams : v \in pool[s]
Pooled  == pool["main"] \cup pool["aux"]
Sounding(v) == state[v] \in {"playing", "fading"}
Names(c, v) == c = StopAll \/ (c.op \in Operations /\ c.voice = v)

---------------------------------------------------------------------------
(***************************************************************************)
(* Rings.  A push onto a full ring is refused: send_command returns the     *)
(* error, the auxiliary pushes ignore it.                                   *)
(***************************************************************************)
Full(s) == Len(ring[s]) >= trial.ring
Push(s, c) == IF Full(s) THEN ring[s] ELSE Append(ring[s], c)

\* send_command: the main stream only; the ring outlives a closed stream.
SendMain(c) == ring' = [ring EXCEPT !["main"] = Push("main", c)]

\* Mutant of Broadcast: only the main stream hears of it.
BroadcastMainOnly(c) == SendMain(c)

\* broadcast_command: every open stream, whatever became of the main push.
Broadcast(c) ==
  ring' = [s \in Streams |->
             IF s = "aux" /\ stream["aux"] = "closed" THEN ring[s] ELSE Push(s, c)]

\* Voices of stream s that a command in its ring was to silence, or to start.
Silenced(s) == { v \in pool[s] : \E i \in DOMAIN ring[s] :
                   Names(ring[s][i], v) /\ ring[s][i].op \in {"stop", "fade", "stopall"} }
Started(s) == { v \in pool[s] : \E i \in DOMAIN ring[s] :
                  ring[s][i] \in {Cmd("play", v), Cmd("resume", v)} }

---------------------------------------------------------------------------
(***************************************************************************)
(* The callback.                                                            *)
(***************************************************************************)
CallbackBegins(s) ==
  /\ stream[s] = "live" /\ at[s] = "idle"
  /\ at' = [at EXCEPT ![s] = "drain"] /\ snap' = [snap EXCEPT ![s] = pool[s]]
  /\ UNCHANGED <<stream, ring, report, pool, voices, own, ctl, gc, feed, device, bounds,
                 released, leaked, unheard>>

\* apply_command on the voice's state.  No state is looked at but by Stop: a
\* fade on a paused voice cuts it, for it must not become audible.
Applied(op, st) ==
  CASE op \in {"play", "resume"}    -> "playing"
    [] op = "pause"                 -> "paused"
    [] op \in {"stop", "stopall"}   -> "stopped"
    [] op = "fade" /\ st = "paused" -> "stopped"
    [] op = "fade" /\ st # "paused" -> "fading"
    [] OTHER                        -> st

\* A voice pushed after the callback loaded its snapshot is not found: what is
\* said to it in this block is lost.
CallbackCommand(s) ==
  /\ stream[s] = "live" /\ at[s] = "drain" /\ ring[s] # <<>>
  /\ LET c == Head(ring[s])
         reached == { v \in snap[s] : Names(c, v) }
         missed  == { v \in pool[s] \ snap[s] : Names(c, v) }
     IN /\ state' = [v \in Voice |-> IF v \in reached /\ state[v] # "gone"
                                     THEN Applied(c.op, state[v]) ELSE state[v]]
        /\ request' = [v \in Voice |->
             CASE v \in reached /\ c.op = "devamp"     -> "continue"
               [] v \in reached /\ c.op = "devampstop" -> "stop"
               [] OTHER -> request[v]]
        /\ over' = IF c.op = "seek" THEN over \ reached ELSE over
        /\ leaked' = IF c.op \in {"stop", "fade", "stopall"}
                     THEN leaked \cup missed ELSE leaked
        \* a cue that submitted its voice after the panic is not told of its end
        /\ unheard' = IF c = StopAll THEN unheard \cup reached ELSE unheard
  /\ ring' = [ring EXCEPT ![s] = Tail(@)]
  /\ UNCHANGED <<stream, report, pool, callback, prog, own, ctl, gc, feed, device, bounds,
                 released>>

\* A live voice is mixed only while its feed exists: without one not even its
\* fade advances.
Mixed(s) == { v \in snap[s] : Sounding(v) /\ (prog[v] = "live" => s = "main" /\ feed) }

\* What may end in this block: any fade; a file; a slice a devamp is to stop at.
MayEnd(v) == \/ state[v] = "fading"
             \/ prog[v] = "file"
             \/ prog[v] = "vamp" /\ request[v] = "stop"
             \/ v \in over

\* Voices at a slice boundary that a devamp releases into what follows.
MayAdvance(v) == state[v] = "playing" /\ prog[v] = "vamp" /\ request[v] = "continue"

\* Completed, then MasterLevels, are pushed into the status ring while it has
\* room.  A voice already over ends again as soon as it is mixed.
Reported(s, ended) ==
  LET room == StatusSize - report[s].used
      kept == IF Cardinality(ended) <= room THEN {ended}
              ELSE { k \in SUBSET ended : Cardinality(k) = room }
  IN  { [done |-> report[s].done \cup k,
         used |-> IF report[s].used + Cardinality(k) < StatusSize
                  THEN report[s].used + Cardinality(k) + 1 ELSE StatusSize] : k \in kept }

MixEnding(s, ended, freed) ==
  /\ stream[s] = "live" /\ at[s] = "drain" /\ ring[s] = <<>>
  /\ ended \subseteq { v \in Mixed(s) : MayEnd(v) } /\ over \cap Mixed(s) \subseteq ended
  /\ freed \subseteq { v \in Mixed(s) : MayAdvance(v) } \ ended
  /\ state' = [v \in Voice |-> IF v \in ended THEN "stopped" ELSE state[v]]
  /\ over' = over \cup ended
  /\ prog' = [v \in Voice |-> IF v \in freed THEN "file" ELSE prog[v]]
  /\ request' = [v \in Voice |-> IF v \in ended \cup freed /\ prog[v] = "vamp"
                                 THEN "none" ELSE request[v]]
  /\ report' \in { [report EXCEPT ![s] = r] : r \in Reported(s, ended) }
  /\ unheard' = unheard \cup (IF Cardinality(ended) > StatusSize - report[s].used
                              THEN ended \ report'[s].done ELSE {})
  /\ at' = [at EXCEPT ![s] = "idle"] /\ snap' = [snap EXCEPT ![s] = {}]
  /\ UNCHANGED <<stream, ring, pool, own, ctl, gc, feed, device, bounds,
                 released, leaked>>

Mix(s) == \E ended \in SUBSET snap[s] : \E freed \in SUBSET snap[s] :
            MixEnding(s, ended, freed)

---------------------------------------------------------------------------
(***************************************************************************)
(* Control calls, from the command thread or the event loop; a call made    *)
(* while another is half done waits for the workspace lock.                 *)
(***************************************************************************)
Quiet == UNCHANGED <<stream, report, callback, gc, device>>
Call  == ctl = Idle /\ calls < trial.calls /\ calls' = calls + 1 /\ trial' = trial

\* A cue owns a voice until it stops it or is told that it has completed.
OwnerCall(v) == v \in own /\ Call

\* routes_to_main, play_voice_routed: no device asked for, the main device, or
\* a device that does not open.  A failed auxiliary stream for the device is
\* dropped, its voices with it, and another is opened.
Submit(v, st, openable) ==
  LET s     == IF v \in trial.patched THEN "aux" ELSE "main"
      stale == s = "aux" /\ stream["aux"] = "dead"
      to    == IF s = "aux" /\ stream["aux"] # "live" /\ ~openable THEN "main" ELSE s
      lost  == IF stale THEN pool["aux"] ELSE {}
      base  == IF stale THEN [pool EXCEPT !["aux"] = {}] ELSE pool
  IN /\ state[v] = "free" /\ prog[v] # "live" /\ (s = "main" => openable)
     /\ s = "aux" => at["aux"] = "idle"
     /\ stream' = IF to = "aux" THEN [stream EXCEPT !["aux"] = "live"]
                  ELSE IF stale THEN [stream EXCEPT !["aux"] = "closed"] ELSE stream
     /\ ring'   = IF stale THEN [ring EXCEPT !["aux"] = <<>>] ELSE ring
     /\ report' = IF stale THEN [report EXCEPT !["aux"] = NoReport] ELSE report
     /\ pool'   = [base EXCEPT ![to] = @ \cup {v}]
     /\ state'  = [w \in Voice |-> CASE w = v -> st
                                     [] w \in lost -> "gone"
                                     [] OTHER -> state[w]]
     /\ unheard' = unheard \cup lost
     /\ UNCHANGED <<callback, prog, request, over, gc, device>>

\* play_voice: marked playing and published before the Play command is sent.
PlayVoice(v, openable) ==
  /\ ctl = Idle /\ Submit(v, "playing", openable)
  /\ ctl' = [do |-> "play", voice |-> v] /\ released' = released \cup {v}
  /\ UNCHANGED <<own, feed, bounds, leaked>>

\* play_voice_paused: no command; the caller owns the voice at once.
PlayVoicePaused(v, openable) ==
  /\ ctl = Idle /\ Submit(v, "paused", openable)
  /\ own' = own \cup {v} /\ UNCHANGED <<ctl, feed, bounds, released, leaked>>

\* The Play command.  A refusal is returned to the cue, which forgets the voice;
\* an auxiliary stream's refusal is not.
SendPlay ==
  /\ ctl.do = "play" /\ ctl' = Idle
  /\ LET v == ctl.voice
         s == IF v \in pool["aux"] THEN "aux" ELSE "main"
         refused == s = "main" /\ Full("main")
     IN /\ ring' = [ring EXCEPT ![s] = Push(s, Cmd("play", v))]
        /\ own' = IF refused THEN own ELSE own \cup {v}
        /\ leaked' = IF refused THEN leaked \cup {v} ELSE leaked
        /\ unheard' = IF Full(s) THEN unheard \cup {v} ELSE unheard
  /\ UNCHANGED <<pool, voices, feed, bounds, released>> /\ Quiet

\* Mic Cues: ensure_input_feed, then play_mic_voice: the feed is looked up, the
\* voice published on the main stream, the Play command sent.
EnsureInputFeed(v) ==
  /\ ctl = Idle /\ prog[v] = "live" /\ state[v] = "free"
  /\ feed' = TRUE /\ ctl' = [do |-> "mic", voice |-> v]
  /\ UNCHANGED <<ring, pool, voices, own, bounds, history>> /\ Quiet

FindFeed ==
  /\ ctl.do = "mic"
  /\ ctl' = IF feed THEN [ctl EXCEPT !.do = "push"] ELSE Idle
  /\ UNCHANGED <<ring, pool, voices, own, feed, bounds, history>> /\ Quiet

PushMicVoice ==
  /\ ctl.do = "push"
  /\ ctl' = [ctl EXCEPT !.do = "play"] /\ released' = released \cup {ctl.voice}
  /\ pool' = [pool EXCEPT !["main"] = @ \cup {ctl.voice}]
  /\ state' = [state EXCEPT ![ctl.voice] = "playing"]
  /\ UNCHANGED <<ring, prog, request, over, own, feed, bounds, leaked, unheard>>
  /\ Quiet

\* stop_voice: the cue takes its voice id before the call, and gets the main
\* ring's refusal; a refusal where the voice lives leaves it to itself.
StopVoice(v, op) ==
  /\ OwnerCall(v) /\ op \in {"stop", "fade"}
  /\ own' = own \ {v} /\ Broadcast(Cmd(op, v))
  /\ leaked' = IF v \in Pooled /\ Full(Home(v)) THEN leaked \cup {v} ELSE leaked
  /\ UNCHANGED <<pool, voices, ctl, feed, released, unheard>> /\ Quiet

\* pause_voice goes to the main stream only.
PauseVoice(v) ==
  /\ OwnerCall(v) /\ SendMain(Cmd("pause", v))
  /\ UNCHANGED <<pool, voices, own, ctl, feed, history>> /\ Quiet

\* resume_voice, devamp_voice, seek_voice: to every stream.
Tell(v, op) ==
  /\ OwnerCall(v) /\ op \in {"resume", "devamp", "devampstop", "seek"}
  /\ Broadcast(Cmd(op, v))
  /\ released' = IF op = "resume" THEN released \cup {v} ELSE released
  /\ UNCHANGED <<pool, voices, own, ctl, feed, leaked, unheard>> /\ Quiet

\* panic_stop_all, after which every cue has let go of its voice.
PanicStopAll ==
  /\ Call /\ Broadcast(StopAll) /\ own' = {}
  /\ leaked' = leaked \cup { v \in Pooled : Full(Home(v)) }
  /\ UNCHANGED <<pool, voices, ctl, feed, released, unheard>> /\ Quiet

\* The mixer's faders, and the levels of every cue, share the rings.
MoveFader ==
  /\ Call /\ Broadcast(SetPatchGain)
  /\ UNCHANGED <<pool, voices, own, ctl, feed, history>> /\ Quiet

\* drain_status: a cue told of a completion forgets its voice.
DrainStatus ==
  /\ \E s \in Streams : report[s].used > 0
  /\ own' = own \ (report["main"].done \cup report["aux"].done)
  /\ report' = [s \in Streams |-> NoReport]
  /\ leaked' = leaked \cup { v \in Pooled : /\ v \in report[Home(v)].done
                                        /\ (state[v] = "playing" \/ v \in Started(Home(v))) }
  /\ UNCHANGED <<stream, ring, pool, callback, voices, ctl, gc, feed, device, bounds,
                 released, unheard>>

---------------------------------------------------------------------------
(***************************************************************************)
(* gc_voices, outside the workspace lock: the main pool is swept, the feeds *)
(* its live voices still refer to are collected, and then the other feeds   *)
(* are closed and the auxiliary pools swept.                                *)
(***************************************************************************)
\* Mutant of Finished: a paused voice is swept too.
FinishedOrPaused(s) == { v \in pool[s] : state[v] \in {"stopped", "paused"} }

Finished(s) == { v \in pool[s] : state[v] = "stopped" }
LiveInUse(set) == \E v \in set : prog[v] = "live"

GcSweep ==
  /\ gc = "idle" /\ (feed \/ Finished("main") \cup Finished("aux") # {})
  /\ pool' = [pool EXCEPT !["main"] = @ \ Finished("main")]
  /\ state' = [v \in Voice |-> IF v \in Finished("main") THEN "gone" ELSE state[v]]
  /\ gc' = IF LiveInUse(pool'["main"]) THEN "keep" ELSE "drop"
  /\ UNCHANGED <<stream, ring, report, callback, prog, request, over, own, ctl, feed,
                 device, bounds, history>>

GcFeeds ==
  /\ gc # "idle" /\ gc' = "idle"
  /\ feed' = (feed /\ gc = "keep")
  /\ LET left == pool["aux"] \ Finished("aux")
         shut == stream["aux"] = "dead" /\ left = {}
     IN /\ pool' = [pool EXCEPT !["aux"] = left]
        /\ state' = [v \in Voice |-> IF v \in Finished("aux") THEN "gone" ELSE state[v]]
        /\ stream' = IF shut THEN [stream EXCEPT !["aux"] = "closed"] ELSE stream
        /\ ring' = IF shut THEN [ring EXCEPT !["aux"] = <<>>] ELSE ring
        /\ report' = IF shut THEN [report EXCEPT !["aux"] = NoReport] ELSE report
        /\ unheard' = IF shut THEN unheard \cup report["aux"].done ELSE unheard
  /\ UNCHANGED <<callback, prog, request, over, own, ctl, device, bounds,
                 released, leaked>>

---------------------------------------------------------------------------
(***************************************************************************)
(* Devices.  Dropping a stream waits for its callback to return.            *)
(***************************************************************************)
AuxShut ==
  /\ at["aux"] = "idle"
  /\ state' = [v \in Voice |-> IF v \in pool["aux"] THEN "gone" ELSE state[v]]
  /\ pool' = [pool EXCEPT !["aux"] = {}]
  /\ UNCHANGED <<callback, prog, request, over, own, ctl, gc, feed, released>>

\* close_all_aux, after an edit of the Output Patches.
CloseAllAux ==
  /\ stream["aux"] # "closed" /\ Call /\ AuxShut
  /\ stream' = [stream EXCEPT !["aux"] = "closed"]
  /\ ring' = [ring EXCEPT !["aux"] = <<>>] /\ report' = [report EXCEPT !["aux"] = NoReport]
  /\ unheard' = unheard \cup pool["aux"] \cup report["aux"].done
  /\ UNCHANGED <<device, leaked>>

\* restart: the old stream is dropped and every auxiliary closed; if the device
\* opens, the rings are new and what was in the old ones is gone, while the pool
\* is kept, so that its voices play on.
Restart(c) ==
  LET hw == Opens(c, dev.present)
  IN /\ at["main"] = "idle" /\ AuxShut
     /\ stream' = [main |-> IF hw = {} THEN "closed" ELSE "live", aux |-> "closed"]
     /\ ring' = [main |-> IF hw = {} THEN ring["main"] ELSE <<>>, aux |-> <<>>]
     /\ report' = [main |-> IF hw = {} THEN report["main"] ELSE NoReport, aux |-> NoReport]
     /\ leaked' = IF hw = {} THEN leaked ELSE leaked \cup Silenced("main")
     /\ unheard' = unheard \cup pool["aux"] \cup report["aux"].done
                   \cup (IF hw = {} THEN {} ELSE report["main"].done \cup Started("main"))
     /\ UNCHANGED losses

Using(c) == IF Opens(c, dev.present) = {} THEN dev.on
            ELSE CHOOSE d \in Opens(c, dev.present) : TRUE

\* apply_user_config and restore_desired: the fallback flag is cleared first.
ApplyUserConfig(c) ==
  /\ Call /\ Restart(c)
  /\ dev' = [dev EXCEPT !.desired = c, !.fallback = FALSE, !.on = Using(c)]

\* offered by the banner once the chosen device is back.
RestoreDesired ==
  /\ ctl = Idle /\ dev.fallback /\ dev.desired \in dev.present
  /\ Restart(dev.desired) /\ UNCHANGED bounds
  /\ dev' = [dev EXCEPT !.fallback = FALSE, !.on = Using(dev.desired)]

\* The watchdog reads the health every two seconds: the callbacks have stopped
\* counting, or cpal reported the device gone.
Failed == stream["main"] # "live"

WatchdogReads ==
  /\ dev.health = "ok" /\ ~dev.fallback /\ (Failed \/ dev.ticks # 0)
  /\ dev' = IF Failed THEN [dev EXCEPT !.health = "failed"] ELSE [dev EXCEPT !.ticks = 0]
  /\ UNCHANGED <<stream, ring, report, pool, callback, voices, own, ctl, gc, feed, losses,
                 bounds, history>>

\* Mutant of Attempt: only the first tick of a failure tries.
AttemptOnce == dev.ticks = 0

Attempt == dev.ticks = 0 \/ dev.ticks >= RetryEvery

\* fall_back_to_default when a device was chosen, retry_output_stream otherwise:
\* either opens the default, and only the first is a fallback.
WatchdogActs ==
  /\ dev.health = "failed"
  /\ IF Attempt
     THEN /\ Restart("default")
          /\ dev' = [dev EXCEPT !.health = "ok", !.ticks = 1, !.on = Using("default"),
                                !.fallback = dev.desired = "chosen" /\ dev.present # {}]
     ELSE /\ dev' = [dev EXCEPT !.health = "ok", !.ticks = IF @ < RetryEvery THEN @ + 1 ELSE @]
          /\ UNCHANGED <<stream, ring, report, pool, callback, voices, own, ctl, gc, feed,
                         losses, history>>
  /\ UNCHANGED bounds

\* The environment: a device is unplugged, and comes back.
DeviceLost(d) ==
  /\ d \in dev.present \cap trial.unstable /\ losses < trial.losses /\ losses' = losses + 1
  /\ dev' = [dev EXCEPT !.present = @ \ {d}]
  /\ LET dies == d = dev.on /\ stream["main"] = "live"
     IN /\ dies => at["main"] = "idle"
        /\ stream' = IF dies THEN [stream EXCEPT !["main"] = "dead"] ELSE stream
  /\ UNCHANGED <<ring, report, pool, callback, voices, own, ctl, gc, feed, bounds, history>>

DeviceBack(d) ==
  /\ d \notin dev.present /\ dev' = [dev EXCEPT !.present = @ \cup {d}]
  /\ UNCHANGED <<stream, ring, report, pool, callback, voices, own, ctl, gc, feed, losses,
                 bounds, history>>

AuxLost ==
  /\ "aux" \in trial.unstable /\ stream["aux"] = "live" /\ at["aux"] = "idle"
  /\ losses < trial.losses /\ losses' = losses + 1
  /\ stream' = [stream EXCEPT !["aux"] = "dead"]
  /\ UNCHANGED <<ring, report, pool, callback, voices, own, ctl, gc, feed, dev, bounds, history>>

---------------------------------------------------------------------------
Plays(v) ==
  \/ \E openable \in BOOLEAN : PlayVoice(v, openable) \/ PlayVoicePaused(v, openable)
  \/ EnsureInputFeed(v)

PlayContinues == SendPlay \/ FindFeed \/ PushMicVoice

Calls == \/ \E v \in Voice, op \in trial.calling : StopVoice(v, op) \/ Tell(v, op)
         \/ \E v \in Voice : PauseVoice(v)
         \/ PanicStopAll \/ MoveFader \/ CloseAllAux
         \/ \E c \in Configs : ApplyUserConfig(c)
         \/ RestoreDesired

Callback(s) == CallbackBegins(s) \/ CallbackCommand(s) \/ Mix(s)
EventLoop   == DrainStatus \/ GcSweep \/ GcFeeds
Watchdog    == WatchdogReads \/ WatchdogActs
Environment == AuxLost \/ \E d \in Devices : DeviceLost(d) \/ DeviceBack(d)

Next == \/ \E v \in Voice : Plays(v)
        \/ PlayContinues \/ Calls \/ EventLoop \/ Watchdog \/ Environment
        \/ \E s \in Streams : Callback(s)

\* The operating system calls back as long as a stream is live; the watchdog and
\* the event loop are threads that loop for ever; a command runs to its end.  A
\* restart waits for the callbacks in progress and no other begins meanwhile: the
\* watchdog is not held up by callbacks for ever.
Fairness == /\ \A s \in Streams : WF_vars(Callback(s))
            /\ WF_vars(EventLoop) /\ SF_vars(Watchdog) /\ WF_vars(PlayContinues)

Spec == Init /\ [][Next]_vars /\ Fairness

---------------------------------------------------------------------------
\* The requests for a voice in a ring, oldest first.
Request(c, v) == Names(c, v) /\ c.op \notin {"devamp", "devampstop", "seek"}

Requests(q, v) ==
  LET upto[i \in 0..Len(q)] ==
        IF i = 0 THEN <<>>
        ELSE IF Request(q[i], v) THEN Append(upto[i - 1], q[i].op) ELSE upto[i - 1]
  IN  upto[Len(q)]

\* What the engine promises of a voice: where it is, how it sounds, and what was
\* asked of it.
Promised(v) ==
  IF v \notin Pooled
  THEN [sound |-> state[v], asked |-> <<>>, route |-> "none"]
  ELSE [sound |-> state[v], asked |-> Requests(ring[Home(v)], v),
        route |-> IF Home(v) = "main" THEN "main" ELSE "other"]

Promise == INSTANCE VoicePromise WITH promise <- [v \in Voice |-> Promised(v)]

\* The engine implements VoicePromise: a voice is heard, silenced and removed
\* only as it was asked, in order; on the main output it outlives every restart.
PromiseKept == Promise!Spec

\* Types, and a voice is in one pool at most.
TypeOK ==
  /\ stream \in [Streams -> {"closed", "live", "dead"}]
  /\ \A s \in Streams : /\ ring[s] \in Seq(Commands) /\ Len(ring[s]) <= trial.ring
                        /\ report[s].done \subseteq Voice /\ report[s].used \in 0..StatusSize
                        /\ pool[s] \subseteq Voice /\ snap[s] \subseteq Voice
  /\ pool["main"] \cap pool["aux"] = {}
  /\ state \in [Voice -> VoiceStates] /\ own \subseteq Voice
  /\ \A v \in Voice : v \in Pooled <=> state[v] \notin {"free", "gone"}
  /\ stream["aux"] = "closed" => pool["aux"] = {} /\ ring["aux"] = <<>>

\* A voice that plays is held by a cue, or a command to silence it is in the ring
\* of its stream, unless that command is known to be lost: refused by a full
\* ring, replaced with its ring by a restart, or drained by a callback that had
\* loaded its snapshot before the voice was published; or the cue was told of its
\* end when a command had started it again, or was about to.
NoOrphans ==
  \A s \in Streams : \A v \in pool[s] :
    state[v] = "playing" /\ v \notin over /\ v \notin own /\ ctl = Idle
      => v \in leaked \cup Silenced(s)

\* A voice submitted paused and never resumed (the sound of a video replaced
\* before its first frame) is never mixed, whatever stops it; but for one that a
\* panic older than it stopped just before a stop with a fade reached it.
PausedIsSilent ==
  \A v \in Pooled \ (released \cup unheard) : ~Sounding(v)

\* A cue whose voice has ended finds the completion in the status ring, unless
\* the ring had no room or went with its stream, or a panic older than the voice
\* stopped it; a command that makes it end again may be on its way.
EndsAreReported ==
  \A s \in Streams : \A v \in own \cap pool[s] : state[v] = "stopped" =>
    \/ v \in report[s].done \cup unheard
    \/ v \in Started(s)

\* The safety of the engine, in one: what a cue, or nobody, may find of a voice.
EngineSafety == TypeOK /\ NoOrphans /\ EndsAreReported /\ PausedIsSilent

\* With a device plugged in and no fallback in force, the watchdog opens a stream.
\* (In a fallback it waits for the configured device, or for the operator.)
StreamReturns ==
  Failed /\ ~dev.fallback /\ dev.present # {}
    ~> ~Failed \/ dev.fallback \/ dev.present = {}
============================================================================
