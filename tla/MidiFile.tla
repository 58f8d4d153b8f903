----------------------------- MODULE MidiFile -----------------------------
(***************************************************************************)
(* MIDI File Cues: the parser that puts the events of a Standard MIDI File on *)
(* one line of time (engine/midi_file.rs), the cue (cue/midi_file_cue.rs),    *)
(* the player threads it starts and drops, and the instrument at the end of   *)
(* its port.                                                               *)
(*                                                                         *)
(* A dropped player is only told to stop: its thread, which sleeps for up to  *)
(* MAX_SLEEP, silences the instrument when it next looks.  So several threads  *)
(* of one cue may be alive, and they share the instrument.                    *)
(*                                                                         *)
(* Time is counted in units of which a tick lasts one or more; a message is   *)
(* what it does to the instrument, a file uses one channel, and the one       *)
(* controller is the sustain pedal.  A rate is a divisor of every time.       *)
(***************************************************************************)
EXTENDS Integers, Sequences, FiniteSets, SequencesExt

CONSTANTS
  Thread,     \* bound: player threads alive at once
  Key,        \* the keys the files play
  Files,      \* the .mid files
  Score,      \* [Files -> [format, timing, tracks: Seq(Seq([delta, msg]))]]
  Rates,      \* playback rates, from 1
  Cues,       \* the cue there may be: [file, preWait]
  Positions,  \* the positions an operator seeks
  Calling,    \* which calls are made of a started cue
  MaxCalls,   \* bound: calls in a behaviour
  Horizon     \* bound: no clock is told apart beyond it

VARIABLES
  cue,        \* MidiFileCue: [state, since, acted, held, actedHeld, inPre,
              \* player, rate, file, preWait]
  thread,     \* [Thread -> the locals of play, and its PlayerControl]
  sounding,   \* the keys the instrument sounds
  pedal,      \* its sustain pedal
  port,       \* "shared", "exclusive" (one connection at a time) or "gone"
  call,       \* "seek": seek_cue has started the player and not paused it yet
  calls       \* how many calls were made

vars == <<cue, thread, sounding, pedal, port, call, calls>>

NoThread == "none"
None == -1                  \* an Instant that is not set

ASSUME MidiAssumption == NoThread \notin Thread

---------------------------------------------------------------------------
\* A file

DefaultTempo == 1

\* The events of all tracks by their tick; at one tick by track, then as written.
Merged(tracks) ==
  LET Tick(t, i) == FoldLeft(LAMBDA sum, e : sum + e.delta, 0, SubSeq(tracks[t], 1, i))
      events == UNION {{[tick |-> Tick(t, i), track |-> t, nth |-> i, msg |-> tracks[t][i].msg]
                          : i \in DOMAIN tracks[t]} : t \in DOMAIN tracks}
      Before(a, b) == \/ a.tick < b.tick
                      \/ a.tick = b.tick /\ a.track < b.track
                      \/ a.tick = b.tick /\ a.track = b.track /\ a.nth < b.nth
  IN  SetToSortSeq(events, Before)

\* What a track event is on the wire; a note on with velocity 0 is a note off.
Encoded(msg) == IF msg.does = "on" /\ msg.vel = 0 THEN [msg EXCEPT !.does = "off"] ELSE msg

Transmitted(msg) == msg.does \notin {"tempo", "end"}

TickSpan(ticks, timing, tempo) == IF timing = "metrical" THEN ticks * tempo ELSE ticks

\* One more event of the merged tracks, its own tempo counted for the time before it.
AddedAtItsTempo(acc, e, timing) ==
  LET tempo == IF e.msg.does = "tempo" THEN e.msg.val ELSE acc.tempo
      now   == acc.time + TickSpan(e.tick - acc.tick, timing, tempo)
  IN  [tick |-> e.tick, time |-> now, tempo |-> tempo,
       events |-> IF Transmitted(e.msg) THEN Append(acc.events, [at |-> now, msg |-> Encoded(e.msg)])
                  ELSE acc.events]

\* One more event of the merged tracks: time goes on at the tempo so far.
Added(acc, e, timing) ==
  LET now == acc.time + TickSpan(e.tick - acc.tick, timing, acc.tempo)
  IN  [tick   |-> e.tick, time |-> now,
       tempo  |-> IF e.msg.does = "tempo" THEN e.msg.val ELSE acc.tempo,
       events |-> IF Transmitted(e.msg) THEN Append(acc.events, [at |-> now, msg |-> Encoded(e.msg)])
                  ELSE acc.events]

\* The events of some tracks on one line of time, and its length.
FlattenTracks(tracks, timing) ==
  LET end == FoldLeft(LAMBDA acc, e : Added(acc, e, timing),
                      [tick |-> 0, time |-> 0, tempo |-> DefaultTempo, events |-> <<>>],
                      Merged(tracks))
  IN  [events |-> end.events, duration |-> end.time]

\* Tracks of format 2 are played one after the other, each with its own tempo.
Parse(f) ==
  IF f.format # "sequential" THEN FlattenTracks(f.tracks, f.timing)
  ELSE FoldLeft(LAMBDA acc, track :
         LET one == FlattenTracks(<<track>>, f.timing)
             later == [i \in DOMAIN one.events |->
                         [one.events[i] EXCEPT !.at = @ + acc.duration]]
         IN  [events |-> acc.events \o later, duration |-> acc.duration + one.duration],
         [events |-> <<>>, duration |-> 0], f.tracks)

Sequences == [f \in Files |-> Parse(Score[f])]

ChannelsUsed(f) == \E i \in DOMAIN Sequences[f].events :
                     Sequences[f].events[i].msg.does \in {"on", "off", "pedal"}

---------------------------------------------------------------------------
\* The player threads

Live == {t \in Thread : thread[t].at # "none"}

NotStarted == [at |-> "none", file |-> CHOOSE f \in Files : TRUE, rate |-> 1, from |-> 0, pos |-> 0,
               next |-> 1, waits |-> FALSE, stop |-> FALSE, paused |-> FALSE, active |-> {}]

EventAt(t, i) == Sequences[thread[t].file].events[i]

Scaled(at, rate) == at \div rate

\* ActiveNotes::apply.
Noted(active, msg) == CASE msg.does = "on"  -> active \cup {msg.key}
                        [] msg.does = "off" -> active \ {msg.key}
                        [] OTHER            -> active

\* What the instrument makes of a message.
Played(msg) ==
  /\ sounding' = Noted(sounding, msg)
  /\ pedal' = IF msg.does = "pedal" THEN msg.val ELSE pedal

\* The thread begins: it sends the channel state the file has set before the offset.
CatchUp(t) ==
  LET events == Sequences[thread[t].file].events
      Due(i) == Scaled(events[i].at, thread[t].rate) >= thread[t].from
      start == CHOOSE n \in 1..Len(events) + 1 :
                 /\ \A i \in 1..n - 1 : ~Due(i)
                 /\ n <= Len(events) => Due(n)
      past  == {i \in DOMAIN events : i < start /\ events[i].msg.does = "pedal"}
  IN  /\ thread[t].at = "start"
      /\ thread' = [thread EXCEPT ![t].at = "wait", ![t].next = start, ![t].pos = thread[t].from]
      /\ \/ (past = {} \/ port = "gone") /\ pedal' = pedal
         \/ /\ port # "gone"
            /\ \E i \in past : /\ \A j \in past : j <= i
                              /\ pedal' = events[i].msg.val
      /\ UNCHANGED <<cue, sounding, port, call, calls>>

\* wait_until: what it finds next among stop, pause and the clock.
More(t) == thread[t].next \in DOMAIN Sequences[thread[t].file].events

Deadline(t) ==
  LET s == Sequences[thread[t].file]
  IN  Scaled(IF More(t) THEN s.events[thread[t].next].at ELSE s.duration, thread[t].rate)

LeaveUnlessPaused(t) ==
  /\ thread[t].at = "wait" /\ thread[t].stop /\ ~thread[t].waits
  /\ thread' = [thread EXCEPT ![t].at = "silence"]
  /\ UNCHANGED <<cue, sounding, pedal, port, call, calls>>

Leave(t) ==
  /\ thread[t].at = "wait" /\ thread[t].stop
  /\ thread' = [thread EXCEPT ![t].at = "silence"]
  /\ UNCHANGED <<cue, sounding, pedal, port, call, calls>>

NoticePause(t) ==
  /\ thread[t].at = "wait" /\ ~thread[t].stop /\ thread[t].waits # thread[t].paused
  /\ thread' = [thread EXCEPT ![t].waits = thread[t].paused]
  /\ UNCHANGED <<cue, sounding, pedal, port, call, calls>>

Reached(t) ==
  /\ thread[t].at = "wait" /\ ~thread[t].stop /\ ~thread[t].waits /\ ~thread[t].paused
  /\ thread[t].pos >= Deadline(t)
  /\ thread' = [thread EXCEPT ![t].at = IF More(t) THEN "send" ELSE "silence"]
  /\ UNCHANGED <<cue, sounding, pedal, port, call, calls>>

\* The event is sent, whatever was asked of the player meanwhile.  A send that fails
\* ends the loop; the tail of the file is waited for.
Send(t) ==
  LET msg == EventAt(t, thread[t].next).msg
  IN  /\ thread[t].at = "send"
      /\ IF port = "gone"
         THEN /\ thread' = [thread EXCEPT ![t].at = "wait",
                              ![t].next = Len(Sequences[thread[t].file].events) + 1]
              /\ UNCHANGED <<sounding, pedal>>
         ELSE /\ Played(msg)
              /\ thread' = [thread EXCEPT ![t].at = "wait", ![t].next = @ + 1,
                              ![t].active = Noted(@, msg)]
      /\ UNCHANGED <<cue, port, call, calls>>

\* A player that was stopped leaves at once.
LeftWhenStopped(t) == IF thread[t].stop THEN sounding ELSE {}

\* What silence leaves of the keys that sound: the notes of this player are released,
\* and all notes of the channels its file uses.
LeftSounding(t) == IF ChannelsUsed(thread[t].file) THEN {} ELSE sounding \ thread[t].active

Silence(t) ==
  /\ thread[t].at = "silence"
  /\ thread' = [thread EXCEPT ![t] = NotStarted]
  /\ sounding' = IF port = "gone" THEN sounding ELSE LeftSounding(t)
  /\ pedal' = IF ChannelsUsed(thread[t].file) /\ port # "gone" THEN 0 ELSE pedal
  /\ UNCHANGED <<cue, port, call, calls>>

---------------------------------------------------------------------------
\* The cue

Duration == Sequences[cue.file].duration \div cue.rate

\* MidiFilePlayer::start: the port opens, or the cue runs on without a player.
Opens == port = "shared" \/ (port = "exclusive" /\ Live = {})

\* The cue c and the threads ts after start_player from offset, on a thread that is
\* free.  A player of the cue that is replaced is dropped: it is told to stop.
Start(c, ts, offset) ==
  LET t == CHOOSE u \in Thread : u \notin Live
  IN  IF ~Opens THEN cue' = c /\ thread' = ts
      ELSE /\ Live # Thread
           /\ cue' = [c EXCEPT !.player = t]
           /\ thread' = [ts EXCEPT ![t] = [NotStarted EXCEPT
                !.at = "start", !.file = c.file, !.rate = c.rate, !.from = offset]]

DroppedUntold == thread

\* The threads once the cue's player is dropped.
Dropped == IF cue.player = NoThread \/ thread[cue.player].at = "none" THEN thread
           ELSE [thread EXCEPT ![cue.player].stop = TRUE]

Without == [cue EXCEPT !.player = NoThread]

Asked(op) == /\ op \in Calling /\ call = "none"
             /\ calls < MaxCalls /\ calls' = calls + 1

\* go; start_action when there is no pre-wait.
Go ==
  LET c == [Without EXCEPT !.state = "Running", !.since = 0, !.held = 0, !.actedHeld = 0]
  IN  /\ Asked("go") /\ cue.state # "Running"
      /\ IF cue.preWait > 0
         THEN cue' = [c EXCEPT !.inPre = TRUE] /\ thread' = Dropped
         ELSE Start([c EXCEPT !.acted = 0, !.inPre = FALSE], Dropped, 0)
      /\ UNCHANGED <<sounding, pedal, port, call>>

\* tick: the pre-wait is over.
Tick ==
  /\ call = "none" /\ cue.inPre /\ cue.state = "Running" /\ cue.since >= cue.preWait
  /\ Start([cue EXCEPT !.acted = 0, !.inPre = FALSE], thread, 0)
  /\ UNCHANGED <<sounding, pedal, port, call, calls>>

\* clear_runtime, of a stop, a panic and a reset.
Cleared == [Without EXCEPT !.state = "Standby", !.since = None, !.acted = None,
                           !.held = 0, !.actedHeld = 0, !.inPre = FALSE]
ClearRuntime == cue' = Cleared /\ thread' = Dropped

Stop ==
  /\ Asked("stop") /\ cue.state # "Standby" /\ ClearRuntime
  /\ UNCHANGED <<sounding, pedal, port, call>>

\* The event loop finds that the duration is over.
Complete ==
  /\ call = "none" /\ cue.state = "Running" /\ cue.acted >= Duration /\ ClearRuntime
  /\ UNCHANGED <<sounding, pedal, port, call, calls>>

Paused(ts, p) == IF cue.player = NoThread \/ ts[cue.player].at = "none" THEN ts
                 ELSE [ts EXCEPT ![cue.player].paused = p]

Pause ==
  /\ Asked("pause") /\ cue.state = "Running" /\ ~cue.inPre
  /\ cue' = [cue EXCEPT !.state = "Paused",
       !.held = IF cue.since = None THEN @ ELSE cue.since,
       !.actedHeld = IF cue.acted = None THEN @ ELSE cue.acted,
       !.since = None, !.acted = None]
  /\ thread' = Paused(thread, TRUE)
  /\ UNCHANGED <<sounding, pedal, port, call>>

Resume ==
  /\ Asked("resume") /\ cue.state = "Paused"
  /\ cue' = [cue EXCEPT !.state = "Running", !.since = cue.held, !.acted = cue.actedHeld]
  /\ thread' = Paused(thread, FALSE)
  /\ UNCHANGED <<sounding, pedal, port, call>>

\* seek: the player is dropped, and one started at the position; that of a paused cue
\* is paused by a second step.
Seek(position) ==
  LET c == IF cue.state = "Paused"
           THEN [Without EXCEPT !.held = cue.preWait + position, !.actedHeld = position]
           ELSE [Without EXCEPT !.since = cue.preWait + position, !.acted = position]
  IN  /\ Asked("seek") /\ (cue.acted # None \/ cue.state = "Paused")
      /\ Start(c, Dropped, position)
      /\ call' = IF cue.state = "Paused" THEN "seek" ELSE "none"
      /\ UNCHANGED <<sounding, pedal, port>>

SeekPauses ==
  /\ call = "seek" /\ call' = "none"
  /\ thread' = Paused(thread, TRUE)
  /\ UNCHANGED <<cue, sounding, pedal, port, calls>>

\* update_cue: the cue is rebuilt with its state and instants (restore_runtime_state),
\* its player is started where the old one should be; only then is the old cue dropped.
Update(rate) ==
  LET pre == cue.state = "Running" /\ cue.acted = None
      c   == [Without EXCEPT !.rate = rate, !.held = 0, !.actedHeld = 0, !.inPre = pre]
  IN  /\ Asked("update")
      /\ IF cue.state = "Running" /\ ~pre
         THEN Start(c, Dropped, cue.acted)
         ELSE cue' = c /\ thread' = Dropped
      /\ UNCHANGED <<sounding, pedal, port, call>>

\* set_midi_file: stop_if_live, then the cue is rebuilt with the file.
SetMidiFile(f) ==
  /\ Asked("set_file") /\ f # cue.file
  /\ cue' = [Cleared EXCEPT !.file = f] /\ thread' = Dropped
  /\ UNCHANGED <<sounding, pedal, port, call>>

---------------------------------------------------------------------------
\* The instrument is switched off: its notes end, every send and connection fails.
Unplug ==
  /\ "unplug" \in Calling /\ port' = "gone" /\ port # "gone"
  /\ sounding' = {} /\ pedal' = 0
  /\ UNCHANGED <<cue, thread, call, calls>>

\* Time passes for the cue and for the threads that do not wait at a pause.
Later(x) == IF x = None \/ x = Horizon THEN x ELSE x + 1

Elapse ==
  /\ cue' = [cue EXCEPT !.since = Later(@), !.acted = Later(@)]
  /\ thread' = [t \in Thread |-> IF thread[t].at \in {"none", "start"} \/ thread[t].waits THEN thread[t]
                                 ELSE [thread[t] EXCEPT !.pos = Later(@)]]
  /\ <<cue, thread>>' # <<cue, thread>>
  /\ UNCHANGED <<sounding, pedal, port, call, calls>>

Init ==
  /\ \E c \in Cues : cue =
       [state |-> "Standby", since |-> None, acted |-> None, held |-> 0, actedHeld |-> 0,
        inPre |-> FALSE, player |-> NoThread, rate |-> 1, file |-> c.file, preWait |-> c.preWait]
  /\ thread = [t \in Thread |-> NotStarted]
  /\ sounding = {} /\ pedal = 0 /\ call = "none" /\ calls = 0
  /\ port \in {"shared", "exclusive"}

ThreadStep(t) == \/ CatchUp(t) \/ Leave(t) \/ NoticePause(t) \/ Reached(t) \/ Send(t) \/ Silence(t)

Next ==
  \/ \E t \in Thread : ThreadStep(t)
  \/ Go \/ Tick \/ Stop \/ Complete \/ Pause \/ Resume
  \/ \E p \in Positions : Seek(p)
  \/ SeekPauses
  \/ \E r \in Rates : Update(r)
  \/ \E f \in Files : SetMidiFile(f)
  \/ Unplug \/ Elapse

---------------------------------------------------------------------------
\* Properties

\* The types of the variables.
TypeOK ==
  /\ cue \in [state: {"Standby", "Running", "Paused"}, since: None..Horizon, acted: None..Horizon,
              held: 0..Horizon, actedHeld: 0..Horizon, inPre: BOOLEAN,
              player: Thread \cup {NoThread}, rate: Rates, file: Files, preWait: Nat]
  /\ thread \in [Thread -> [at: {"none", "start", "wait", "send", "silence"}, file: Files,
       rate: Rates, from: 0..Horizon, pos: 0..Horizon, next: Nat, waits: BOOLEAN,
       stop: BOOLEAN, paused: BOOLEAN, active: SUBSET Key]]
  /\ sounding \subseteq Key /\ pedal \in {0, 1}
  /\ port \in {"shared", "exclusive", "gone"} /\ call \in {"none", "seek"}
  /\ calls \in 0..MaxCalls

\* Stopping never leaves a note hanging (midi_file_cue.rs:16): a key that sounds is on
\* the list of a thread that is alive and will release it, however many players of
\* the cue follow and cut each other; and a pedal that is down will be lifted.
NothingHangs ==
  /\ sounding \subseteq UNION {thread[t].active : t \in Live}
  /\ pedal = 1 => \E t \in Live : ChannelsUsed(thread[t].file)

\* At most one thread means to play on, that of the cue; it waits when the cue is
\* paused and only then, and a cue on standby has none (MidiFilePlayer::drop, pause,
\* resume, seek, restore_runtime_state).
PlayerIsTheCues ==
  /\ \A t \in Live : ~thread[t].stop => t = cue.player
  /\ cue.state = "Standby" => cue.player = NoThread
  /\ call = "none" /\ cue.player \in Live =>
       (thread[cue.player].paused <=> cue.state = "Paused")

\* A cue that was stopped, or came to its end, leaves the instrument quiet, whatever
\* its threads were doing.
FallsSilent == cue.state = "Standby" ~> cue.state # "Standby" \/ (sounding = {} /\ pedal = 0)

---------------------------------------------------------------------------
Spec == Init /\ [][Next]_vars

\* Every thread runs, the event loop ticks, a command that began ends, time passes.
Fairness ==
  /\ \A t \in Thread : WF_vars(ThreadStep(t))
  /\ WF_vars(Tick) /\ WF_vars(Complete) /\ WF_vars(SeekPauses) /\ WF_vars(Elapse)

FairSpec == Spec /\ Fairness
============================================================================
