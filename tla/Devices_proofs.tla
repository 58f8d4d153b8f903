--------------------------- MODULE Devices_proofs ---------------------------
(***************************************************************************)
(* Proofs about the two modules whose threads drive a device.               *)
(*                                                                         *)
(* MidiFile, for any number of player threads, any files with any score, any *)
(* rates, positions and calls: what the parser makes of a file is not looked  *)
(* into, only that a thread sends what it finds there.                       *)
(*                                                                         *)
(* Lighting, for any universe, fixtures and layouts of them, patches, cues    *)
(* and calls, fired as GO and the loop fire them.  Of the lists the fold of    *)
(* FlattenSeq makes, only what they are made of is needed.                   *)
(***************************************************************************)
EXTENDS MidiFile, Lighting, FiniteSetTheorems, SequenceTheorems, WellFoundedInduction, TLAPS

---------------------------------------------------------------------------
(***************************************************************************)
(* MidiFile: the inductive invariant.                                       *)
(***************************************************************************)
ThreadFields == {"at", "file", "rate", "from", "pos", "next", "waits", "stop", "paused", "active"}
CueFields == {"state", "since", "acted", "held", "actedHeld", "inPre", "player", "rate", "file",
              "preWait"}

Shapes ==
  /\ DOMAIN thread = Thread /\ thread = [t \in Thread |-> thread[t]]
  /\ \A t \in Thread : DOMAIN thread[t] = ThreadFields
  /\ DOMAIN cue = CueFields

\* A thread that is not there sounds nothing; one about to send has an event to send;
\* nothing sounds on an instrument that is off.
Threads ==
  /\ \A t \in Thread : thread[t].at = "none" => thread[t].active = {}
  /\ \A t \in Thread : thread[t].at = "send" =>
       thread[t].next \in DOMAIN Sequences[thread[t].file].events
  /\ port = "gone" => sounding = {} /\ pedal = 0

\* The cue: a player is replaced only by one that was told to stop, because a cue
\* before its action, paused or on standby has no clock of an action and, but for a
\* paused one, no player.
CueStates ==
  /\ cue.state \in {"Standby", "Running", "Paused"} /\ call \in {"none", "seek"}
  /\ cue.player \in Thread \cup {NoThread}
  /\ cue.state # "Running" => cue.acted = None
  /\ cue.inPre => cue.state = "Running" /\ cue.acted = None /\ cue.player = NoThread
  /\ call = "seek" => cue.state = "Paused"

IInv == Shapes /\ Threads /\ CueStates /\ NothingHangs /\ PlayerIsTheCues

---------------------------------------------------------------------------
(***************************************************************************)
(* The threads.                                                             *)
(***************************************************************************)
\* One thread moved: what it did not touch of itself, and the others, are as they were.
LEMMA ThreadMoves ==
  ASSUME IInv, NEW t \in Thread, ThreadStep(t)
  PROVE  /\ Shapes' /\ UNCHANGED <<cue, port, call>> /\ thread[t].at # "none"
         /\ \A u \in Thread \ {t} : thread'[u] = thread[u]
         /\ \/ ~Silence(t) /\ thread'[t].at # "none"
                /\ \A x \in {"file", "stop", "paused"} : thread'[t][x] = thread[t][x]
            \/ Silence(t) /\ thread'[t] = NotStarted
<1>1. DOMAIN thread = Thread /\ DOMAIN thread[t] = ThreadFields /\ UNCHANGED <<cue, port, call>>
  BY DEF IInv, Shapes, ThreadStep, CatchUp, Leave, NoticePause, Reached, Send, Silence
<1>2. CASE CatchUp(t)
  <2>1. PICK n : /\ thread[t].at = "start"
                 /\ thread' = [thread EXCEPT ![t].at = "wait", ![t].next = n, ![t].pos = thread[t].from]
    BY <1>2 DEF CatchUp
  <2> QED
    BY <1>1, <2>1 DEF IInv, Shapes, ThreadFields, Silence
<1>3. CASE Leave(t)
  BY <1>1, <1>3 DEF Leave, IInv, Shapes, ThreadFields, Silence
<1>4. CASE NoticePause(t)
  BY <1>1, <1>4 DEF NoticePause, IInv, Shapes, ThreadFields, Silence
<1>5. CASE Reached(t)
  BY <1>1, <1>5 DEF Reached, IInv, Shapes, ThreadFields, Silence
<1>6. CASE Send(t)
  BY <1>1, <1>6 DEF Send, IInv, Shapes, ThreadFields, Silence
<1>7. CASE Silence(t)
  BY <1>1, <1>7 DEF Silence, IInv, Shapes, ThreadFields, NotStarted
<1> QED
  BY <1>2, <1>3, <1>4, <1>5, <1>6, <1>7 DEF ThreadStep

\* The threads that are there, and the sounding keys one of them answers for.
LEMMA Answered ==
  ASSUME IInv
  PROVE  /\ \A k \in sounding : \E t \in Thread : thread[t].at # "none" /\ k \in thread[t].active
         /\ pedal = 1 => \E t \in Thread : thread[t].at # "none" /\ ChannelsUsed(thread[t].file)
  BY DEF IInv, NothingHangs, Live

LEMMA NothingHangsWhen ==
  ASSUME \A k \in sounding' : \E t \in Thread : thread'[t].at # "none" /\ k \in thread'[t].active,
         pedal' = 1 => \E t \in Thread : thread'[t].at # "none" /\ ChannelsUsed(thread'[t].file)
  PROVE  NothingHangs'
  BY DEF NothingHangs, Live, ChannelsUsed

\* A thread that moves, without leaving, leaves to nobody what it answers for.
LEMMA StepHangs ==
  ASSUME IInv, NEW t \in Thread, ThreadStep(t), ~Silence(t)
  PROVE  NothingHangs'
<1>1. /\ \A u \in Thread \ {t} : thread'[u] = thread[u]
      /\ thread[t].at # "none" /\ thread'[t].at # "none" /\ thread'[t].file = thread[t].file
      /\ DOMAIN thread = Thread /\ DOMAIN thread[t] = ThreadFields
  BY ThreadMoves DEF IInv, Shapes
<1>2. /\ \A k \in sounding : \E u \in Thread : thread[u].at # "none" /\ k \in thread[u].active
      /\ pedal = 1 => \E u \in Thread : thread[u].at # "none" /\ ChannelsUsed(thread[u].file)
  BY Answered
<1>3. pedal' = 1 => pedal = 1 \/ ChannelsUsed(thread[t].file)
  <2>1. CASE CatchUp(t)
    BY <2>1 DEF CatchUp, ChannelsUsed
  <2>2. CASE Send(t)
    BY <2>2 DEF Send, Played, EventAt, ChannelsUsed, IInv, Threads
  <2> QED
    BY <2>1, <2>2 DEF ThreadStep, Leave, NoticePause, Reached
<1>4. \A k \in sounding' : k \in thread'[t].active \/ (k \in sounding /\ k \notin thread[t].active)
                           \/ (k \in sounding /\ thread'[t].active = thread[t].active)
  <2>1. CASE CatchUp(t)
    <3>1. PICK n : thread' = [thread EXCEPT ![t].at = "wait", ![t].next = n, ![t].pos = thread[t].from]
      BY <2>1 DEF CatchUp
    <3>2. thread'[t].active = thread[t].active
      BY <1>1, <3>1 DEF ThreadFields
    <3>3. sounding' = sounding
      BY <2>1 DEF CatchUp
    <3> QED
      BY <3>2, <3>3
  <2>2. CASE Send(t)
    BY <1>1, <2>2 DEF Send, Played, Noted, ThreadFields
  <2> QED
    BY <1>1, <2>1, <2>2 DEF ThreadStep, Leave, NoticePause, Reached, ThreadFields
<1> QED
  BY <1>1, <1>2, <1>3, <1>4, NothingHangsWhen

LEMMA SilenceHangs ==
  ASSUME IInv, NEW t \in Thread, Silence(t)
  PROVE  NothingHangs'
<1>1. \A u \in Thread \ {t} : thread'[u] = thread[u]
  BY ThreadMoves DEF ThreadStep
<1>2. CASE port = "gone" \/ ChannelsUsed(thread[t].file)
  <2>1. sounding' = {} /\ pedal' = 0
    BY <1>2 DEF Silence, LeftSounding, IInv, Threads
  <2> QED
    BY <2>1, NothingHangsWhen
<1>3. CASE port # "gone" /\ ~ChannelsUsed(thread[t].file)
  <2>1. sounding' = sounding \ thread[t].active /\ pedal' = pedal
    BY <1>3 DEF Silence, LeftSounding
  <2> QED
    BY <1>1, <1>3, <2>1, Answered, NothingHangsWhen
<1> QED
  BY <1>2, <1>3

LEMMA ThreadStepKeeps ==
  ASSUME IInv, NEW t \in Thread, ThreadStep(t)
  PROVE  IInv'
<1>1. /\ Shapes' /\ UNCHANGED <<cue, port, call>> /\ thread[t].at # "none"
      /\ \A u \in Thread \ {t} : thread'[u] = thread[u]
      /\ \/ ~Silence(t) /\ thread'[t].at # "none"
             /\ \A x \in {"file", "stop", "paused"} : thread'[t][x] = thread[t][x]
         \/ Silence(t) /\ thread'[t] = NotStarted
  BY ThreadMoves
<1>2. NothingHangs'
  BY StepHangs, SilenceHangs
<1>3. /\ thread'[t].at = "none" => thread'[t].active = {}
      /\ thread'[t].at = "send" => thread'[t].next \in DOMAIN Sequences[thread'[t].file].events
  <2>0. DOMAIN thread = Thread /\ DOMAIN thread[t] = ThreadFields
    BY DEF IInv, Shapes
  <2>1. CASE Silence(t)
    BY <1>1, <2>1 DEF NotStarted
  <2>2. CASE Reached(t)
    BY <2>0, <2>2 DEF Reached, More, ThreadFields
  <2>3. CASE CatchUp(t)
    <3>1. PICK n : thread' = [thread EXCEPT ![t].at = "wait", ![t].next = n, ![t].pos = thread[t].from]
      BY <2>3 DEF CatchUp
    <3> QED
      BY <2>0, <3>1 DEF ThreadFields
  <2>4. CASE Send(t) \/ Leave(t) \/ NoticePause(t)
    <3>1. thread'[t].at \in {"wait", "silence"}
      BY <2>0, <2>4 DEF Send, Leave, NoticePause, ThreadFields
    <3> QED
      BY <3>1
  <2> QED
    BY <2>1, <2>2, <2>3, <2>4 DEF ThreadStep
<1>4. port = "gone" => sounding' = {} /\ pedal' = 0
  BY DEF ThreadStep, CatchUp, Leave, NoticePause, Reached, Send, Silence, IInv, Threads
<1>5. Threads'
  <2>1. port' = port
    BY <1>1
  <2> QED
    BY <1>1, <1>3, <1>4, <2>1 DEF IInv, Threads, Sequences
<1>6. CueStates'
  BY <1>1 DEF IInv, CueStates
<1>7. PlayerIsTheCues'
  <2>1. \A u \in Thread : thread'[u].at # "none" =>
          thread[u].at # "none" /\ thread'[u].stop = thread[u].stop /\ thread'[u].paused = thread[u].paused
    BY <1>1 DEF NotStarted
  <2> QED
    BY <1>1, <2>1 DEF IInv, PlayerIsTheCues, Live
<1> QED
  BY <1>1, <1>2, <1>5, <1>6, <1>7 DEF IInv

---------------------------------------------------------------------------
(***************************************************************************)
(* The calls: a player is dropped, and perhaps another is started.           *)
(***************************************************************************)
\* The threads ts are those of before, and all of them have been told to stop.
Halts(ts) ==
  /\ DOMAIN ts = Thread /\ ts = [t \in Thread |-> ts[t]]
  /\ \A t \in Thread : /\ DOMAIN ts[t] = ThreadFields
                       /\ \A x \in {"at", "file", "next", "active"} : ts[t][x] = thread[t][x]
                       /\ ts[t].at # "none" => ts[t].stop

LEMMA DroppedHalts ==
  ASSUME IInv
  PROVE  Halts(Dropped)
<1>0. DOMAIN thread = Thread /\ thread = [t \in Thread |-> thread[t]]
      /\ \A t \in Thread : DOMAIN thread[t] = ThreadFields
  BY DEF IInv, Shapes
<1>1. \A t \in Thread : thread[t].at # "none" /\ t # cue.player => thread[t].stop
  BY DEF IInv, PlayerIsTheCues, Live
<1>2. CASE cue.player = NoThread \/ thread[cue.player].at = "none"
  <2>1. \A t \in Thread : thread[t].at # "none" => thread[t].stop
    BY <1>1, <1>2, MidiAssumption
  <2> QED
    BY <1>0, <1>2, <2>1 DEF Dropped, Halts
<1>3. CASE cue.player # NoThread /\ thread[cue.player].at # "none"
  <2>1. cue.player \in Thread
    BY <1>3 DEF IInv, CueStates
  <2>2. Dropped = [thread EXCEPT ![cue.player] = [thread[cue.player] EXCEPT !.stop = TRUE]]
    BY <1>0, <1>3, <2>1 DEF Dropped
  <2> HIDE DEF Dropped
  <2> QED
    BY <1>0, <1>1, <2>1, <2>2 DEF Halts, ThreadFields
<1> QED
  BY <1>2, <1>3

\* No player of the cue is alive: nothing has to be told to stop.
LEMMA WithoutPlayerHalts ==
  ASSUME IInv, cue.player = NoThread
  PROVE  Halts(thread)
<1>1. \A t \in Thread : thread[t].at # "none" => thread[t].stop
  BY MidiAssumption DEF IInv, PlayerIsTheCues, Live
<1> QED
  BY <1>1 DEF Halts, IInv, Shapes

\* A cue whose threads are all told to stop may be any cue without a player, and a
\* running one, or a paused one that is sought, may be given a player.
LEMMA HaltedKeeps ==
  ASSUME IInv, NEW c, NEW ts, Halts(ts),
         DOMAIN c = CueFields, c.state \in {"Standby", "Running", "Paused"}, c.player = NoThread,
         c.state # "Running" => c.acted = None,
         c.inPre => c.state = "Running" /\ c.acted = None,
         call' \in {"none", "seek"}, call' = "seek" => c.state = "Paused",
         UNCHANGED <<sounding, pedal, port>>,
         \/ cue' = c /\ thread' = ts
         \/ \E offset : /\ Start(c, ts, offset) /\ c.state # "Standby" /\ ~c.inPre
                        /\ c.state = "Paused" => call' = "seek"
  PROVE  IInv'
<1>1. \A k \in sounding : \E t \in Thread : thread[t].at # "none" /\ k \in thread[t].active
  BY Answered
<1>2. pedal = 1 => \E t \in Thread : thread[t].at # "none" /\ ChannelsUsed(thread[t].file)
  BY Answered
<1>3. CASE cue' = c /\ thread' = ts
  <2>1. Shapes'
    BY <1>3 DEF Halts, Shapes
  <2>2. Threads'
    <3>1. \A t \in Thread :
            /\ thread'[t].at = thread[t].at /\ thread'[t].file = thread[t].file
            /\ thread'[t].next = thread[t].next /\ thread'[t].active = thread[t].active
      BY <1>3 DEF Halts
    <3>2. \A t \in Thread : thread'[t].at = "none" => thread'[t].active = {}
      BY <3>1 DEF IInv, Threads
    <3>3. \A t \in Thread : thread'[t].at = "send" =>
            thread'[t].next \in DOMAIN Sequences[thread'[t].file].events
      BY <3>1 DEF IInv, Threads
    <3>4. port' = "gone" => sounding' = {} /\ pedal' = 0
      BY DEF IInv, Threads
    <3> QED
      BY <3>2, <3>3, <3>4 DEF Threads, Sequences
  <2>3. CueStates'
    BY <1>3 DEF CueStates
  <2>4. NothingHangs'
    BY <1>1, <1>2, <1>3, NothingHangsWhen DEF Halts
  <2>5. PlayerIsTheCues'
    BY <1>3, MidiAssumption DEF Halts, PlayerIsTheCues, Live
  <2> QED
    BY <2>1, <2>2, <2>3, <2>4, <2>5 DEF IInv
<1>4. ASSUME NEW offset, Start(c, ts, offset), c.state # "Standby", ~c.inPre,
             c.state = "Paused" => call' = "seek", ~(cue' = c /\ thread' = ts)
      PROVE  IInv'
  <2> DEFINE t == CHOOSE u \in Thread : u \notin Live
             new == [NotStarted EXCEPT !.at = "start", !.file = c.file, !.rate = c.rate, !.from = offset]
  <2>1. Live # Thread /\ cue' = [c EXCEPT !.player = t] /\ thread' = [ts EXCEPT ![t] = new]
    BY <1>4 DEF Start
  <2>2. t \in Thread /\ t \notin Live
    BY <2>1 DEF Live
  <2>3. /\ DOMAIN new = ThreadFields /\ new.at = "start" /\ new.active = {} /\ ~new.stop
        /\ ~new.paused
    BY DEF NotStarted, ThreadFields
  <2> HIDE DEF t, new
  <2>4. /\ cue'.player = t /\ DOMAIN cue' = CueFields
        /\ \A x \in CueFields \ {"player"} : cue'[x] = c[x]
    BY <2>1 DEF CueFields
  <2>5. thread[t].at = "none"
    BY <2>2 DEF Live
  <2>6. /\ DOMAIN thread' = Thread /\ thread' = [u \in Thread |-> thread'[u]] /\ thread'[t] = new
        /\ \A u \in Thread \ {t} : thread'[u] = ts[u]
    BY <2>1, <2>2 DEF Halts
  <2>7. Shapes'
    BY <2>3, <2>4, <2>6 DEF Halts, Shapes
  <2>8. Threads'
    BY <2>3, <2>6 DEF Halts, IInv, Threads, Sequences
  <2>9. CueStates'
    <3>1. cue'.state = c.state /\ cue'.acted = c.acted /\ cue'.inPre = c.inPre
      BY <2>4 DEF CueFields
    <3> QED
      BY <1>4, <2>2, <2>4, <3>1 DEF CueStates
  <2>10. NothingHangs'
    <3>1. \A u \in Thread : thread[u].at # "none" =>
            thread'[u].at # "none" /\ thread'[u].active = thread[u].active /\ thread'[u].file = thread[u].file
      BY <2>5, <2>6 DEF Halts
    <3> QED
      BY <1>1, <1>2, <3>1, NothingHangsWhen
  <2>11. PlayerIsTheCues'
    <3>1. cue'.state = c.state
      BY <2>4 DEF CueFields
    <3>2. \A u \in Thread \ {t} : thread'[u].at # "none" => thread'[u].stop
      BY <2>6 DEF Halts
    <3>3. call' = "none" => c.state = "Running"
      BY <1>4
    <3> QED
      BY <1>4, <2>3, <2>4, <2>6, <3>1, <3>2, <3>3 DEF PlayerIsTheCues, Live
  <2> QED
    BY <2>7, <2>8, <2>9, <2>10, <2>11 DEF IInv
<1> QED
  BY <1>3, <1>4

\* The cue without its player, and as it is on standby.
LEMMA CueForms ==
  ASSUME IInv
  PROVE  /\ DOMAIN Without = CueFields /\ Without.player = NoThread
         /\ \A x \in CueFields \ {"player"} : Without[x] = cue[x]
         /\ DOMAIN Cleared = CueFields /\ Cleared.player = NoThread
         /\ Cleared.state = "Standby" /\ Cleared.acted = None /\ Cleared.inPre = FALSE
<1>1. DOMAIN cue = CueFields
  BY DEF IInv, Shapes
<1>2. DOMAIN Without = CueFields /\ Without.player = NoThread
      /\ \A x \in CueFields \ {"player"} : Without[x] = cue[x]
  BY <1>1 DEF Without, CueFields
<1> QED
  BY <1>2 DEF Cleared, CueFields

LEMMA GoKeeps ==
  ASSUME IInv, Go
  PROVE  IInv'
<1> DEFINE c == [Without EXCEPT !.state = "Running", !.since = 0, !.held = 0, !.actedHeld = 0]
           pre == [c EXCEPT !.inPre = TRUE]
           now == [c EXCEPT !.acted = 0, !.inPre = FALSE]
<1>1. cue.acted = None
  BY DEF Go, IInv, CueStates
<1>2. /\ DOMAIN c = CueFields /\ c.player = NoThread /\ c.state = "Running" /\ c.acted = None
  BY <1>1, CueForms DEF CueFields
<1>3. UNCHANGED <<sounding, pedal, port, call>> /\ call \in {"none", "seek"} /\ call = "none"
  BY DEF Go, Asked, IInv, CueStates
<1>4. \/ cue' = pre /\ thread' = Dropped
      \/ Start(now, Dropped, 0)
  BY DEF Go
<1> HIDE DEF c
<1>5. /\ DOMAIN pre = CueFields /\ pre.player = NoThread /\ pre.state = "Running" /\ pre.acted = None
      /\ DOMAIN now = CueFields /\ now.player = NoThread /\ now.state = "Running" /\ now.inPre = FALSE
  BY <1>2 DEF CueFields
<1> HIDE DEF pre, now
<1>6. CASE cue' = pre /\ thread' = Dropped
  BY <1>3, <1>5, <1>6, DroppedHalts, HaltedKeeps
<1>7. CASE Start(now, Dropped, 0)
  BY <1>3, <1>5, <1>7, DroppedHalts, HaltedKeeps
<1> QED
  BY <1>4, <1>6, <1>7

LEMMA TickKeeps ==
  ASSUME IInv, Tick
  PROVE  IInv'
<1> DEFINE now == [cue EXCEPT !.acted = 0, !.inPre = FALSE]
<1>1. /\ cue.player = NoThread /\ cue.state = "Running" /\ DOMAIN cue = CueFields
      /\ Start(now, thread, 0) /\ UNCHANGED <<sounding, pedal, port, call>> /\ call = "none"
  BY DEF Tick, IInv, CueStates, Shapes
<1>2. /\ DOMAIN now = CueFields /\ now.player = NoThread /\ now.state = "Running" /\ now.inPre = FALSE
  BY <1>1 DEF CueFields
<1> HIDE DEF now
<1> QED
  BY <1>1, <1>2, WithoutPlayerHalts, HaltedKeeps

LEMMA StopsKeep ==
  ASSUME IInv, Stop \/ Complete \/ \E f \in Files : SetMidiFile(f)
  PROVE  IInv'
<1>1. UNCHANGED <<sounding, pedal, port, call>> /\ call = "none" /\ thread' = Dropped
  BY DEF Stop, Complete, SetMidiFile, Asked, ClearRuntime
<1>2. CASE cue' = Cleared
  <2>1. /\ DOMAIN Cleared = CueFields /\ Cleared.player = NoThread
        /\ Cleared.state = "Standby" /\ Cleared.acted = None /\ Cleared.inPre = FALSE
    BY CueForms
  <2> QED
    BY <1>1, <1>2, <2>1, DroppedHalts, HaltedKeeps
<1>3. ASSUME NEW f \in Files, SetMidiFile(f) PROVE IInv'
  <2> DEFINE c == [Cleared EXCEPT !.file = f]
  <2>1. cue' = c
    BY <1>3 DEF SetMidiFile
  <2>2. DOMAIN c = CueFields /\ c.player = NoThread
        /\ c.state = "Standby" /\ c.acted = None /\ c.inPre = FALSE
    BY CueForms DEF CueFields
  <2> HIDE DEF c
  <2> QED
    BY <1>1, <2>1, <2>2, DroppedHalts, HaltedKeeps
<1> QED
  BY <1>2, <1>3 DEF Stop, Complete, ClearRuntime

LEMMA SeekKeeps ==
  ASSUME IInv, NEW position \in Positions, Seek(position)
  PROVE  IInv'
<1> DEFINE held == [Without EXCEPT !.held = cue.preWait + position, !.actedHeld = position]
           moved == [Without EXCEPT !.since = cue.preWait + position, !.acted = position]
           c == IF cue.state = "Paused" THEN held ELSE moved
<1>1. /\ Start(c, Dropped, position) /\ UNCHANGED <<sounding, pedal, port>>
      /\ call' = IF cue.state = "Paused" THEN "seek" ELSE "none"
  BY DEF Seek
<1>2. /\ cue.state \in {"Running", "Paused"} /\ ~cue.inPre
      /\ cue.state = "Paused" => cue.acted = None
  BY DEF Seek, IInv, CueStates
<1>3. /\ DOMAIN held = CueFields /\ held.player = NoThread /\ held.acted = cue.acted
      /\ held.state = cue.state /\ held.inPre = cue.inPre
      /\ DOMAIN moved = CueFields /\ moved.player = NoThread
      /\ moved.state = cue.state /\ moved.inPre = cue.inPre
  BY CueForms DEF CueFields
<1> HIDE DEF held, moved
<1>4. /\ DOMAIN c = CueFields /\ c.player = NoThread /\ c.state = cue.state /\ c.inPre = cue.inPre
      /\ cue.state = "Paused" => c.acted = None
  BY <1>2, <1>3
<1> HIDE DEF c
<1> QED
  BY <1>1, <1>2, <1>4, DroppedHalts, HaltedKeeps

LEMMA UpdateKeeps ==
  ASSUME IInv, NEW rate \in Rates, Update(rate)
  PROVE  IInv'
<1> DEFINE pre == cue.state = "Running" /\ cue.acted = None
           c == [Without EXCEPT !.rate = rate, !.held = 0, !.actedHeld = 0, !.inPre = pre]
<1>1. /\ UNCHANGED <<sounding, pedal, port, call>> /\ call = "none"
      /\ \/ cue.state = "Running" /\ ~pre /\ Start(c, Dropped, cue.acted)
         \/ cue' = c /\ thread' = Dropped
  BY DEF Update, Asked
<1>2. cue.state \in {"Standby", "Running", "Paused"} /\ (cue.state # "Running" => cue.acted = None)
  BY DEF IInv, CueStates
<1> HIDE DEF pre
<1>3. /\ DOMAIN c = CueFields /\ c.player = NoThread /\ c.acted = cue.acted
      /\ c.state = cue.state /\ c.inPre = pre
  BY CueForms DEF CueFields
<1> HIDE DEF c
<1>4. pre => cue.state = "Running" /\ cue.acted = None
  BY DEF pre
<1>5. CASE cue' = c /\ thread' = Dropped
  BY <1>1, <1>2, <1>3, <1>4, <1>5, DroppedHalts, HaltedKeeps
<1>6. CASE cue.state = "Running" /\ ~pre /\ Start(c, Dropped, cue.acted)
  BY <1>1, <1>2, <1>3, <1>4, <1>6, DroppedHalts, HaltedKeeps
<1> QED
  BY <1>1, <1>5, <1>6

---------------------------------------------------------------------------
(***************************************************************************)
(* The steps that leave the player be.                                       *)
(***************************************************************************)
\* The player of the cue is told to pause, or to go on.
LEMMA PausedPlayer ==
  ASSUME IInv, NEW p \in BOOLEAN
  PROVE  LET ts == Paused(thread, p)
         IN  /\ DOMAIN ts = Thread /\ ts = [t \in Thread |-> ts[t]]
             /\ \A t \in Thread :
                  /\ DOMAIN ts[t] = ThreadFields
                  /\ \A x \in ThreadFields \ {"paused"} : ts[t][x] = thread[t][x]
                  /\ t = cue.player /\ thread[t].at # "none" => ts[t].paused = p
<1>0. DOMAIN thread = Thread /\ thread = [t \in Thread |-> thread[t]]
      /\ \A t \in Thread : DOMAIN thread[t] = ThreadFields
  BY DEF IInv, Shapes
<1>1. CASE cue.player = NoThread \/ thread[cue.player].at = "none"
  <2>1. Paused(thread, p) = thread
    BY <1>1 DEF Paused
  <2> QED
    BY <1>0, <1>1, <2>1, MidiAssumption
<1>2. CASE cue.player # NoThread /\ thread[cue.player].at # "none"
  <2> DEFINE ts == Paused(thread, p)
  <2>1. cue.player \in Thread
    BY <1>2 DEF IInv, CueStates
  <2>2. ts = [thread EXCEPT ![cue.player] = [thread[cue.player] EXCEPT !.paused = p]]
    BY <1>0, <1>2, <2>1 DEF Paused
  <2> HIDE DEF ts
  <2>3. /\ DOMAIN ts = Thread /\ ts = [t \in Thread |-> ts[t]]
        /\ \A t \in Thread :
             /\ DOMAIN ts[t] = ThreadFields
             /\ \A x \in ThreadFields \ {"paused"} : ts[t][x] = thread[t][x]
             /\ t = cue.player => ts[t].paused = p
    BY <1>0, <2>1, <2>2 DEF ThreadFields
  <2> QED
    BY <2>3 DEF ts
<1> QED
  BY <1>1, <1>2

\* Threads and cue keep what the invariant looks at, but for the pause.
LEMMA SamePlayerKeeps ==
  ASSUME IInv, DOMAIN thread' = Thread, thread' = [t \in Thread |-> thread'[t]],
         \A t \in Thread :
           /\ DOMAIN thread'[t] = ThreadFields
           /\ \A x \in {"at", "file", "next", "active", "stop"} : thread'[t][x] = thread[t][x],
         DOMAIN cue' = CueFields, cue'.player = cue.player, cue'.inPre = cue.inPre,
         cue'.state \in {"Running", "Paused"} \/ cue'.state = cue.state,
         cue'.inPre => cue'.state = "Running" /\ cue'.acted = None,
         cue'.state # "Running" => cue'.acted = None,
         call' \in {"none", "seek"}, call' = "seek" => cue'.state = "Paused",
         call' = "none" /\ cue.player \in Live =>
           (thread'[cue.player].paused <=> cue'.state = "Paused"),
         port' = "gone" => sounding' = {} /\ pedal' = 0, sounding' \subseteq sounding,
         pedal' = 1 => pedal = 1
  PROVE  IInv'
<1>1. Shapes'
  BY DEF Shapes
<1>2. Threads'
  BY DEF IInv, Threads, Sequences
<1>3. CueStates'
  BY DEF IInv, CueStates
<1>4. NothingHangs'
  BY Answered, NothingHangsWhen
<1>5. PlayerIsTheCues'
  BY DEF IInv, PlayerIsTheCues, Live
<1> QED
  BY <1>1, <1>2, <1>3, <1>4, <1>5 DEF IInv

LEMMA PauseKeeps ==
  ASSUME IInv, Pause
  PROVE  IInv'
<1>1. /\ thread' = Paused(thread, TRUE) /\ cue.state = "Running" /\ ~cue.inPre
      /\ UNCHANGED <<sounding, pedal, port, call>> /\ call = "none" /\ DOMAIN cue = CueFields
  BY DEF Pause, Asked, IInv, Shapes
<1>2. /\ DOMAIN cue' = CueFields /\ cue'.player = cue.player /\ cue'.inPre = cue.inPre
      /\ cue'.state = "Paused" /\ cue'.acted = None
  BY <1>1 DEF Pause, CueFields
<1>3. /\ DOMAIN thread' = Thread /\ thread' = [t \in Thread |-> thread'[t]]
      /\ \A t \in Thread :
           /\ DOMAIN thread'[t] = ThreadFields
           /\ \A x \in ThreadFields \ {"paused"} : thread'[t][x] = thread[t][x]
           /\ t = cue.player /\ thread[t].at # "none" => thread'[t].paused = TRUE
  BY <1>1, PausedPlayer
<1>4. cue.player \in Live => thread'[cue.player].paused = TRUE
  BY <1>3 DEF Live
<1>5. \A t \in Thread : \A x \in {"at", "file", "next", "active", "stop"} : thread'[t][x] = thread[t][x]
  BY <1>3 DEF ThreadFields
<1>6. port' = "gone" => sounding' = {} /\ pedal' = 0
  BY <1>1 DEF IInv, Threads
<1> QED
  BY <1>1, <1>2, <1>3, <1>4, <1>5, <1>6, SamePlayerKeeps

LEMMA ResumeKeeps ==
  ASSUME IInv, Resume
  PROVE  IInv'
<1>1. /\ thread' = Paused(thread, FALSE) /\ cue.state = "Paused" /\ ~cue.inPre
      /\ UNCHANGED <<sounding, pedal, port, call>> /\ call = "none" /\ DOMAIN cue = CueFields
  BY DEF Resume, Asked, IInv, Shapes, CueStates
<1>2. /\ DOMAIN cue' = CueFields /\ cue'.player = cue.player /\ cue'.inPre = cue.inPre
      /\ cue'.state = "Running"
  BY <1>1 DEF Resume, CueFields
<1>3. /\ DOMAIN thread' = Thread /\ thread' = [t \in Thread |-> thread'[t]]
      /\ \A t \in Thread :
           /\ DOMAIN thread'[t] = ThreadFields
           /\ \A x \in ThreadFields \ {"paused"} : thread'[t][x] = thread[t][x]
           /\ t = cue.player /\ thread[t].at # "none" => thread'[t].paused = FALSE
  BY <1>1, PausedPlayer
<1>4. cue.player \in Live => thread'[cue.player].paused = FALSE
  BY <1>3 DEF Live
<1>5. \A t \in Thread : \A x \in {"at", "file", "next", "active", "stop"} : thread'[t][x] = thread[t][x]
  BY <1>3 DEF ThreadFields
<1>6. port' = "gone" => sounding' = {} /\ pedal' = 0
  BY <1>1 DEF IInv, Threads
<1> QED
  BY <1>1, <1>2, <1>3, <1>4, <1>5, <1>6, SamePlayerKeeps

LEMMA SeekPausesKeeps ==
  ASSUME IInv, SeekPauses
  PROVE  IInv'
<1>1. /\ thread' = Paused(thread, TRUE) /\ cue.state = "Paused" /\ ~cue.inPre
      /\ UNCHANGED <<cue, sounding, pedal, port>> /\ call' = "none" /\ DOMAIN cue = CueFields
      /\ cue.acted = None
  BY DEF SeekPauses, IInv, Shapes, CueStates
<1>3. /\ DOMAIN thread' = Thread /\ thread' = [t \in Thread |-> thread'[t]]
      /\ \A t \in Thread :
           /\ DOMAIN thread'[t] = ThreadFields
           /\ \A x \in ThreadFields \ {"paused"} : thread'[t][x] = thread[t][x]
           /\ t = cue.player /\ thread[t].at # "none" => thread'[t].paused = TRUE
  BY <1>1, PausedPlayer
<1>4. cue.player \in Live => thread'[cue.player].paused = TRUE
  BY <1>3 DEF Live
<1>5. \A t \in Thread : \A x \in {"at", "file", "next", "active", "stop"} : thread'[t][x] = thread[t][x]
  BY <1>3 DEF ThreadFields
<1>6. port' = "gone" => sounding' = {} /\ pedal' = 0
  BY <1>1 DEF IInv, Threads
<1> QED
  BY <1>1, <1>3, <1>4, <1>5, <1>6, SamePlayerKeeps

LEMMA UnplugKeeps ==
  ASSUME IInv, Unplug
  PROVE  IInv'
<1>1. UNCHANGED <<cue, thread, call>> /\ sounding' = {} /\ pedal' = 0
  BY DEF Unplug
<1> QED
  BY <1>1, SamePlayerKeeps DEF IInv, Shapes, CueStates, PlayerIsTheCues

LEMMA ElapseKeeps ==
  ASSUME IInv, Elapse
  PROVE  IInv'
<1>1. UNCHANGED <<sounding, pedal, port, call>> /\ DOMAIN cue = CueFields
  BY DEF Elapse, IInv, Shapes
<1>2. /\ DOMAIN cue' = CueFields /\ \A x \in CueFields \ {"since", "acted"} : cue'[x] = cue[x]
      /\ cue.acted = None => cue'.acted = None
  BY <1>1 DEF Elapse, Later, CueFields
<1>3. /\ DOMAIN thread' = Thread /\ thread' = [t \in Thread |-> thread'[t]]
      /\ \A t \in Thread : /\ DOMAIN thread'[t] = ThreadFields
                           /\ \A x \in ThreadFields \ {"pos"} : thread'[t][x] = thread[t][x]
  <2>1. thread' = [t \in Thread |-> IF thread[t].at \in {"none", "start"} \/ thread[t].waits THEN thread[t]
                                    ELSE [thread[t] EXCEPT !.pos = Later(@)]]
    BY DEF Elapse
  <2> QED
    BY <2>1 DEF IInv, Shapes, ThreadFields
<1>4. /\ cue'.player = cue.player /\ cue'.inPre = cue.inPre /\ cue'.state = cue.state
  BY <1>2 DEF CueFields
<1> QED
  BY <1>1, <1>2, <1>3, <1>4, SamePlayerKeeps DEF ThreadFields, Live, IInv, Threads, CueStates, PlayerIsTheCues

---------------------------------------------------------------------------
LEMMA InitIInv == Init => IInv
<1> SUFFICES ASSUME Init PROVE IInv
  OBVIOUS
<1>1. /\ thread = [t \in Thread |-> NotStarted] /\ DOMAIN NotStarted = ThreadFields
      /\ NotStarted.at = "none" /\ NotStarted.active = {}
  BY DEF Init, NotStarted, ThreadFields
<1>2. /\ DOMAIN cue = CueFields /\ cue.state = "Standby" /\ cue.acted = None /\ cue.inPre = FALSE
      /\ cue.player = NoThread
  BY DEF Init, CueFields
<1>3. sounding = {} /\ pedal = 0 /\ call = "none"
  BY DEF Init
<1> HIDE DEF NotStarted
<1>4. Shapes
  BY <1>1, <1>2 DEF Shapes
<1>5. Threads
  BY <1>1, <1>3 DEF Threads
<1>6. CueStates
  BY <1>2, <1>3 DEF CueStates
<1>7. NothingHangs /\ PlayerIsTheCues
  BY <1>1, <1>2, <1>3, MidiAssumption DEF NothingHangs, PlayerIsTheCues, Live
<1> QED
  BY <1>4, <1>5, <1>6, <1>7 DEF IInv

LEMMA NextIInv == IInv /\ [Next]_vars => IInv'
<1> SUFFICES ASSUME IInv, [Next]_vars PROVE IInv'
  OBVIOUS
<1>1. CASE UNCHANGED vars
  <2>1. UNCHANGED <<cue, thread, sounding, pedal, port, call>>
    BY <1>1 DEF vars
  <2> QED
    BY <2>1, SamePlayerKeeps DEF IInv, Shapes, Threads, CueStates, PlayerIsTheCues
<1> QED
  BY <1>1, ThreadStepKeeps, GoKeeps, TickKeeps, StopsKeep, PauseKeeps, ResumeKeeps, SeekKeeps,
     SeekPausesKeeps, UpdateKeeps, UnplugKeeps, ElapseKeeps DEF Next

LEMMA InvariantHolds == Spec => []IInv
  BY InitIInv, NextIInv, PTL DEF Spec

\* Stopping never leaves a note hanging (midi_file_cue.rs:16), however many players of
\* the cue were started, replaced, cut and silenced on one instrument, and whatever the
\* files: a key that sounds is on the list of a thread that is alive and releases it
\* (midi_file.rs: play, ActiveNotes, silence, MidiFilePlayer::drop).
THEOREM NoNoteHangs == Spec => []NothingHangs
  BY InvariantHolds, PTL DEF IInv

\* At most one thread means to play on, that of the cue, and it waits exactly when the
\* cue is paused (midi_file_cue.rs: start_player, pause, resume, seek,
\* restore_runtime_state; MidiFilePlayer::drop).
THEOREM OnePlayer == Spec => []PlayerIsTheCues
  BY InvariantHolds, PTL DEF IInv

Byte == 0..(Levels - 1)
FadeOrder == [op : {"fade"}, ch : Nat, width : {1, 2}, target : 0..Full, dur : Nat]

---------------------------------------------------------------------------
(***************************************************************************)
(* Lighting: values and bytes.                                              *)
(***************************************************************************)
USE LightingAssumption DEF Slot, Byte, Full

LEMMA DivIs ==
  ASSUME NEW a \in Int, NEW d \in Nat \ {0}
  PROVE  /\ a \div d \in Int
         /\ d * (a \div d) <= a /\ a < d * (a \div d) + d
  OBVIOUS

\* A product with a factor that is greater is greater.
LEMMA TimesLess ==
  ASSUME NEW d \in Nat \ {0}, NEW q \in Int, NEW r \in Int, d * q < d * r
  PROVE  q < r
<1>1. CASE q >= r
  <2>1. PICK e \in Nat : q = r + e
    <3>1. q - r \in Nat /\ q = r + (q - r)
      BY <1>1
    <3> QED
      BY <3>1
  <2>2. d * q = d * r + d * e
    BY <2>1
  <2>3. d * e >= 0
    OBVIOUS
  <2> QED
    BY <2>2, <2>3
<1> QED
  BY <1>1

LEMMA FullIs == Full \in Nat /\ Full + 1 = Levels * Levels /\ Levels * Levels \in Nat
<1>1. Levels * Levels >= 1
  OBVIOUS
<1> QED
  BY <1>1

\* A value comes to bytes.
LEMMA BytesAre ==
  ASSUME NEW n \in 0..Full, NEW w \in {1, 2}
  PROVE  \A i \in 1..w : NormToBytes(n, w)[i] \in Byte
<1>1. CASE w = 1
  <2> DEFINE a == 2 * n + Levels + 1
             d == 2 * (Levels + 1)
             q == a \div d
  <2>1. a \in Nat /\ d \in Nat \ {0} /\ n + 1 <= Levels * Levels
    BY FullIs
  <2>2. d * Levels = 2 * (Levels * Levels) + 2 * Levels
    OBVIOUS
  <2>3. a < d * Levels
    BY <2>1, <2>2
  <2> HIDE DEF a, d
  <2>4. q \in Int /\ d * q <= a /\ a < d * q + d
    BY <2>1, DivIs
  <2>5. d * q < d * Levels
    BY <2>1, <2>2, <2>3, <2>4
  <2> HIDE DEF q
  <2>6. q < Levels
    BY <2>1, <2>4, <2>5, TimesLess
  <2>7. d * 0 < d * (q + 1)
    <3>1. d * (q + 1) = d * q + d /\ d * 0 = 0
      BY <2>1, <2>4
    <3>2. d * q \in Int
      BY <2>1, <2>4
    <3> QED
      BY <2>1, <2>4, <3>1, <3>2
  <2>8. 0 < q + 1
    BY <2>1, <2>4, <2>7, TimesLess
  <2>9. NormToBytes(n, w) = <<q>>
    BY <1>1 DEF NormToBytes, q, d, a
  <2> QED
    BY <1>1, <2>4, <2>6, <2>8, <2>9
<1>2. CASE w = 2
  <2> DEFINE q == n \div Levels
  <2>1. q \in Int /\ Levels * q <= n /\ n < Levels * q + Levels
    BY FullIs, DivIs
  <2>2. Levels * q < Levels * Levels /\ Levels * 0 < Levels * (q + 1)
    <3>1. Levels * (q + 1) = Levels * q + Levels
      BY <2>1
    <3> QED
      BY <2>1, <3>1, FullIs
  <2>3. q \in Byte
    <3> HIDE DEF q
    <3>1. q < Levels
      BY <2>1, <2>2, TimesLess
    <3>2. 0 < q + 1
      BY <2>1, <2>2, TimesLess
    <3> QED
      BY <2>1, <3>1, <3>2
  <2>4. n % Levels \in Byte
    BY FullIs
  <2> QED
    BY <1>2, <2>3, <2>4 DEF NormToBytes
<1> QED
  BY <1>1, <1>2

LEMMA BytesRead ==
  ASSUME NEW b \in [Slot -> Byte], NEW ch \in Nat, NEW w \in {1, 2}
  PROVE  ReadNorm(b, ch, w) \in 0..Full
<1>1. \A i \in Nat : At(b, i) \in Byte
  BY DEF At
<1>0. ch \in Nat /\ ch + 1 \in Nat
  OBVIOUS
<1>2. \A x, y \in Byte : x * Levels + y \in 0..Full /\ x * (Levels + 1) \in 0..Full
  <2> SUFFICES ASSUME NEW x \in Byte, NEW y \in Byte
               PROVE  x * Levels + y \in 0..Full /\ x * (Levels + 1) \in 0..Full
    OBVIOUS
  <2>1. PICK e \in Nat : x + 1 + e = Levels
    <3>1. Levels - 1 - x \in Nat /\ x + 1 + (Levels - 1 - x) = Levels
      OBVIOUS
    <3> QED
      BY <3>1
  <2>2. Levels * Levels = x * Levels + Levels + e * Levels
    BY <2>1
  <2>3. x * Levels \in Nat /\ e * Levels \in Nat /\ x * (Levels + 1) = x * Levels + x
    BY <2>1
  <2> QED
    BY <2>2, <2>3, FullIs
<1>3. At(b, ch) \in Byte /\ At(b, ch + 1) \in Byte
  <2> HIDE DEF Byte
  <2> QED
    BY <1>0, <1>1
<1> HIDE DEF Byte, Full
<1> QED
  BY <1>2, <1>3 DEF ReadNorm

LEMMA WrittenBytes ==
  ASSUME NEW b \in [Slot -> Byte], NEW ch \in Nat, NEW w \in {1, 2}, NEW n \in 0..Full
  PROVE  WriteNorm(b, ch, w, n) \in [Slot -> Byte]
<1>1. \A i \in ch..(ch + w - 1) : i - ch + 1 \in 1..w
  OBVIOUS
<1> QED
  BY <1>1, BytesAre DEF WriteNorm

\* The slots from c hold the value n.
Holds(b, c, w, n) == \A i \in c..(c + w - 1) : b[i] = NormToBytes(n, w)[i - c + 1]

LEMMA HeldIsKept ==
  ASSUME NEW b, NEW c \in Slot, NEW w \in {1, 2}, NEW n \in 0..Full,
         c + w <= Slots, Holds(b, c, w, n)
  PROVE  ReadNorm(b, c, w) = Kept(n, w)
<1>1. c \in c..(c + w - 1) /\ c - c + 1 = 1
  OBVIOUS
<1>2. At(b, c) = NormToBytes(n, w)[1]
  BY <1>1 DEF Holds, At
<1>3. At(WriteNorm(Dark, 0, w, n), 0) = NormToBytes(n, w)[1]
  BY DEF At, WriteNorm
<1>4. CASE w = 1
  BY <1>2, <1>3, <1>4 DEF ReadNorm, Kept
<1>5. CASE w = 2
  <2>1. c + 1 \in c..(c + w - 1) /\ c + 1 - c + 1 = 2 /\ c + 1 \in Slot /\ 1 \in Slot
    BY <1>5
  <2>2. At(b, c + 1) = NormToBytes(n, w)[2]
    BY <2>1 DEF Holds, At
  <2>3. At(WriteNorm(Dark, 0, w, n), 0 + 1) = NormToBytes(n, w)[2]
    BY <1>5, <2>1 DEF At, WriteNorm
  <2> QED
    BY <1>2, <1>3, <1>5, <2>2, <2>3 DEF ReadNorm, Kept
<1> QED
  BY <1>4, <1>5

---------------------------------------------------------------------------
(***************************************************************************)
(* Lists of targets, and the fades they come to.                            *)
(***************************************************************************)
LEMMA LeastIs ==
  ASSUME NEW T \in SUBSET Nat, T # {}
  PROVE  \E x \in T : \A y \in T : x <= y
<1> DEFINE R == {p \in Nat \X Nat : p[1] < p[2]}
<1>1. R = OpToRel(<, Nat)
  BY DEF OpToRel
<1>2. IsWellFoundedOn(R, Nat)
  BY <1>1, NatLessThanWellFounded
<1>3. \E x \in T : \A y \in T : ~(<<y, x>> \in R)
  <2> HIDE DEF R
  <2> QED
    BY <1>2, WFMin
<1>4. \A x, y \in Nat : <<y, x>> \in R <=> y < x
  OBVIOUS
<1>5. \A x, y \in Nat : ~(y < x) => x <= y
  OBVIOUS
<1> QED
  <2> HIDE DEF R
  <2> QED
    BY <1>3, <1>4, <1>5

\* What holds at 0 and, with a number, at the one above it, holds up to any bound.
LEMMA UpTo ==
  ASSUME NEW N \in Nat, NEW S, 0 \in S, \A k \in 1..N : k - 1 \in S => k \in S
  PROVE  0..N \subseteq S
<1> DEFINE T == {k \in 0..N : k \notin S}
<1> SUFFICES ASSUME T # {} PROVE FALSE
  OBVIOUS
<1>0. T \in SUBSET Nat
  OBVIOUS
<1>1. PICK x \in T : \A y \in T : x <= y
  <2> HIDE DEF T
  <2> QED
    BY <1>0, LeastIs
<1>2. x \in 1..N /\ x - 1 \in 0..N /\ ~(x <= x - 1)
  BY <1>1
<1>3. x - 1 \in S
  BY <1>1, <1>2
<1> QED
  BY <1>1, <1>2, <1>3

LEMMA SeqIs ==
  ASSUME NEW T, NEW s
  PROVE  /\ s \in Seq(T) => /\ Len(s) \in Nat /\ DOMAIN s = 1..Len(s)
                            /\ \A i \in 1..Len(s) : s[i] \in T
         /\ \A n \in Nat : s \in [1..n -> T] => s \in Seq(T) /\ Len(s) = n
  BY ElementOfSeq, LenProperties

LEMMA JoinedIs ==
  ASSUME NEW T, NEW s \in Seq(T), NEW t \in Seq(T)
  PROVE  s \o t \in Seq(T)
  OBVIOUS

\* The lists of a list, one after the other.
LEMMA FlattenIs ==
  ASSUME NEW T, NEW s \in Seq(Seq(T))
  PROVE  FlattenSeq(s) \in Seq(T)
<1>1. Len(s) \in Nat /\ \A i \in 1..Len(s) : s[i] \in Seq(T)
  BY SeqIs
<1>2. CASE Len(s) = 0
  <2>1. s = <<>>
    BY <1>2, EmptySeq
  <2> QED
    BY <1>2, <2>1 DEF FlattenSeq
<1>3. CASE Len(s) # 0
  <2> DEFINE Good(n, f) == \A i \in 1..n : f[i] = IF i = 1 THEN s[i] ELSE f[i - 1] \o s[i]
             S == {n \in 0..Len(s) : \E f \in [1..n -> Seq(T)] : Good(n, f)}
             Is(g) == g = [i \in 1..Len(s) |-> IF i = 1 THEN s[i] ELSE g[i - 1] \o s[i]]
  <2>1. 0 \in S
    <3>1. \A i \in 1..0 : FALSE
      OBVIOUS
    <3>2. [i \in 1..0 |-> s[i]] \in [1..0 -> Seq(T)]
      BY <3>1
    <3>3. Good(0, [i \in 1..0 |-> s[i]])
      BY <3>1
    <3>4. 0 \in 0..Len(s)
      BY <1>1
    <3> HIDE DEF Good
    <3> QED
      BY <3>2, <3>3, <3>4, Zenon
  <2>2. ASSUME NEW n \in 1..Len(s), n - 1 \in S PROVE n \in S
    <3>1. PICK f \in [1..(n - 1) -> Seq(T)] : Good(n - 1, f)
      BY <2>2
    <3> DEFINE next == IF n = 1 THEN s[n] ELSE f[n - 1] \o s[n]
               g == [i \in 1..n |-> IF i = n THEN next ELSE f[i]]
    <3>2. next \in Seq(T)
      <4>1. CASE n = 1
        BY <1>1, <4>1
      <4>2. CASE n # 1
        <5>1. n - 1 \in 1..(n - 1)
          BY <4>2
        <5>2. f[n - 1] \in Seq(T) /\ s[n] \in Seq(T)
          BY <1>1, <5>1
        <5> QED
          BY <4>2, <5>2, JoinedIs
      <4> QED
        BY <4>1, <4>2
    <3> HIDE DEF next
    <3>3. \A i \in 1..n : i # n => i \in 1..(n - 1)
      OBVIOUS
    <3>4. g \in [1..n -> Seq(T)]
      BY <3>2, <3>3
    <3>5. \A i \in 1..(n - 1) : g[i] = f[i]
      OBVIOUS
    <3>6. ASSUME NEW i \in 1..n PROVE g[i] = IF i = 1 THEN s[i] ELSE g[i - 1] \o s[i]
      <4>1. i # 1 => i - 1 \in 1..(n - 1)
        OBVIOUS
      <4>2. CASE i = n
        <5>1. g[i] = next
          BY <4>2
        <5> HIDE DEF g
        <5> QED
          BY <3>5, <4>1, <4>2, <5>1 DEF next
      <4>3. CASE i # n
        <5>1. i \in 1..(n - 1)
          BY <4>3
        <5>2. f[i] = IF i = 1 THEN s[i] ELSE f[i - 1] \o s[i]
          BY <3>1, <5>1
        <5> HIDE DEF g
        <5> QED
          BY <3>5, <4>1, <5>1, <5>2
      <4> QED
        BY <4>2, <4>3
    <3>7. n \in 0..Len(s)
      OBVIOUS
    <3> HIDE DEF g
    <3>8. Good(n, g)
      BY <3>6
    <3> HIDE DEF Good
    <3> QED
      BY <3>4, <3>7, <3>8
  <2>3. 0..Len(s) \subseteq S
    <3> HIDE DEF S
    <3> QED
      BY <1>1, <2>1, <2>2, UpTo
  <2>4. Len(s) \in S
    <3> HIDE DEF S
    <3> QED
      BY <1>1, <2>3
  <2>5. PICK f \in [1..Len(s) -> Seq(T)] : Good(Len(s), f)
    BY <2>4
  <2>6. Is(f)
    BY <2>5
  <2>7. ASSUME NEW g, Is(g) PROVE g = f
    <3> DEFINE H == {n \in 0..Len(s) : n = 0 \/ g[n] = f[n]}
    <3>1. 0 \in H
      BY <1>1
    <3>2. ASSUME NEW n \in 1..Len(s), n - 1 \in H PROVE n \in H
      <4>1. n \in 0..Len(s) /\ (n = 1 \/ g[n - 1] = f[n - 1])
        BY <3>2, <1>1
      <4>2. g[n] = IF n = 1 THEN s[n] ELSE g[n - 1] \o s[n]
        BY <2>7
      <4>3. f[n] = IF n = 1 THEN s[n] ELSE f[n - 1] \o s[n]
        BY <2>5
      <4> QED
        BY <4>1, <4>2, <4>3
    <3>3. 0..Len(s) \subseteq H
      <4> HIDE DEF H
      <4> QED
        BY <1>1, <3>1, <3>2, UpTo
    <3>4. ASSUME NEW n \in 1..Len(s) PROVE g[n] = f[n]
      <4>1. n \in 0..Len(s) /\ n # 0
        BY <1>1
      <4>2. n \in H
        BY <3>3, <4>1
      <4> QED
        BY <4>1, <4>2
    <3>5. g = [i \in 1..Len(s) |-> g[i]] /\ f = [i \in 1..Len(s) |-> f[i]]
      BY <2>7
    <3> QED
      BY <3>4, <3>5
  <2>8. FlattenSeq(s) = (CHOOSE g : Is(g))[Len(s)]
    BY <1>3, Zenon DEF FlattenSeq
  <2>9. (CHOOSE g : Is(g)) = f
    <3> HIDE DEF Is
    <3> QED
      BY <2>6, <2>7, Zenon
  <2>10. Len(s) \in 1..Len(s)
    BY <1>1, <1>3
  <2>11. f[Len(s)] \in Seq(T)
    <3> HIDE DEF Good
    <3> QED
      BY <2>5, <2>10
  <2> HIDE DEF Good, Is
  <2> QED
    BY <2>8, <2>9, <2>11
<1> QED
  BY <1>2, <1>3

Patches == [Fixture -> Address \cup {0}]

LEMMA ResolvedIs ==
  ASSUME NEW p \in Patches, NEW f \in Fixture, NEW i \in DOMAIN Layout[f]
  PROVE  /\ ResolveChannel(p, f, i).ch \in Nat /\ ResolveChannel(p, f, i).width \in {1, 2}
         /\ p[f] \in Nat
<1>1. p[f] \in Nat
  <2>1. p[f] \in Address \cup {0}
    BY DEF Patches
  <2>2. Address \subseteq Nat
    BY LightingAssumption
  <2>3. CASE p[f] = 0
    BY <2>3
  <2>4. CASE p[f] \in Address
    BY <2>2, <2>4, Zenon
  <2> QED
    BY <2>1, <2>3, <2>4, Zenon
<1> QED
  BY <1>1 DEF ResolveChannel

LEMMA PlacedIs ==
  ASSUME NEW p \in Patches, NEW f \in Fixture, NEW i \in DOMAIN Layout[f],
         NEW value \in 0..Full, NEW dur \in Nat
  PROVE  Placed(p, f, i, value, dur) \in FadeOrder
<1>1. ResolveChannel(p, f, i).ch \in Nat /\ ResolveChannel(p, f, i).width \in {1, 2}
  BY ResolvedIs
<1> QED
  BY <1>1 DEF Placed, Submit, FadeOrder

LEMMA OfKindIs ==
  ASSUME NEW p \in Patches, NEW f \in Fixture, NEW t, t.value \in 0..Full, NEW dur \in Nat
  PROVE  OfKind(p, f, t, dur) \in Seq(FadeOrder)
<1> DEFINE some(i) == IF Layout[f][i].kind = t.kind THEN <<Placed(p, f, i, t.value, dur)>> ELSE <<>>
           all == [i \in DOMAIN Layout[f] |-> some(i)]
<1>1. ASSUME NEW i \in DOMAIN Layout[f] PROVE some(i) \in Seq(FadeOrder)
  <2>1. Placed(p, f, i, t.value, dur) \in FadeOrder
    BY PlacedIs
  <2> QED
    BY <2>1
<1>2. DOMAIN Layout[f] = 1..Len(Layout[f]) /\ Len(Layout[f]) \in Nat
  BY DEF IsList
<1>3. all \in [1..Len(Layout[f]) -> Seq(FadeOrder)]
  <2> HIDE DEF some
  <2> QED
    BY <1>1, <1>2
<1>4. all \in Seq(Seq(FadeOrder))
  <2> HIDE DEF all
  <2> QED
    BY <1>2, <1>3, SeqIs
<1>5. FlattenSeq(all) \in Seq(FadeOrder)
  <2> HIDE DEF all
  <2> QED
    BY <1>4, FlattenIs
<1> QED
  BY <1>5 DEF OfKind

LEMMA TargetedIs ==
  ASSUME NEW p \in Patches, NEW t, IsTarget(t), NEW dur \in Nat
  PROVE  Targeted(p, t, dur) \in Seq(FadeOrder)
<1>1. CASE t.of = "fixture"
  <2>1. t.fixture \in Fixture /\ t.value \in 0..Full
    BY <1>1 DEF IsTarget
  <2>2. CASE p[t.fixture] = 0 \/ t.param \notin DOMAIN Layout[t.fixture]
    BY <1>1, <2>2 DEF Targeted
  <2>3. CASE ~(p[t.fixture] = 0 \/ t.param \notin DOMAIN Layout[t.fixture])
    <3>1. Placed(p, t.fixture, t.param, t.value, dur) \in FadeOrder
      BY <2>1, <2>3, PlacedIs
    <3> QED
      BY <1>1, <2>3, <3>1 DEF Targeted
  <2> QED
    BY <2>2, <2>3
<1>2. CASE t.of # "fixture"
  <2> DEFINE group == Members[t.group]
             one(m) == IF p[group[m]] = 0 THEN <<>> ELSE OfKind(p, group[m], t, dur)
             all == [m \in DOMAIN group |-> one(m)]
  <2>1. /\ t.group \in DOMAIN Members /\ t.value \in 0..Full
        /\ DOMAIN group = 1..Len(group) /\ Len(group) \in Nat
        /\ \A m \in DOMAIN group : group[m] \in Fixture
    BY <1>2 DEF IsTarget, IsList
  <2> HIDE DEF group
  <2>2. ASSUME NEW m \in DOMAIN group PROVE one(m) \in Seq(FadeOrder)
    <3>1. OfKind(p, group[m], t, dur) \in Seq(FadeOrder)
      BY <2>1, OfKindIs
    <3> QED
      BY <3>1
  <2>3. all \in [1..Len(group) -> Seq(FadeOrder)]
    <3> HIDE DEF one
    <3> QED
      BY <2>1, <2>2
  <2>4. all \in Seq(Seq(FadeOrder))
    <3> HIDE DEF all
    <3> QED
      BY <2>1, <2>3, SeqIs
  <2>5. FlattenSeq(all) \in Seq(FadeOrder)
    <3> HIDE DEF all
    <3> QED
      BY <2>4, FlattenIs
  <2>6. Targeted(p, t, dur) = FlattenSeq(all)
    BY <1>2 DEF Targeted, group
  <2> QED
    BY <2>5, <2>6
<1> QED
  BY <1>1, <1>2

LEMMA SubmitTargetsIs ==
  ASSUME NEW p \in Patches, NEW ts, AreTargets(ts), NEW dur \in Nat
  PROVE  SubmitTargets(p, ts, dur) \in Seq(FadeOrder)
<1> DEFINE all == [k \in DOMAIN ts |-> Targeted(p, ts[k], dur)]
<1>1. DOMAIN ts = 1..Len(ts) /\ Len(ts) \in Nat /\ \A k \in DOMAIN ts : IsTarget(ts[k])
  BY DEF AreTargets, IsList
<1>2. \A k \in DOMAIN ts : Targeted(p, ts[k], dur) \in Seq(FadeOrder)
  BY <1>1, TargetedIs
<1>3. all \in [1..Len(ts) -> Seq(FadeOrder)]
  BY <1>1, <1>2
<1>4. all \in Seq(Seq(FadeOrder))
  <2> HIDE DEF all
  <2> QED
    BY <1>1, <1>3, SeqIs
<1>5. FlattenSeq(all) \in Seq(FadeOrder)
  <2> HIDE DEF all
  <2> QED
    BY <1>4, FlattenIs
<1> QED
  BY <1>5 DEF SubmitTargets

LEMMA AllTargetsAre ==
  ASSUME NEW p \in Patches, NEW values,
         \A f \in Fixture : \A i \in DOMAIN Layout[f] : values[f][i] \in 0..Full
  PROVE  AreTargets(AllTargets(p, values))
<1> DEFINE Targets == {t \in [of : {"fixture"}, fixture : Fixture, param : Nat, value : 0..Full] : TRUE}
           rig == SetToSeq(Fixture)
           one(k) == IF p[rig[k]] = 0 THEN <<>> ELSE TargetsOf(rig[k], values)
           all == [k \in DOMAIN rig |-> one(k)]
<1>1. rig \in [1..Cardinality(Fixture) -> Fixture] /\ Cardinality(Fixture) \in Nat
  <2>1. Cardinality(Fixture) \in Nat /\ ExistsBijection(1..Cardinality(Fixture), Fixture)
    BY FS_CardinalityType
  <2>2. \E f \in [1..Cardinality(Fixture) -> Fixture] : IsInjective(f)
    BY <2>1 DEF ExistsBijection, Bijection, Injection
  <2> QED
    BY <2>1, <2>2 DEF SetToSeq
<1> HIDE DEF rig
<1>2. ASSUME NEW f \in Fixture PROVE TargetsOf(f, values) \in Seq(Targets)
  <2>1. DOMAIN Layout[f] = 1..Len(Layout[f]) /\ Len(Layout[f]) \in Nat
    BY DEF IsList
  <2>2. TargetsOf(f, values) \in [1..Len(Layout[f]) -> Targets]
    BY <2>1 DEF TargetsOf
  <2> HIDE DEF Targets
  <2> QED
    BY <2>1, <2>2, SeqIs
<1>3. all \in [1..Cardinality(Fixture) -> Seq(Targets)]
  <2> HIDE DEF Targets
  <2>1. ASSUME NEW k \in DOMAIN rig PROVE one(k) \in Seq(Targets)
    <3>1. TargetsOf(rig[k], values) \in Seq(Targets)
      BY <1>1, <1>2
    <3> QED
      BY <3>1
  <2> HIDE DEF one
  <2> QED
    BY <1>1, <2>1
<1>4. all \in Seq(Seq(Targets))
  <2> HIDE DEF all, Targets
  <2> QED
    BY <1>1, <1>3, SeqIs
<1>5. FlattenSeq(all) \in Seq(Targets)
  <2> HIDE DEF all, Targets
  <2> QED
    BY <1>4, FlattenIs
<1>6. AllTargets(p, values) = FlattenSeq(all)
  BY DEF AllTargets, rig
<1>7. \A ts \in Seq(Targets) : IsList(ts) /\ \A k \in DOMAIN ts : ts[k] \in Targets
  <2> HIDE DEF Targets
  <2> QED
    BY SeqIs DEF IsList
<1>8. \A t \in Targets : IsTarget(t)
  BY DEF IsTarget
<1> QED
  <2> HIDE DEF Targets, all
  <2> QED
    BY <1>5, <1>6, <1>7, <1>8 DEF AreTargets

---------------------------------------------------------------------------
(***************************************************************************)
(* Lighting: the inductive invariant.                                       *)
(***************************************************************************)
Order ==
  FadeOrder \cup [op : {"blackout"}, on : BOOLEAN]
    \cup [op : {"outputs"}, to : {s.output : s \in Shows} \cup {"none"}] \cup [op : {"rebind"}]
Running == [width : {1, 2}, start : 0..Full, target : 0..Full, dur : Nat \ {0}, at : Nat]
Aim == [width : {1, 2}, value : 0..Full]

TypeInv ==
  /\ patch \in Patches /\ handle \in BOOLEAN /\ dark \in BOOLEAN
  /\ sending \in Seq(FadeOrder) /\ queue \in Seq(Order)
  /\ busy \in {"nobody", "desk", "loop"} /\ (busy = "nobody" <=> sending = <<>>)
  /\ buf \in [Slot -> Byte] /\ snapshot \in [Slot -> Byte]
  /\ fades = [c \in Slot |-> fades[c]]
  /\ \A c \in Slot : fades[c] = NoFade \/ (fades[c] \in Running /\ fades[c].at <= fades[c].dur)
  /\ sink = [since |-> sink.since, last |-> sink.last]
  /\ sink = NoSink \/ sink.since \in 0..Keepalive
  /\ heard \in [look : [Slot -> Byte], ahead : 0..(Numbers - 1)]
  /\ AreTargets(look)
  /\ aim = [c \in Slot |-> aim[c]] /\ \A c \in Slot : aim[c] = NoFade \/ aim[c] \in Aim

\* No fade of a list is for slot c; none is for another that reaches into the slots of a
\* value there; the last one for c is the value.
Free(list, c) == \A k \in DOMAIN list : list[k].op = "fade" => list[k].ch # c
Clear(list, c, w) ==
  \A k \in DOMAIN list : list[k].op = "fade" /\ Clash(list[k], Span(c, w)) => list[k].ch = c
LastTo(list, k, c) ==
  /\ list[k].op = "fade" /\ list[k].ch = c
  /\ \A j \in DOMAIN list : j > k /\ list[j].op = "fade" => list[j].ch # c
Asks(list, c, a) ==
  \A k \in DOMAIN list : LastTo(list, k, c) => list[k].width = a.width /\ list[k].target = a.value

\* A value that was asked of slot c is the last order on its way there; if there is none,
\* what the fade there runs to; if there is none, what the slots hold.
Apart(c, w) == \A d \in Fading : Clash(Span(d, fades[d].width), Span(c, w)) => d = c
Arrives(c, a) ==
  IF c \in Fading THEN fades[c].width = a.width /\ fades[c].target = a.value
                  ELSE Holds(buf, c, a.width, a.value)
Aims(c, a) ==
  /\ c + a.width <= Slots
  /\ Clear(queue, c, a.width) /\ Clear(sending, c, a.width) /\ Apart(c, a.width)
  /\ Asks(sending, c, a) /\ (Free(sending, c) => Asks(queue, c, a))
  /\ Free(sending, c) /\ Free(queue, c) => Arrives(c, a)
AimInv == \A c \in Slot : aim[c] # NoFade => Aims(c, aim[c])

\* The last order of a kind is what the show, or the handle, says.
NoneOf(list, op) == \A k \in DOMAIN list : list[k].op # op
LastOp(list, k, op) == list[k].op = op /\ \A j \in DOMAIN list : j > k => list[j].op # op
SaysOutput(list, o) == \A k \in DOMAIN list : LastOp(list, k, "outputs") => list[k].to = o
SaysDark(list, on) == \A k \in DOMAIN list : LastOp(list, k, "blackout") => list[k].on = on
FollowInv ==
  /\ SaysOutput(queue, output) /\ (NoneOf(queue, "outputs") => outputs = output)
  /\ sink # NoSink => outputs \in Sendable
  /\ SaysDark(queue, handle) /\ (NoneOf(queue, "blackout") => dark = handle)

LightInv == TypeInv /\ AimInv /\ FollowInv

---------------------------------------------------------------------------
(***************************************************************************)
(* An order at the end of a list, and one taken from its front.             *)
(***************************************************************************)
LEMMA OrderIs ==
  ASSUME NEW x \in Order
  PROVE  /\ x.op = "fade" => x \in FadeOrder
         /\ x.op = "blackout" => x.on \in BOOLEAN
         /\ x.op \in {"fade", "blackout", "outputs", "rebind"}
  BY DEF Order, FadeOrder

LEMMA AppendShape ==
  ASSUME NEW T, NEW s \in Seq(T), NEW x \in T
  PROVE  LET t == Append(s, x) IN
         /\ t \in Seq(T) /\ t # <<>> /\ Len(s) \in Nat
         /\ DOMAIN s = 1..Len(s) /\ DOMAIN t = 1..(Len(s) + 1)
         /\ \A k \in 1..Len(s) : t[k] = s[k]
         /\ t[Len(s) + 1] = x
  BY AppendProperties, LenProperties

LEMMA TailShape ==
  ASSUME NEW T, NEW s \in Seq(T), s # <<>>
  PROVE  LET t == Tail(s) IN
         /\ t \in Seq(T) /\ Head(s) \in T /\ Len(s) \in Nat \ {0} /\ Head(s) = s[1]
         /\ DOMAIN s = 1..Len(s) /\ DOMAIN t = 1..(Len(s) - 1)
         /\ \A k \in 1..(Len(s) - 1) : t[k] = s[k + 1]
<1>1. Len(s) \in Nat \ {0} /\ DOMAIN s = 1..Len(s)
  BY EmptySeq, LenProperties
<1>2. Tail(s) \in Seq(T) /\ Head(s) \in T /\ Len(Tail(s)) = Len(s) - 1
  BY HeadTailProperties
<1>3. DOMAIN Tail(s) = 1..(Len(s) - 1)
  BY <1>2, LenProperties
<1>4. \A k \in 1..(Len(s) - 1) : Tail(s)[k] = s[k + 1]
  BY <1>2, HeadTailProperties
<1> QED
  BY <1>1, <1>2, <1>3, <1>4

LEMMA AppendFree ==
  ASSUME NEW T, NEW s \in Seq(T), NEW x \in T, NEW c
  PROVE  Free(Append(s, x), c) <=> Free(s, c) /\ (x.op = "fade" => x.ch # c)
<1> DEFINE t == Append(s, x)
           n == Len(s)
<1>1. /\ n \in Nat /\ DOMAIN s = 1..n /\ DOMAIN t = 1..(n + 1)
      /\ \A k \in 1..n : t[k] = s[k]
      /\ t[n + 1] = x
  BY AppendShape
<1> HIDE DEF t, n
<1>2. /\ 1..n \subseteq 1..(n + 1) /\ n + 1 \in 1..(n + 1) /\ \A k \in 1..(n + 1) : k = n + 1 \/ k \in 1..n
      /\ \A k \in 1..n : n + 1 > k /\ ~(k > n + 1)
      /\ ~(n + 1 > n + 1)
  BY <1>1
<1> QED
  BY <1>1, <1>2 DEF Free, t

LEMMA AppendClear ==
  ASSUME NEW T, NEW s \in Seq(T), NEW x \in T, NEW c, NEW w
  PROVE  Clear(Append(s, x), c, w) <=>
           Clear(s, c, w) /\ (x.op = "fade" /\ Clash(x, Span(c, w)) => x.ch = c)
<1> DEFINE t == Append(s, x)
           n == Len(s)
<1>1. /\ n \in Nat /\ DOMAIN s = 1..n /\ DOMAIN t = 1..(n + 1)
      /\ \A k \in 1..n : t[k] = s[k]
      /\ t[n + 1] = x
  BY AppendShape
<1> HIDE DEF t, n
<1>2. /\ 1..n \subseteq 1..(n + 1) /\ n + 1 \in 1..(n + 1) /\ \A k \in 1..(n + 1) : k = n + 1 \/ k \in 1..n
      /\ \A k \in 1..n : n + 1 > k /\ ~(k > n + 1)
      /\ ~(n + 1 > n + 1)
  BY <1>1
<1> QED
  BY <1>1, <1>2 DEF Clear, t

LEMMA AppendAsks ==
  ASSUME NEW T, NEW s \in Seq(T), NEW x \in T, NEW c, NEW a
  PROVE  /\ x.op = "fade" /\ x.ch = c =>
              (Asks(Append(s, x), c, a) <=> x.width = a.width /\ x.target = a.value)
         /\ ~(x.op = "fade" /\ x.ch = c) => (Asks(Append(s, x), c, a) <=> Asks(s, c, a))
<1> DEFINE t == Append(s, x)
           n == Len(s)
<1>1. /\ n \in Nat /\ DOMAIN s = 1..n /\ DOMAIN t = 1..(n + 1)
      /\ \A k \in 1..n : t[k] = s[k]
      /\ t[n + 1] = x
  BY AppendShape
<1> HIDE DEF t, n
<1>2. /\ 1..n \subseteq 1..(n + 1) /\ n + 1 \in 1..(n + 1) /\ \A k \in 1..(n + 1) : k = n + 1 \/ k \in 1..n
      /\ \A k \in 1..n : n + 1 > k /\ ~(k > n + 1)
      /\ ~(n + 1 > n + 1)
  BY <1>1
<1>3. LastTo(t, n + 1, c) <=> x.op = "fade" /\ x.ch = c
  BY <1>1, <1>2 DEF LastTo
<1>4. ASSUME NEW k \in 1..n PROVE LastTo(t, k, c) <=> LastTo(s, k, c) /\ ~(x.op = "fade" /\ x.ch = c)
  BY <1>1, <1>2 DEF LastTo
<1>5. CASE x.op = "fade" /\ x.ch = c
  <2>1. Asks(t, c, a) <=> x.width = a.width /\ x.target = a.value
    BY <1>1, <1>2, <1>3, <1>4, <1>5 DEF Asks
  <2> QED
    BY <1>5, <2>1 DEF t
<1>6. CASE ~(x.op = "fade" /\ x.ch = c)
  <2>1. Asks(t, c, a) <=> Asks(s, c, a)
    BY <1>1, <1>2, <1>3, <1>4, <1>6 DEF Asks
  <2> QED
    BY <1>6, <2>1 DEF t
<1> QED
  BY <1>5, <1>6

LEMMA TailFade ==
  ASSUME NEW T, NEW s \in Seq(T), s # <<>>, NEW c, NEW a
  PROVE  LET t == Tail(s)  x == Head(s) IN
         /\ Free(s, c) <=> Free(t, c) /\ (x.op = "fade" => x.ch # c)
         /\ Clear(s, c, a.width) <=>
              Clear(t, c, a.width) /\ (x.op = "fade" /\ Clash(x, Span(c, a.width)) => x.ch = c)
         /\ Asks(s, c, a) => Asks(t, c, a)
         /\ Asks(s, c, a) /\ Free(t, c) /\ x.op = "fade" /\ x.ch = c
              => x.width = a.width /\ x.target = a.value
<1> DEFINE t == Tail(s)
           x == Head(s)
           n == Len(s) - 1
<1>1. /\ n \in Nat /\ DOMAIN s = 1..(n + 1) /\ DOMAIN t = 1..n
      /\ \A k \in 1..n : t[k] = s[k + 1]
      /\ s[1] = x
  BY TailShape
<1> HIDE DEF t, n, x
<1>2. /\ \A k \in 1..n : k + 1 \in 1..(n + 1) /\ k + 1 > 1
      /\ 1 \in 1..(n + 1)
      /\ \A k \in 1..(n + 1) : k = 1 \/ (k - 1 \in 1..n /\ (k - 1) + 1 = k)
      /\ \A j, k \in 1..n : j + 1 > k + 1 <=> j > k
      /\ \A k \in 1..n : ~(1 > k + 1)
  BY <1>1
<1>3. \A k \in 1..(n + 1) : k = 1 \/ \E j \in 1..n : k = j + 1 /\ s[k] = t[j]
  BY <1>1, <1>2
<1>4. Free(s, c) <=> Free(t, c) /\ (x.op = "fade" => x.ch # c)
  <2> DEFINE good(y) == y.op = "fade" => y.ch # c
  <2>1. Free(s, c) <=> \A k \in 1..(n + 1) : good(s[k])
    BY <1>1 DEF Free
  <2>2. Free(t, c) <=> \A k \in 1..n : good(t[k])
    BY <1>1 DEF Free
  <2> HIDE DEF good
  <2>3. (\A k \in 1..(n + 1) : good(s[k])) => (\A k \in 1..n : good(t[k])) /\ good(x)
    BY <1>1, <1>2
  <2>4. (\A k \in 1..n : good(t[k])) /\ good(x) => \A k \in 1..(n + 1) : good(s[k])
    BY <1>1, <1>3
  <2> QED
    BY <2>1, <2>2, <2>3, <2>4 DEF good
<1>5. Clear(s, c, a.width) <=>
        Clear(t, c, a.width) /\ (x.op = "fade" /\ Clash(x, Span(c, a.width)) => x.ch = c)
  <2> DEFINE good(y) == y.op = "fade" /\ Clash(y, Span(c, a.width)) => y.ch = c
  <2>1. Clear(s, c, a.width) <=> \A k \in 1..(n + 1) : good(s[k])
    BY <1>1 DEF Clear
  <2>2. Clear(t, c, a.width) <=> \A k \in 1..n : good(t[k])
    BY <1>1 DEF Clear
  <2> HIDE DEF good
  <2>3. (\A k \in 1..(n + 1) : good(s[k])) => (\A k \in 1..n : good(t[k])) /\ good(x)
    BY <1>1, <1>2
  <2>4. (\A k \in 1..n : good(t[k])) /\ good(x) => \A k \in 1..(n + 1) : good(s[k])
    BY <1>1, <1>3
  <2> QED
    BY <2>1, <2>2, <2>3, <2>4 DEF good
<1>6. ASSUME NEW k \in 1..n, LastTo(t, k, c) PROVE LastTo(s, k + 1, c)
  <2>1. s[k + 1].op = "fade" /\ s[k + 1].ch = c
    BY <1>1, <1>6 DEF LastTo
  <2>2. ASSUME NEW j \in 1..(n + 1), j > k + 1, s[j].op = "fade" PROVE s[j].ch # c
    <3>1. PICK i \in 1..n : j = i + 1 /\ s[j] = t[i]
      BY <1>1, <1>3, <2>2
    <3>2. i > k
      BY <1>2, <2>2, <3>1
    <3> QED
      BY <1>1, <1>6, <2>2, <3>1, <3>2 DEF LastTo
  <2> QED
    BY <1>1, <2>1, <2>2 DEF LastTo
<1>7. Asks(s, c, a) => Asks(t, c, a)
  BY <1>1, <1>2, <1>6 DEF Asks
<1>8. ASSUME Free(t, c), x.op = "fade", x.ch = c PROVE LastTo(s, 1, c)
  <2>1. ASSUME NEW j \in 1..(n + 1), j > 1, s[j].op = "fade" PROVE s[j].ch # c
    <3>1. PICK i \in 1..n : s[j] = t[i]
      BY <1>3, <2>1
    <3> QED
      BY <1>1, <1>8, <2>1, <3>1 DEF Free
  <2> QED
    BY <1>1, <1>2, <1>8, <2>1 DEF LastTo
<1>9. Asks(s, c, a) /\ Free(t, c) /\ x.op = "fade" /\ x.ch = c
        => x.width = a.width /\ x.target = a.value
  BY <1>1, <1>2, <1>8 DEF Asks
<1> QED
  BY <1>4, <1>5, <1>7, <1>9 DEF t, x

LEMMA AppendOp ==
  ASSUME NEW T, NEW s \in Seq(T), NEW x \in T, NEW o, NEW on
  PROVE  LET t == Append(s, x) IN
         /\ \A op : NoneOf(t, op) <=> NoneOf(s, op) /\ x.op # op
         /\ SaysOutput(t, o) <=> IF x.op = "outputs" THEN x.to = o ELSE SaysOutput(s, o)
         /\ SaysDark(t, on) <=> IF x.op = "blackout" THEN x.on = on ELSE SaysDark(s, on)
<1> DEFINE t == Append(s, x)
           n == Len(s)
<1>1. /\ n \in Nat /\ DOMAIN s = 1..n /\ DOMAIN t = 1..(n + 1)
      /\ \A k \in 1..n : t[k] = s[k]
      /\ t[n + 1] = x
  BY AppendShape
<1> HIDE DEF t, n
<1>2. /\ 1..n \subseteq 1..(n + 1) /\ n + 1 \in 1..(n + 1) /\ \A k \in 1..(n + 1) : k = n + 1 \/ k \in 1..n
      /\ \A k \in 1..n : n + 1 > k /\ ~(k > n + 1)
      /\ ~(n + 1 > n + 1)
  BY <1>1
<1>3. \A op : NoneOf(t, op) <=> NoneOf(s, op) /\ x.op # op
  BY <1>1, <1>2 DEF NoneOf
<1>4. \A op : LastOp(t, n + 1, op) <=> x.op = op
  BY <1>1, <1>2 DEF LastOp
<1>5. \A op : \A k \in 1..n : LastOp(t, k, op) <=> LastOp(s, k, op) /\ x.op # op
  BY <1>1, <1>2 DEF LastOp
<1>6. SaysOutput(t, o) <=> IF x.op = "outputs" THEN x.to = o ELSE SaysOutput(s, o)
  BY <1>1, <1>2, <1>4, <1>5 DEF SaysOutput
<1>7. SaysDark(t, on) <=> IF x.op = "blackout" THEN x.on = on ELSE SaysDark(s, on)
  BY <1>1, <1>2, <1>4, <1>5 DEF SaysDark
<1> QED
  BY <1>3, <1>6, <1>7 DEF t

LEMMA TailOp ==
  ASSUME NEW T, NEW s \in Seq(T), s # <<>>, NEW o, NEW on
  PROVE  LET t == Tail(s)  x == Head(s) IN
         /\ \A op : NoneOf(s, op) <=> NoneOf(t, op) /\ x.op # op
         /\ SaysOutput(s, o) => SaysOutput(t, o) /\ (NoneOf(t, "outputs") /\ x.op = "outputs" => x.to = o)
         /\ SaysDark(s, on) => SaysDark(t, on) /\ (NoneOf(t, "blackout") /\ x.op = "blackout" => x.on = on)
<1> DEFINE t == Tail(s)
           x == Head(s)
           n == Len(s) - 1
<1>1. /\ n \in Nat /\ DOMAIN s = 1..(n + 1) /\ DOMAIN t = 1..n
      /\ \A k \in 1..n : t[k] = s[k + 1]
      /\ s[1] = x
  BY TailShape
<1> HIDE DEF t, n, x
<1>2. /\ \A k \in 1..n : k + 1 \in 1..(n + 1) /\ k + 1 > 1
      /\ 1 \in 1..(n + 1)
      /\ \A k \in 1..(n + 1) : k = 1 \/ (k - 1 \in 1..n /\ (k - 1) + 1 = k)
      /\ \A j, k \in 1..n : j + 1 > k + 1 <=> j > k
  BY <1>1
<1>3. \A k \in 1..(n + 1) : k = 1 \/ \E j \in 1..n : k = j + 1 /\ s[k] = t[j]
  BY <1>1, <1>2
<1>4. \A op : NoneOf(s, op) <=> NoneOf(t, op) /\ x.op # op
  <2> TAKE op
  <2> DEFINE good(y) == y.op # op
  <2>1. /\ NoneOf(s, op) <=> \A k \in 1..(n + 1) : good(s[k])
        /\ NoneOf(t, op) <=> \A k \in 1..n : good(t[k])
    BY <1>1 DEF NoneOf
  <2> HIDE DEF good
  <2>2. (\A k \in 1..(n + 1) : good(s[k])) => (\A k \in 1..n : good(t[k])) /\ good(x)
    BY <1>1, <1>2
  <2>3. (\A k \in 1..n : good(t[k])) /\ good(x) => \A k \in 1..(n + 1) : good(s[k])
    BY <1>1, <1>3
  <2> QED
    BY <2>1, <2>2, <2>3 DEF good
<1>5. ASSUME NEW op, NEW k \in 1..n, LastOp(t, k, op) PROVE LastOp(s, k + 1, op)
  <2>1. ASSUME NEW j \in 1..(n + 1), j > k + 1 PROVE s[j].op # op
    <3>1. PICK i \in 1..n : j = i + 1 /\ s[j] = t[i]
      BY <1>1, <1>3, <2>1
    <3>2. i > k
      BY <1>2, <2>1, <3>1
    <3> QED
      BY <1>1, <1>5, <3>1, <3>2 DEF LastOp
  <2> QED
    BY <1>1, <1>5, <2>1 DEF LastOp
<1>6. ASSUME NEW op, NoneOf(t, op), x.op = op PROVE LastOp(s, 1, op)
  <2>1. ASSUME NEW j \in 1..(n + 1), j > 1 PROVE s[j].op # op
    <3>1. PICK i \in 1..n : s[j] = t[i]
      BY <1>3, <2>1
    <3> QED
      BY <1>1, <1>6, <3>1 DEF NoneOf
  <2> QED
    BY <1>1, <1>2, <1>6, <2>1 DEF LastOp
<1>7. SaysOutput(s, o) => SaysOutput(t, o) /\ (NoneOf(t, "outputs") /\ x.op = "outputs" => x.to = o)
  BY <1>1, <1>2, <1>5, <1>6 DEF SaysOutput
<1>8. SaysDark(s, on) => SaysDark(t, on) /\ (NoneOf(t, "blackout") /\ x.op = "blackout" => x.on = on)
  BY <1>1, <1>2, <1>5, <1>6 DEF SaysDark
<1> QED
  BY <1>4, <1>7, <1>8 DEF t, x

---------------------------------------------------------------------------
(***************************************************************************)
(* What is asked.                                                           *)
(***************************************************************************)
\* Of the fades of a list for a slot one is the last.
LEMMA LastIs ==
  ASSUME NEW list \in Seq(FadeOrder), NEW c, \E k \in DOMAIN list : list[k].ch = c
  PROVE  \E k \in DOMAIN list : list[k].ch = c /\ Latest(list, k)
<1> DEFINE n == Len(list)
           R == {n - k : k \in {j \in 1..n : list[j].ch = c}}
<1>1. n \in Nat /\ DOMAIN list = 1..n
  BY SeqIs
<1> HIDE DEF n
<1>2. R \in SUBSET Nat /\ R # {}
  BY <1>1
<1>3. PICK r \in R : \A q \in R : r <= q
  <2> HIDE DEF R
  <2> QED
    BY <1>2, LeastIs
<1>4. PICK k \in 1..n : list[k].ch = c /\ r = n - k
  BY <1>3
<1>5. ASSUME NEW j \in 1..n, j > k PROVE list[j].ch # list[k].ch
  <2>1. SUFFICES ASSUME list[j].ch = c PROVE FALSE
    BY <1>4
  <2>2. n - k <= n - j
    BY <1>3, <1>4, <2>1
  <2> QED
    BY <1>1, <1>5, <2>2
<1> QED
  BY <1>1, <1>4, <1>5 DEF Latest

LEMMA FadesOfList ==
  ASSUME NEW list \in Seq(FadeOrder)
  PROVE  /\ Len(list) \in Nat /\ DOMAIN list = 1..Len(list)
         /\ \A k \in DOMAIN list : list[k] \in FadeOrder /\ list[k].op = "fade"
<1>1. /\ Len(list) \in Nat /\ DOMAIN list = 1..Len(list)
      /\ \A k \in DOMAIN list : list[k] \in FadeOrder
  BY SeqIs
<1> QED
  BY <1>1 DEF FadeOrder

LEMMA SpansAre ==
  ASSUME NEW T, NEW list \in Seq(T)
  PROVE  \A y : y \in Spans(list) <=>
           \E k \in DOMAIN list : list[k].op = "fade" /\ y = Span(list[k].ch, list[k].width)
  BY DEF Spans, Range

LEMMA ClashIs ==
  /\ \A x, c, w : Clash(x, Span(c, w)) <=> Clash(Span(c, w), x)
  /\ \A x, y : Clash(Span(x.ch, x.width), y) <=> Clash(x, y)
  /\ \A x, y : Clash(y, Span(x.ch, x.width)) <=> Clash(y, x)
  BY DEF Clash, Span

\* What is promised to x.
LEMMA PromisedIs ==
  ASSUME TypeInv, NEW list \in Seq(FadeOrder), NEW x \in FadeOrder, Promised(x, list) # NoFade
  PROVE  /\ Promised(x, list) = [width |-> x.width, value |-> x.target]
         /\ Promised(x, list) \in Aim
         /\ x.ch + x.width <= Slots
         /\ Apart(x.ch, x.width) /\ Clear(queue, x.ch, x.width) /\ Clear(list, x.ch, x.width)
         /\ \A k \in DOMAIN sending : ~Clash(x, sending[k])
<1> DEFINE c == x.ch
           w == x.width
           under == { Span(d, fades[d].width) : d \in Fading } \cup Spans(queue) \cup Spans(list)
<1>1. /\ x.ch + x.width <= Slots
      /\ \A y \in under : Clash(x, y) => y.ch = x.ch
      /\ \A y \in Spans(sending) : ~Clash(x, y)
      /\ Promised(x, list) = [width |-> x.width, value |-> x.target]
  BY DEF Promised
<1>2. [width |-> x.width, value |-> x.target] \in Aim
  BY DEF FadeOrder, Aim
<1>3. ASSUME NEW d, NEW v, Span(d, v) \in under, Clash(Span(d, v), Span(c, w)) PROVE d = c
  <2>1. Clash(x, Span(d, v))
    BY <1>3, ClashIs DEF Clash, Span
  <2> QED
    BY <1>1, <1>3, <2>1 DEF Span
<1>4. Apart(c, w)
  BY <1>3 DEF Apart
<1>5. ASSUME NEW T, NEW l \in Seq(T), Spans(l) \subseteq under PROVE Clear(l, c, w)
  <2>1. ASSUME NEW k \in DOMAIN l, l[k].op = "fade", Clash(l[k], Span(c, w)) PROVE l[k].ch = c
    <3>1. Span(l[k].ch, l[k].width) \in under
      BY <1>5, <2>1, SpansAre
    <3>2. Clash(Span(l[k].ch, l[k].width), Span(c, w))
      BY <2>1, ClashIs
    <3> HIDE DEF under
    <3> QED
      BY <1>3, <3>1, <3>2
  <2> QED
    BY <2>1 DEF Clear
<1>6. Clear(queue, c, w) /\ Clear(list, c, w)
  BY <1>5 DEF TypeInv
<1>7. \A k \in DOMAIN sending : ~Clash(x, sending[k])
  <2> TAKE k \in DOMAIN sending
  <2>1. sending[k].op = "fade"
    BY FadesOfList DEF TypeInv
  <2>2. Span(sending[k].ch, sending[k].width) \in Spans(sending)
    BY <2>1, SpansAre DEF TypeInv
  <2> QED
    BY <1>1, <2>2, ClashIs
<1> QED
  BY <1>1, <1>2, <1>4, <1>6, <1>7

\* What is asked of a slot after a list: what its last fade for the slot is promised, or
\* what was asked before.
LEMMA AimedIs ==
  ASSUME TypeInv, NEW list \in Seq(FadeOrder), NEW c \in Slot, Aimed(list)[c] # NoFade
  PROVE  \/ \E k \in DOMAIN list :
              LastTo(list, k, c) /\ list[k].ch = c /\ Aimed(list)[c] = Promised(list[k], list)
         \/ /\ Free(list, c) /\ Aimed(list)[c] = aim[c]
            /\ \A k \in DOMAIN list : ~Clash(list[k], Span(c, aim[c].width))
<1>1. \A k \in DOMAIN list : list[k].op = "fade"
  BY FadesOfList
<1>2. CASE \E k \in DOMAIN list : list[k].ch = c
  <2> DEFINE k == CHOOSE k \in DOMAIN list : list[k].ch = c /\ Latest(list, k)
  <2>1. k \in DOMAIN list /\ list[k].ch = c /\ Latest(list, k)
    BY <1>2, LastIs
  <2>2. Aimed(list)[c] = Promised(list[k], list)
    BY <1>2 DEF Aimed
  <2> HIDE DEF k
  <2>3. LastTo(list, k, c)
    BY <1>1, <2>1 DEF LastTo, Latest
  <2> QED
    BY <2>1, <2>2, <2>3
<1>3. CASE ~\E k \in DOMAIN list : list[k].ch = c
  <2>1. Aimed(list)[c] = IF \E y \in Spans(list) : Clash(y, Span(c, aim[c].width))
                         THEN NoFade ELSE aim[c]
    BY <1>3 DEF Aimed
  <2>2. Aimed(list)[c] = aim[c] /\ \A y \in Spans(list) : ~Clash(y, Span(c, aim[c].width))
    BY <2>1
  <2>3. ASSUME NEW k \in DOMAIN list PROVE ~Clash(list[k], Span(c, aim[c].width))
    <3>1. Span(list[k].ch, list[k].width) \in Spans(list)
      BY <1>1, SpansAre
    <3> QED
      BY <2>2, <3>1, ClashIs
  <2> QED
    BY <1>3, <2>2, <2>3 DEF Free
<1> QED
  BY <1>2, <1>3

LEMMA AimedType ==
  ASSUME TypeInv, NEW list \in Seq(FadeOrder)
  PROVE  /\ Aimed(list) = [c \in Slot |-> Aimed(list)[c]]
         /\ \A c \in Slot : Aimed(list)[c] = NoFade \/ Aimed(list)[c] \in Aim
<1>1. Aimed(list) = [c \in Slot |-> Aimed(list)[c]]
  BY DEF Aimed
<1>2. ASSUME NEW c \in Slot, Aimed(list)[c] # NoFade PROVE Aimed(list)[c] \in Aim
  <2>1. CASE \E k \in DOMAIN list : Aimed(list)[c] = Promised(list[k], list)
    BY <1>2, <2>1, FadesOfList, PromisedIs
  <2>2. CASE Aimed(list)[c] = aim[c]
    BY <1>2, <2>2 DEF TypeInv
  <2> QED
    BY <1>2, <2>1, <2>2, AimedIs
<1> QED
  BY <1>1, <1>2

---------------------------------------------------------------------------
(***************************************************************************)
(* What is asked comes to be, through each step.                            *)
(***************************************************************************)
LEMMA SameFades ==
  ASSUME fades' = fades
  PROVE  Fading' = Fading /\ \A c, w : Apart(c, w)' <=> Apart(c, w)
  BY DEF Fading, Apart

LEMMA AimStep ==
  ASSUME \A c \in Slot : \A a : a = aim'[c] /\ a # NoFade => Aims(c, a)'
  PROVE  AimInv'
  BY DEF AimInv, Aims, Apart, Arrives, Fading

\* A fade is put into the channel.
LEMMA QueuedFade ==
  ASSUME queue \in Seq(Order), NEW x \in Order, x.op = "fade", queue' = Append(queue, x),
         NEW c, NEW a
  PROVE  /\ Free(queue', c) <=> Free(queue, c) /\ x.ch # c
         /\ Clear(queue', c, a.width) <=>
              Clear(queue, c, a.width) /\ (Clash(x, Span(c, a.width)) => x.ch = c)
         /\ x.ch = c => (Asks(queue', c, a) <=> x.width = a.width /\ x.target = a.value)
         /\ x.ch # c => (Asks(queue', c, a) <=> Asks(queue, c, a))
<1>1. Free(Append(queue, x), c) <=> Free(queue, c) /\ (x.op = "fade" => x.ch # c)
  BY AppendFree
<1>2. Clear(Append(queue, x), c, a.width) <=>
        Clear(queue, c, a.width) /\ (x.op = "fade" /\ Clash(x, Span(c, a.width)) => x.ch = c)
  BY AppendClear
<1>3. /\ x.op = "fade" /\ x.ch = c =>
           (Asks(Append(queue, x), c, a) <=> x.width = a.width /\ x.target = a.value)
      /\ ~(x.op = "fade" /\ x.ch = c) => (Asks(Append(queue, x), c, a) <=> Asks(queue, c, a))
  BY AppendAsks
<1> QED
  BY <1>1, <1>2, <1>3

\* A call asks for a list of fades, and nobody else is submitting any.
LEMMA AskedList ==
  ASSUME TypeInv, AimInv, sending = <<>>, NEW list \in Seq(FadeOrder),
         sending' = list, aim' = Aimed(list), UNCHANGED <<queue, buf, fades>>
  PROVE  AimInv'
<1> SUFFICES ASSUME NEW c \in Slot, NEW a, a = aim'[c], a # NoFade PROVE Aims(c, a)'
  BY AimStep
<1>1. /\ Fading' = Fading /\ \A w : Apart(c, w)' <=> Apart(c, w)
  BY SameFades
<1>2. CASE \E k \in DOMAIN list : LastTo(list, k, c) /\ list[k].ch = c /\ a = Promised(list[k], list)
  <2>1. PICK k \in DOMAIN list :
          LastTo(list, k, c) /\ list[k].ch = c /\ a = Promised(list[k], list)
    BY <1>2
  <2>2. list[k] \in FadeOrder /\ DOMAIN list = 1..Len(list) /\ Len(list) \in Nat
    BY FadesOfList
  <2>3. /\ a = [width |-> list[k].width, value |-> list[k].target] /\ c + a.width <= Slots
        /\ Apart(c, a.width) /\ Clear(queue, c, a.width) /\ Clear(list, c, a.width)
    BY <2>1, <2>2, PromisedIs
  <2>4. Asks(list, c, a)
    <3>1. ASSUME NEW j \in DOMAIN list, LastTo(list, j, c) PROVE j = k
      BY <2>1, <2>2, <3>1 DEF LastTo
    <3> QED
      BY <2>3, <3>1 DEF Asks
  <2>5. ~Free(list, c)
    BY <2>1 DEF Free, LastTo
  <2> QED
    BY <1>1, <2>3, <2>4, <2>5 DEF Aims
<1>3. CASE /\ Free(list, c) /\ a = aim[c]
           /\ \A k \in DOMAIN list : ~Clash(list[k], Span(c, aim[c].width))
  <2>1. Aims(c, a)
    BY <1>3 DEF AimInv
  <2>2. Free(sending, c)
    BY DEF Free
  <2>3. Clear(list, c, a.width) /\ Asks(list, c, a)
    BY <1>3 DEF Clear, Asks, Free, LastTo
  <2>4. Arrives(c, a)' <=> Arrives(c, a)
    BY <1>1 DEF Arrives
  <2> QED
    BY <1>1, <1>3, <2>1, <2>2, <2>3, <2>4 DEF Aims
<1> QED
  BY <1>2, <1>3, AimedIs

\* dmx_set_channel asks for one, beside what the loop is submitting.
LEMMA AskedOne ==
  ASSUME TypeInv, AimInv, NEW x \in FadeOrder,
         queue' = Append(queue, x), aim' = Aimed(<<x>>), UNCHANGED <<sending, buf, fades>>
  PROVE  AimInv'
<1> SUFFICES ASSUME NEW c \in Slot, NEW a, a = aim'[c], a # NoFade PROVE Aims(c, a)'
  BY AimStep
<1> DEFINE list == <<x>>
<1>1. /\ Fading' = Fading /\ \A w : Apart(c, w)' <=> Apart(c, w)
  BY SameFades
<1>2. list \in Seq(FadeOrder) /\ DOMAIN list = {1} /\ list[1] = x
  OBVIOUS
<1> HIDE DEF list
<1>3. x \in Order /\ queue \in Seq(Order) /\ x.op = "fade" /\ sending \in Seq(FadeOrder)
  BY DEF Order, FadeOrder, TypeInv
<1>4. /\ Free(queue', c) <=> Free(queue, c) /\ x.ch # c
      /\ Clear(queue', c, a.width) <=>
           Clear(queue, c, a.width) /\ (Clash(x, Span(c, a.width)) => x.ch = c)
      /\ x.ch = c => (Asks(queue', c, a) <=> x.width = a.width /\ x.target = a.value)
      /\ x.ch # c => (Asks(queue', c, a) <=> Asks(queue, c, a))
  BY <1>3, QueuedFade
<1>5. CASE x.ch = c /\ a = Promised(x, list)
  <2>1. /\ a = [width |-> x.width, value |-> x.target] /\ c + a.width <= Slots
        /\ Apart(c, a.width) /\ Clear(queue, c, a.width)
        /\ \A k \in DOMAIN sending : ~Clash(x, sending[k])
    BY <1>2, <1>5, PromisedIs
  <2>2. ASSUME NEW k \in DOMAIN sending PROVE sending[k].ch # c /\ ~Clash(sending[k], Span(c, a.width))
    <3>1. sending[k] \in FadeOrder
      BY <1>3, FadesOfList
    <3>2. ~Clash(x, sending[k])
      BY <2>1
    <3> QED
      BY <1>5, <2>1, <3>1, <3>2 DEF Clash, Span, FadeOrder
  <2>3. Clear(sending, c, a.width) /\ Asks(sending, c, a)
    BY <2>2 DEF Clear, Asks, LastTo
  <2> QED
    BY <1>1, <1>4, <1>5, <2>1, <2>3 DEF Aims
<1>6. CASE x.ch # c /\ a = aim[c] /\ ~Clash(x, Span(c, a.width))
  <2>1. Aims(c, a)
    BY <1>6 DEF AimInv
  <2>2. Arrives(c, a)' <=> Arrives(c, a)
    BY <1>1 DEF Arrives
  <2> QED
    BY <1>1, <1>4, <1>6, <2>1, <2>2 DEF Aims
<1>7. \/ \E k \in DOMAIN list : LastTo(list, k, c) /\ list[k].ch = c /\ a = Promised(list[k], list)
      \/ /\ Free(list, c) /\ a = aim[c]
         /\ \A k \in DOMAIN list : ~Clash(list[k], Span(c, aim[c].width))
  BY <1>2, AimedIs DEF list
<1> QED
  BY <1>2, <1>3, <1>5, <1>6, <1>7 DEF Free

\* An order that is no fade.
LEMMA OtherOrder ==
  ASSUME TypeInv, AimInv, NEW x \in Order, x.op # "fade",
         queue' = Append(queue, x), UNCHANGED <<sending, buf, fades, aim>>
  PROVE  AimInv'
<1> SUFFICES ASSUME NEW c \in Slot, NEW a, a = aim'[c], a # NoFade PROVE Aims(c, a)'
  BY AimStep
<1>1. /\ Fading' = Fading /\ \A w : Apart(c, w)' <=> Apart(c, w)
  BY SameFades
<1>2. /\ Free(queue', c) <=> Free(queue, c)
      /\ Clear(queue', c, a.width) <=> Clear(queue, c, a.width)
      /\ Asks(queue', c, a) <=> Asks(queue, c, a)
  BY AppendFree, AppendClear, AppendAsks DEF TypeInv
<1>3. Aims(c, a)
  BY DEF AimInv
<1>4. Arrives(c, a)' <=> Arrives(c, a)
  BY <1>1 DEF Arrives
<1> QED
  BY <1>1, <1>2, <1>3, <1>4 DEF Aims

LEMMA PushAim ==
  ASSUME TypeInv, AimInv, Push
  PROVE  AimInv'
<1> SUFFICES ASSUME NEW c \in Slot, NEW a, a = aim'[c], a # NoFade PROVE Aims(c, a)'
  BY AimStep
<1> DEFINE x == Head(sending)
<1>0. /\ sending # <<>> /\ queue' = Append(queue, x) /\ sending' = Tail(sending)
      /\ UNCHANGED <<buf, fades, aim>>
  BY DEF Push, Batch, engine
<1>1. /\ Fading' = Fading /\ \A w : Apart(c, w)' <=> Apart(c, w)
  BY <1>0, SameFades
<1>2. sending \in Seq(FadeOrder) /\ queue \in Seq(Order) /\ x \in FadeOrder /\ x \in Order
      /\ x.op = "fade"
  <2>1. sending \in Seq(FadeOrder) /\ queue \in Seq(Order)
    BY DEF TypeInv
  <2>2. x \in FadeOrder
    BY <1>0, <2>1, TailShape
  <2> QED
    BY <2>1, <2>2 DEF Order, FadeOrder
<1>3. /\ Free(sending, c) <=> Free(sending', c) /\ x.ch # c
      /\ Clear(sending, c, a.width) <=>
           Clear(sending', c, a.width) /\ (Clash(x, Span(c, a.width)) => x.ch = c)
      /\ Asks(sending, c, a) => Asks(sending', c, a)
      /\ Asks(sending, c, a) /\ Free(sending', c) /\ x.ch = c
           => x.width = a.width /\ x.target = a.value
  BY <1>0, <1>2, TailFade
<1> HIDE DEF x
<1>4. /\ Free(queue', c) <=> Free(queue, c) /\ x.ch # c
      /\ Clear(queue', c, a.width) <=>
           Clear(queue, c, a.width) /\ (Clash(x, Span(c, a.width)) => x.ch = c)
      /\ x.ch = c => (Asks(queue', c, a) <=> x.width = a.width /\ x.target = a.value)
      /\ x.ch # c => (Asks(queue', c, a) <=> Asks(queue, c, a))
  <2>1. queue' = Append(queue, x) /\ queue \in Seq(Order) /\ x \in Order /\ x.op = "fade"
    BY <1>0, <1>2
  <2> QED
    BY <2>1, QueuedFade
<1>5. Aims(c, a)
  BY <1>0 DEF AimInv
<1>6. Arrives(c, a)' <=> Arrives(c, a)
  BY <1>0, <1>1 DEF Arrives
<1> QED
  BY <1>1, <1>3, <1>4, <1>5, <1>6 DEF Aims

\* SubmitFade: the slots and the fades keep their types.
LEMMA SubmitType ==
  ASSUME TypeInv, NEW x \in FadeOrder, SubmitFade(x)
  PROVE  /\ buf' \in [Slot -> Byte] /\ fades' = [c \in Slot |-> fades'[c]]
         /\ \A c \in Slot : fades'[c] = NoFade
              \/ (fades'[c] \in Running /\ fades'[c].at <= fades'[c].dur)
         /\ x.ch \notin Slot => UNCHANGED <<buf, fades>>
         /\ x.ch \in Slot => \A c \in Slot : c # x.ch => fades'[c] = fades[c]
         /\ x.ch \in Slot /\ x.dur = 0 =>
              fades'[x.ch] = NoFade /\ buf' = WriteNorm(buf, x.ch, x.width, x.target)
         /\ x.ch \in Slot /\ x.dur # 0 => fades'[x.ch] = FadeTo(x) /\ buf' = buf
<1>1. CASE x.ch \notin Slot
  BY <1>1 DEF SubmitFade, TypeInv
<1>2. CASE x.ch \in Slot /\ x.dur = 0
  <2>1. fades' = [fades EXCEPT ![x.ch] = NoFade] /\ buf' = WriteNorm(buf, x.ch, x.width, x.target)
    BY <1>2 DEF SubmitFade
  <2>2. buf' \in [Slot -> Byte]
    BY <2>1, WrittenBytes DEF FadeOrder, TypeInv
  <2>3. /\ fades' = [c \in Slot |-> IF c = x.ch THEN NoFade ELSE fades[c]]
    BY <1>2, <2>1 DEF TypeInv
  <2> QED
    BY <1>2, <2>1, <2>2, <2>3 DEF TypeInv
<1>3. CASE x.ch \in Slot /\ x.dur # 0
  <2>1. fades' = [fades EXCEPT ![x.ch] = FadeTo(x)] /\ buf' = buf
    BY <1>3 DEF SubmitFade
  <2>2. FadeTo(x) \in Running /\ FadeTo(x).at <= FadeTo(x).dur
    <3>1. ReadNorm(buf, x.ch, x.width) \in 0..Full
      BY BytesRead DEF FadeOrder, TypeInv
    <3> QED
      BY <1>3, <3>1 DEF FadeTo, FadeOrder, Running
  <2>3. /\ fades' = [c \in Slot |-> IF c = x.ch THEN FadeTo(x) ELSE fades[c]]
    BY <1>3, <2>1 DEF TypeInv
  <2> QED
    BY <1>3, <2>1, <2>2, <2>3 DEF TypeInv
<1> QED
  BY <1>1, <1>2, <1>3

LEMMA DrainAim ==
  ASSUME TypeInv, AimInv, Drain
  PROVE  AimInv'
<1> SUFFICES ASSUME NEW c \in Slot, NEW a, a = aim'[c], a # NoFade PROVE Aims(c, a)'
  BY AimStep
<1> DEFINE x == Head(queue)
<1>0. queue # <<>> /\ queue' = Tail(queue) /\ UNCHANGED <<sending, aim>>
  BY DEF Drain
<1>1. x \in Order /\ queue \in Seq(Order)
  BY <1>0, TailShape DEF TypeInv
<1>2. /\ Free(queue, c) <=> Free(queue', c) /\ (x.op = "fade" => x.ch # c)
      /\ Clear(queue, c, a.width) <=>
           Clear(queue', c, a.width) /\ (x.op = "fade" /\ Clash(x, Span(c, a.width)) => x.ch = c)
      /\ Asks(queue, c, a) => Asks(queue', c, a)
      /\ Asks(queue, c, a) /\ Free(queue', c) /\ x.op = "fade" /\ x.ch = c
           => x.width = a.width /\ x.target = a.value
  BY <1>0, <1>1, TailFade
<1>3. Aims(c, a) /\ a \in Aim
  BY <1>0 DEF AimInv, TypeInv
<1>4. CASE UNCHANGED <<buf, fades>> /\ (x.op = "fade" => x.ch # c)
  <2>1. /\ Fading' = Fading /\ \A w : Apart(c, w)' <=> Apart(c, w)
    BY <1>4, SameFades
  <2>2. Arrives(c, a)' <=> Arrives(c, a)
    BY <1>4, <2>1 DEF Arrives
  <2> QED
    BY <1>0, <1>2, <1>3, <1>4, <2>1, <2>2 DEF Aims
<1>5. CASE x.op = "fade" /\ SubmitFade(x) /\ x.ch \in Slot
  <2>1. x \in FadeOrder
    BY <1>1, <1>5, OrderIs
  <2>2. /\ \A d \in Slot : d # x.ch => fades'[d] = fades[d]
        /\ x.dur = 0 => fades'[x.ch] = NoFade /\ buf' = WriteNorm(buf, x.ch, x.width, x.target)
        /\ x.dur # 0 => fades'[x.ch] = FadeTo(x) /\ buf' = buf
    BY <1>5, <2>1, SubmitType
  <2>3. x.width \in {1, 2} /\ x.ch \in Nat /\ a.width \in {1, 2} /\ c + a.width <= Slots
    BY <1>3, <2>1 DEF FadeOrder, Aim, Aims
  <2> HIDE DEF x
  <2>4. /\ fades'[x.ch].width \in {0, x.width} /\ (fades'[x.ch].width = 0 <=> x.dur = 0)
        /\ x.dur # 0 => fades'[x.ch].target = x.target
    BY <2>2, <2>3 DEF FadeTo, NoFade
  <2>5. x.ch # c => ~Clash(x, Span(c, a.width))
    BY <1>2, <1>3, <1>5 DEF Aims
  <2>6. Apart(c, a.width)'
    <3>1. ASSUME NEW d \in Slot, fades'[d].width # 0, Clash(Span(d, fades'[d].width), Span(c, a.width))
          PROVE  d = c
      <4>1. CASE d # x.ch
        BY <1>3, <2>2, <3>1, <4>1 DEF Aims, Apart, Fading
      <4>2. CASE d = x.ch
        <5>1. Clash(x, Span(c, a.width))
          BY <2>4, <3>1, <4>2 DEF Clash, Span
        <5> QED
          BY <2>5, <4>2, <5>1
      <4> QED
        BY <4>1, <4>2
    <3> QED
      BY <3>1 DEF Apart, Fading
  <2>7. ASSUME Free(sending, c), Free(queue', c) PROVE Arrives(c, a)'
    <3>1. CASE x.ch # c
      <4>1. Arrives(c, a)
        BY <1>2, <1>3, <2>7, <3>1 DEF Aims
      <4>2. fades'[c] = fades[c]
        BY <2>2, <3>1
      <4>3. \A i \in c..(c + a.width - 1) : buf'[i] = buf[i]
        <5>1. \A i \in c..(c + a.width - 1) : i \in Slot /\ i \notin x.ch..(x.ch + x.width - 1)
          BY <2>3, <2>5, <3>1 DEF Clash, Span
        <5> QED
          BY <2>2, <5>1 DEF WriteNorm
      <4> QED
        BY <4>1, <4>2, <4>3 DEF Arrives, Holds, Fading
    <3>2. CASE x.ch = c
      <4>1. x.width = a.width /\ x.target = a.value
        BY <1>2, <1>3, <1>5, <2>7, <3>2 DEF Aims
      <4>2. CASE x.dur # 0
        BY <2>3, <2>4, <3>2, <4>1, <4>2 DEF Arrives, Fading
      <4>3. CASE x.dur = 0
        <5>1. \A i \in c..(c + a.width - 1) : i \in Slot
          BY <2>3
        <5>2. Holds(buf', c, a.width, a.value)
          BY <2>2, <3>2, <4>1, <4>3, <5>1 DEF Holds, WriteNorm
        <5> QED
          BY <2>4, <3>2, <4>3, <5>2 DEF Arrives, Fading
      <4> QED
        BY <4>2, <4>3
    <3> QED
      BY <3>1, <3>2
  <2> QED
    BY <1>0, <1>2, <1>3, <2>6, <2>7 DEF Aims
<1>6. CASE x.op = "fade"
  <2>1. SubmitFade(x) /\ x \in FadeOrder
    BY <1>1, <1>6, OrderIs DEF Drain
  <2>2. CASE x.ch \notin Slot
    BY <1>4, <2>1, <2>2, SubmitType
  <2> QED
    BY <1>5, <1>6, <2>1, <2>2
<1>7. CASE x.op # "fade"
  BY <1>4, <1>7 DEF Drain
<1> QED
  BY <1>6, <1>7

---------------------------------------------------------------------------
(***************************************************************************)
(* A frame.                                                                 *)
(***************************************************************************)
\* A fade runs from where it starts to its target, and ends there.
LEMMA NowIs ==
  ASSUME NEW f \in Running, f.at <= f.dur
  PROVE  Now(f) \in 0..Full /\ (f.at = f.dur => Now(f) = f.target)
<1> DEFINE D == f.target - f.start
           d == f.dur
           n == f.at
           q == (D * n) \div d
<1>1. D \in Int /\ d \in Nat \ {0} /\ n \in Nat /\ n <= d
      /\ f.start \in 0..Full /\ f.target \in 0..Full
  BY FullIs DEF Running
<1>2. D * n \in Int /\ D * d \in Int /\ d * D = D * d
  BY <1>1
<1>3. q \in Int /\ d * q <= D * n /\ D * n < d * q + d
  BY <1>1, <1>2, DivIs
<1>4. Now(f) = f.start + q
  BY DEF Now
<1>5. d * q \in Int /\ d * (q + 1) = d * q + d /\ d * (D + 1) = D * d + d /\ d * 0 = 0 /\ d * 1 = d
  BY <1>1, <1>3
<1>6. PICK e \in Nat : d = n + e
  <2>1. d - n \in Nat /\ d = n + (d - n)
    BY <1>1
  <2> QED
    BY <2>1
<1>7. D * d = D * n + D * e /\ D * e \in Int
  BY <1>1, <1>6
<1> HIDE DEF q, D, d, n
<1>8. (D >= 0 => q >= 0 /\ q <= D) /\ (D < 0 => q <= 0 /\ D <= q)
  <2>1. CASE D >= 0
    <3>1. D * n >= 0 /\ D * e >= 0
      BY <1>1, <1>6, <2>1
    <3>2. d * q < d * (D + 1) /\ d * 0 < d * (q + 1)
      BY <1>1, <1>2, <1>3, <1>5, <1>7, <3>1
    <3>3. q < D + 1 /\ 0 < q + 1
      BY <1>1, <1>3, <3>2, TimesLess
    <3> QED
      BY <1>1, <1>3, <2>1, <3>3
  <2>2. CASE D < 0
    <3>1. D * n <= 0 /\ D * e <= 0
      BY <1>1, <1>6, <2>2
    <3>2. d * q < d * 1 /\ d * D < d * (q + 1)
      BY <1>1, <1>2, <1>3, <1>5, <1>7, <3>1
    <3>3. q < 1 /\ D < q + 1
      BY <1>1, <1>3, <3>2, TimesLess
    <3> QED
      BY <1>1, <1>3, <2>2, <3>3
  <2> QED
    BY <1>1, <2>1, <2>2
<1>9. Now(f) \in 0..Full
  BY <1>1, <1>3, <1>4, <1>8, FullIs DEF D
<1>10. ASSUME n = d PROVE q = D
  <2>1. d * q < d * (D + 1) /\ d * D < d * (q + 1)
    BY <1>1, <1>2, <1>3, <1>5, <1>10
  <2>2. q < D + 1 /\ D < q + 1
    BY <1>1, <1>3, <2>1, TimesLess
  <2> QED
    BY <1>1, <1>3, <2>2
<1> QED
  BY <1>1, <1>4, <1>9, <1>10 DEF n, d, D

\* What a frame writes into a slot: what one of the fades over it is at.
LEMMA AdvancedIs ==
  ASSUME TypeInv, NEW rank \in [Fading -> Int], NEW i \in Slot
  PROVE  IF Over(i) = {} THEN Advanced(rank)[i] = buf[i]
         ELSE \E c \in Over(i) :
                Advanced(rank)[i] = NormToBytes(Now(fades[c]), fades[c].width)[i - c + 1]
<1>1. CASE Over(i) = {}
  BY <1>1 DEF Advanced
<1>2. CASE Over(i) # {}
  <2> DEFINE Top(c) == \A d \in Over(i) : rank[d] <= rank[c]
  <2>1. \A c \in Over(i) : c \in Fading /\ rank[c] \in Int /\ (c = i \/ c = i - 1)
    <3>1. \A c \in Fading : fades[c].width \in {1, 2}
      BY DEF Fading, TypeInv, Running, NoFade
    <3> QED
      BY <3>1 DEF Over, Fading
  <2>2. \E c \in Over(i) : Top(c)
    <3>1. PICK c1 \in Over(i) : TRUE
      BY <1>2
    <3>2. CASE \E c2 \in Over(i) : rank[c2] > rank[c1]
      BY <2>1, <3>1, <3>2
    <3>3. CASE ~\E c2 \in Over(i) : rank[c2] > rank[c1]
      BY <2>1, <3>1, <3>3
    <3> QED
      BY <3>2, <3>3
  <2> DEFINE last == CHOOSE c \in Over(i) : Top(c)
  <2>3. last \in Over(i)
    BY <2>2
  <2>4. Advanced(rank)[i] = NormToBytes(Now(fades[last]), fades[last].width)[i - last + 1]
    BY <1>2 DEF Advanced
  <2> HIDE DEF last
  <2> QED
    BY <1>2, <2>3, <2>4
<1> QED
  BY <1>1, <1>2

LEMMA RunningFades ==
  ASSUME TypeInv
  PROVE  \A c \in Fading : /\ c \in Slot /\ fades[c] \in Running /\ fades[c].at <= fades[c].dur
                           /\ fades[c].width \in {1, 2} /\ Now(fades[c]) \in 0..Full
<1>1. \A c \in Fading : c \in Slot /\ fades[c] \in Running /\ fades[c].at <= fades[c].dur
  BY DEF Fading, TypeInv, NoFade
<1> QED
  BY <1>1, NowIs DEF Running

LEMMA AdvancedType ==
  ASSUME TypeInv, NEW rank \in [Fading -> Int]
  PROVE  Advanced(rank) \in [Slot -> Byte]
<1>1. ASSUME NEW i \in Slot PROVE Advanced(rank)[i] \in Byte
  <2>1. CASE Over(i) = {}
    BY <2>1, AdvancedIs DEF TypeInv
  <2>2. CASE Over(i) # {}
    <3>1. PICK c \in Over(i) :
            Advanced(rank)[i] = NormToBytes(Now(fades[c]), fades[c].width)[i - c + 1]
      BY <2>2, AdvancedIs
    <3>2. c \in Fading /\ i \in c..(c + fades[c].width - 1)
      BY DEF Over
    <3>3. c \in Slot /\ fades[c].width \in {1, 2} /\ Now(fades[c]) \in 0..Full
      BY <3>2, RunningFades
    <3>4. i - c + 1 \in 1..fades[c].width
      BY <3>2, <3>3
    <3> QED
      BY <3>1, <3>3, <3>4, BytesAre
  <2> QED
    BY <2>1, <2>2
<1>2. Advanced(rank) = [i \in Slot |-> Advanced(rank)[i]]
  BY DEF Advanced
<1> QED
  BY <1>1, <1>2

LEMMA MovedOnIs ==
  ASSUME TypeInv
  PROVE  /\ MovedOn = [c \in Slot |-> MovedOn[c]]
         /\ \A c \in Slot : MovedOn[c] = NoFade
              \/ (MovedOn[c] \in Running /\ MovedOn[c].at <= MovedOn[c].dur)
         /\ \A c \in Slot : MovedOn[c].width # 0 =>
              c \in Fading /\ MovedOn[c].width = fades[c].width /\ MovedOn[c].target = fades[c].target
         /\ \A c \in Fading : MovedOn[c].width = 0 => fades[c].at = fades[c].dur
<1>1. MovedOn = [c \in Slot |-> MovedOn[c]]
  BY DEF MovedOn
<1>2. ASSUME NEW c \in Slot, c \notin Fading \/ fades[c].at >= fades[c].dur
      PROVE  MovedOn[c] = NoFade
  BY <1>2 DEF MovedOn, Fading
<1>3. ASSUME NEW c \in Slot, c \in Fading, ~(fades[c].at >= fades[c].dur)
      PROVE  /\ MovedOn[c] \in Running /\ MovedOn[c].at <= MovedOn[c].dur
             /\ MovedOn[c].width = fades[c].width /\ MovedOn[c].target = fades[c].target
             /\ MovedOn[c].width # 0
  <2>1. fades[c] \in Running
    BY <1>3, RunningFades
  <2>2. MovedOn[c] = [fades[c] EXCEPT !.at = @ + 1]
    BY <1>3 DEF MovedOn, Fading
  <2> QED
    BY <1>3, <2>1, <2>2 DEF Running
<1>4. \A c \in Fading : c \in Slot /\ (fades[c].at >= fades[c].dur => fades[c].at = fades[c].dur)
  BY RunningFades DEF Running
<1>5. NoFade.width = 0
  BY DEF NoFade
<1> QED
  BY <1>1, <1>2, <1>3, <1>4, <1>5

LEMMA FrameAim ==
  ASSUME TypeInv, AimInv, NEW arrives, Frame(arrives)
  PROVE  AimInv'
<1> SUFFICES ASSUME NEW c \in Slot, NEW a, a = aim'[c], a # NoFade PROVE Aims(c, a)'
  BY AimStep
<1>1. PICK rank \in Injection(Fading, 1..Cardinality(Fading)) :
        buf' = Advanced(rank) /\ fades' = MovedOn
  BY Zenon DEF Frame
<1>2. rank \in [Fading -> Int]
  BY DEF Injection
<1>3. UNCHANGED <<queue, sending, aim>>
  BY DEF Frame
<1>4. Aims(c, a) /\ a \in Aim
  BY <1>3 DEF AimInv, TypeInv
<1>5. a.width \in {1, 2} /\ c + a.width <= Slots
  BY <1>4 DEF Aim, Aims
<1>6. \A d \in Slot : fades'[d].width # 0 =>
        d \in Fading /\ fades'[d].width = fades[d].width /\ fades'[d].target = fades[d].target
  BY <1>1, MovedOnIs
<1>7. Apart(c, a.width)'
  BY <1>4, <1>6 DEF Aims, Apart, Fading
<1>8. ASSUME NEW i \in c..(c + a.width - 1)
      PROVE  /\ i \in Slot /\ Over(i) \subseteq {c}
             /\ Over(i) = {} => buf'[i] = buf[i]
             /\ Over(i) # {} => buf'[i] = NormToBytes(Now(fades[c]), fades[c].width)[i - c + 1]
  <2>1. i \in Slot
    BY <1>5
  <2>2. ASSUME NEW d \in Over(i) PROVE d = c
    <3>1. d \in Fading /\ i \in d..(d + fades[d].width - 1) /\ fades[d].width \in {1, 2} /\ d \in Slot
      BY RunningFades DEF Over
    <3>2. Clash(Span(d, fades[d].width), Span(c, a.width))
      BY <1>5, <3>1 DEF Clash, Span
    <3> QED
      BY <1>4, <3>1, <3>2 DEF Aims, Apart
  <2> QED
    BY <1>1, <1>2, <2>1, <2>2, AdvancedIs
<1>9. ASSUME Arrives(c, a) PROVE Arrives(c, a)'
  <2>1. CASE c \notin Fading
    <3>1. \A i \in c..(c + a.width - 1) : buf'[i] = buf[i]
      BY <1>8, <2>1 DEF Over
    <3>2. fades'[c].width = 0
      BY <1>6, <2>1
    <3> QED
      BY <1>9, <2>1, <3>1, <3>2 DEF Arrives, Holds, Fading
  <2>2. CASE c \in Fading /\ fades'[c].width # 0
    BY <1>6, <1>9, <2>2 DEF Arrives, Fading
  <2>3. CASE c \in Fading /\ fades'[c].width = 0
    <3>1. fades[c].width = a.width /\ fades[c].target = a.value
      BY <1>9, <2>3 DEF Arrives
    <3>2. fades[c] \in Running /\ fades[c].at = fades[c].dur /\ fades[c].at <= fades[c].dur
      BY <1>1, <2>3, RunningFades, MovedOnIs
    <3>3. Now(fades[c]) = a.value
      BY <3>1, <3>2, NowIs
    <3>4. \A i \in c..(c + a.width - 1) : c \in Over(i)
      BY <2>3, <3>1 DEF Over
    <3>5. Holds(buf', c, a.width, a.value)
      BY <1>8, <3>1, <3>3, <3>4 DEF Holds
    <3> QED
      BY <2>3, <3>5 DEF Arrives, Fading
  <2> QED
    BY <2>1, <2>2, <2>3
<1> QED
  BY <1>3, <1>4, <1>7, <1>9 DEF Aims

---------------------------------------------------------------------------
(***************************************************************************)
(* Every step keeps the invariant.                                          *)
(***************************************************************************)
LEMMA SameAim ==
  ASSUME AimInv, UNCHANGED <<queue, sending, buf, fades, aim>>
  PROVE  AimInv'
<1> SUFFICES ASSUME NEW c \in Slot, NEW a, a = aim'[c], a # NoFade PROVE Aims(c, a)'
  BY AimStep
<1>1. Fading' = Fading /\ \A w : Apart(c, w)' <=> Apart(c, w)
  BY SameFades
<1>2. Aims(c, a)
  BY DEF AimInv
<1>3. Arrives(c, a)' <=> Arrives(c, a)
  BY <1>1 DEF Arrives
<1> QED
  BY <1>1, <1>2, <1>3 DEF Aims

LEMMA NoOrders == AreTargets(<<>>)
  BY DEF AreTargets, IsList

\* A call that asks for a list of fades.
LEMMA AskStep ==
  ASSUME LightInv, sending = <<>>, NEW list \in Seq(FadeOrder), NEW who \in {"desk", "loop"},
         Batch(list, who), aim' = Aimed(list), UNCHANGED <<show, handle, queue, engine, look>>
  PROVE  LightInv'
<1>1. AimInv'
  BY AskedList DEF LightInv, Batch, engine
<1>2. /\ sending' \in Seq(FadeOrder) /\ busy' \in {"nobody", "desk", "loop"}
      /\ (busy' = "nobody" <=> sending' = <<>>)
  BY DEF Batch
<1>3. aim' = [c \in Slot |-> aim'[c]] /\ \A c \in Slot : aim'[c] = NoFade \/ aim'[c] \in Aim
  <2>1. TypeInv
    BY DEF LightInv
  <2> QED
    BY <2>1, AimedType
<1>4. TypeInv'
  BY <1>2, <1>3 DEF TypeInv, LightInv, show, engine
<1>5. FollowInv'
  BY DEF FollowInv, LightInv, show, engine
<1> QED
  BY <1>1, <1>4, <1>5 DEF LightInv

LEMMA LockedIs ==
  ASSUME LightInv, Locked
  PROVE  sending = <<>>
  BY DEF LightInv, TypeInv, Locked

LEMMA FireStep ==
  ASSUME LightInv, NEW targets, AreTargets(targets), NEW dur \in Nat, NEW how, how # "cart",
         Fire(targets, dur, how)
  PROVE  LightInv'
<1> DEFINE list == SubmitTargets(patch, targets, dur)
           who == IF how = "loop" THEN "loop" ELSE "desk"
<1>1. list \in Seq(FadeOrder)
  BY SubmitTargetsIs DEF LightInv, TypeInv
<1>2. Batch(list, who) /\ aim' = Aimed(list) /\ UNCHANGED <<show, handle, queue, engine, look>>
  BY DEF Fire, Context
<1>3. sending = <<>>
  BY LockedIs DEF Fire
<1>4. who \in {"desk", "loop"}
  OBVIOUS
<1> HIDE DEF list, who
<1> QED
  BY <1>1, <1>2, <1>3, <1>4, AskStep

LEMMA GoLightStep ==
  ASSUME LightInv, "cart" \notin Firing, GoLight
  PROVE  LightInv'
<1>1. PICK c \in Cue, how \in Firing : Fire(LightCue[c].targets, LightCue[c].dur, how)
  BY DEF GoLight
<1>2. LightCue[c].dur \in Nat /\ AreTargets(LightCue[c].targets) /\ how # "cart"
  OBVIOUS
<1> QED
  BY <1>1, <1>2, FireStep

LEMMA GoLookStep ==
  ASSUME LightInv, GoLook
  PROVE  LightInv'
<1>1. PICK dur \in {LightCue[c].dur : c \in Cue} : Fire(look, dur, "go")
  BY DEF GoLook
<1>2. dur \in Nat /\ AreTargets(look)
  BY DEF LightInv, TypeInv
<1> QED
  BY <1>1, <1>2, FireStep

LEMMA SetNowStep ==
  ASSUME LightInv, Locked, NEW list \in Seq(FadeOrder), SetNow(list)
  PROVE  LightInv'
<1>1. /\ Batch(list, "desk") /\ aim' = Aimed(list)
      /\ UNCHANGED <<show, handle, queue, engine, look>>
  BY DEF SetNow
<1>2. sending = <<>>
  BY LockedIs
<1> QED
  BY <1>1, <1>2, AskStep

LEMMA ParamStep ==
  ASSUME LightInv, SetFixtureParam
  PROVE  LightInv'
<1>1. PICK f \in Fixture, v \in {0, Full} :
        \E i \in DOMAIN Layout[f] : SetNow(<<Placed(patch, f, i, v, 0)>>)
  BY DEF SetFixtureParam
<1>2. PICK i \in DOMAIN Layout[f] : SetNow(<<Placed(patch, f, i, v, 0)>>)
  BY <1>1
<1>3. Placed(patch, f, i, v, 0) \in FadeOrder
  <2>1. v \in 0..Full /\ patch \in Patches /\ 0 \in Nat
    BY FullIs DEF LightInv, TypeInv
  <2> QED
    BY <2>1, PlacedIs
<1>4. Locked
  BY DEF SetFixtureParam
<1>5. <<Placed(patch, f, i, v, 0)>> \in Seq(FadeOrder)
  BY <1>3
<1> QED
  BY <1>2, <1>4, <1>5, SetNowStep

LEMMA TestStep ==
  ASSUME LightInv, TestFixture
  PROVE  LightInv'
<1> DEFINE value(f, on, i) ==
             IF ~on THEN 0 ELSE IF Layout[f][i].kind = "pan" THEN Full \div 2 ELSE Full
           list(f, on) == [i \in DOMAIN Layout[f] |-> Placed(patch, f, i, value(f, on, i), 0)]
<1>1. PICK f \in Fixture, on \in BOOLEAN : SetNow(list(f, on))
  BY DEF TestFixture
<1>2. Locked
  BY DEF TestFixture
<1>3. \A i : value(f, on, i) \in 0..Full
  <2>1. Full \div 2 \in 0..Full
    <3> DEFINE q == Full \div 2
    <3>1. q \in Int /\ 2 * q <= Full /\ Full < 2 * q + 2
      BY FullIs, DivIs
    <3> HIDE DEF q
    <3>2. q \in 0..Full
      BY <3>1, FullIs
    <3> QED
      BY <3>2 DEF q
  <2> QED
    BY <2>1, FullIs
<1>4. DOMAIN Layout[f] = 1..Len(Layout[f]) /\ Len(Layout[f]) \in Nat
  BY DEF IsList
<1>5. \A i \in DOMAIN Layout[f] : Placed(patch, f, i, value(f, on, i), 0) \in FadeOrder
  <2> HIDE DEF value
  <2>1. patch \in Patches /\ 0 \in Nat
    BY DEF LightInv, TypeInv
  <2> QED
    BY <1>3, <2>1, PlacedIs
<1> HIDE DEF value
<1>6. list(f, on) \in [1..Len(Layout[f]) -> FadeOrder]
  BY <1>4, <1>5
<1> HIDE DEF list
<1>7. list(f, on) \in Seq(FadeOrder)
  BY <1>4, <1>6, SeqIs
<1> QED
  BY <1>1, <1>2, <1>7, SetNowStep

LEMMA ClearStep ==
  ASSUME LightInv, ClearFixtures
  PROVE  LightInv'
<1> DEFINE zeros == [f \in Fixture |-> [i \in DOMAIN Layout[f] |-> 0]]
           ts == AllTargets(patch, zeros)
           list == SubmitTargets(patch, ts, 0)
<1>1. Locked /\ SetNow(list)
  BY DEF ClearFixtures
<1>2. patch \in Patches /\ 0 \in Nat
  BY DEF LightInv, TypeInv
<1>3. \A f \in Fixture : \A i \in DOMAIN Layout[f] : zeros[f][i] \in 0..Full
  BY FullIs
<1> HIDE DEF zeros
<1>4. AreTargets(ts)
  BY <1>2, <1>3, AllTargetsAre
<1> HIDE DEF ts
<1>5. list \in Seq(FadeOrder)
  BY <1>2, <1>4, SubmitTargetsIs
<1> HIDE DEF list
<1> QED
  BY <1>1, <1>5, SetNowStep

LEMMA PushStep ==
  ASSUME LightInv, Push
  PROVE  LightInv'
<1>1. /\ sending # <<>> /\ queue' = Append(queue, Head(sending)) /\ sending' = Tail(sending)
      /\ busy' = IF Tail(sending) = <<>> THEN "nobody" ELSE busy
      /\ UNCHANGED <<show, handle, engine, look, aim>>
  BY DEF Push, Batch
<1>2. AimInv'
  BY PushAim DEF LightInv
<1>3. Head(sending) \in FadeOrder /\ Tail(sending) \in Seq(FadeOrder)
  BY <1>1, TailShape DEF LightInv, TypeInv
<1>4. Head(sending) \in Order /\ Head(sending).op = "fade"
  BY <1>3 DEF Order, FadeOrder
<1>5. queue' \in Seq(Order)
  BY <1>1, <1>4 DEF LightInv, TypeInv
<1>6. TypeInv'
  BY <1>1, <1>3, <1>5 DEF LightInv, TypeInv, show, engine
<1>7. /\ \A op : NoneOf(queue', op) <=> NoneOf(queue, op) /\ Head(sending).op # op
      /\ SaysOutput(queue', output) <=> SaysOutput(queue, output)
      /\ SaysDark(queue', handle) <=> SaysDark(queue, handle)
  BY <1>1, <1>4, AppendOp DEF LightInv, TypeInv
<1>8. FollowInv'
  BY <1>1, <1>4, <1>7 DEF LightInv, FollowInv, show, engine
<1> QED
  BY <1>2, <1>6, <1>8 DEF LightInv

LEMMA ChannelStep ==
  ASSUME LightInv, SetChannel
  PROVE  LightInv'
<1>1. PICK a \in Slot, v \in {0, Full} :
        /\ queue' = Append(queue, Submit(a, 1, v, 0)) /\ aim' = Aimed(<<Submit(a, 1, v, 0)>>)
        /\ UNCHANGED <<show, handle, sending, busy, engine, look>>
  BY DEF SetChannel
<1> DEFINE x == Submit(a, 1, v, 0)
<1>2. x \in FadeOrder
  <2>1. v \in 0..Full /\ a \in Nat
    BY FullIs
  <2> QED
    BY <2>1 DEF Submit, FadeOrder
<1>3. x \in Order /\ x.op = "fade" /\ <<x>> \in Seq(FadeOrder)
  BY <1>2 DEF Order, FadeOrder
<1>4. queue' = Append(queue, x) /\ aim' = Aimed(<<x>>)
  BY <1>1
<1> HIDE DEF x
<1>5. AimInv'
  BY <1>1, <1>2, <1>4, AskedOne DEF LightInv, engine
<1>6. aim' = [c \in Slot |-> aim'[c]] /\ \A c \in Slot : aim'[c] = NoFade \/ aim'[c] \in Aim
  BY <1>3, <1>4, AimedType DEF LightInv
<1>7. queue' \in Seq(Order)
  BY <1>3, <1>4 DEF LightInv, TypeInv
<1>8. TypeInv'
  BY <1>1, <1>6, <1>7 DEF LightInv, TypeInv, show, engine
<1>9. /\ \A op : NoneOf(queue', op) <=> NoneOf(queue, op) /\ x.op # op
      /\ SaysOutput(queue', output) <=> SaysOutput(queue, output)
      /\ SaysDark(queue', handle) <=> SaysDark(queue, handle)
  BY <1>3, <1>4, AppendOp DEF LightInv, TypeInv
<1>10. FollowInv'
  BY <1>1, <1>3, <1>9 DEF LightInv, FollowInv, show, engine
<1> QED
  BY <1>5, <1>8, <1>10 DEF LightInv

LEMMA BlackoutStep ==
  ASSUME LightInv, SetBlackout
  PROVE  LightInv'
<1>1. PICK on \in BOOLEAN :
        /\ handle' = on /\ queue' = Append(queue, [op |-> "blackout", on |-> on])
        /\ UNCHANGED <<show, sending, busy, engine, look, aim>>
  BY DEF SetBlackout
<1> DEFINE x == [op |-> "blackout", on |-> on]
<1>2. x \in Order /\ x.op = "blackout" /\ x.on = on /\ queue' = Append(queue, x)
  BY <1>1 DEF Order
<1> HIDE DEF x
<1>3. AimInv'
  BY <1>1, <1>2, OtherOrder DEF LightInv, engine
<1>4. queue' \in Seq(Order)
  BY <1>2 DEF LightInv, TypeInv
<1>5. TypeInv'
  BY <1>1, <1>4 DEF LightInv, TypeInv, show, engine
<1>6. /\ \A op : NoneOf(queue', op) <=> NoneOf(queue, op) /\ x.op # op
      /\ SaysOutput(queue', output) <=> SaysOutput(queue, output)
      /\ SaysDark(queue', on)
  BY <1>2, AppendOp DEF LightInv, TypeInv
<1>7. FollowInv'
  BY <1>1, <1>2, <1>6 DEF LightInv, FollowInv, show, engine
<1> QED
  BY <1>3, <1>5, <1>7 DEF LightInv

LEMMA CaptureStep ==
  ASSUME LightInv, CaptureLiveTargets
  PROVE  LightInv'
<1> DEFINE at(f, i) == ResolveChannel(patch, f, i)
           read == [f \in Fixture |-> [i \in DOMAIN Layout[f] |->
                     ReadNorm(snapshot, at(f, i).ch, at(f, i).width)]]
<1>1. /\ look' = AllTargets(patch, read)
      /\ UNCHANGED <<show, handle, sending, busy, queue, engine, aim>>
  BY DEF CaptureLiveTargets
<1>2. patch \in Patches /\ snapshot \in [Slot -> Byte]
  BY DEF LightInv, TypeInv
<1>3. ASSUME NEW f \in Fixture, NEW i \in DOMAIN Layout[f] PROVE read[f][i] \in 0..Full
  <2>1. at(f, i).ch \in Nat /\ at(f, i).width \in {1, 2}
    BY <1>2, ResolvedIs
  <2>2. read[f][i] = ReadNorm(snapshot, at(f, i).ch, at(f, i).width)
    OBVIOUS
  <2>3. \A ch \in Nat, w \in {1, 2} : ReadNorm(snapshot, ch, w) \in 0..Full
    BY <1>2, BytesRead
  <2> HIDE DEF at, read, Full
  <2> QED
    BY <2>1, <2>2, <2>3, Zenon
<1> HIDE DEF read
<1>4. AreTargets(look')
  BY <1>1, <1>2, <1>3, AllTargetsAre
<1>5. TypeInv'
  BY <1>1, <1>4 DEF LightInv, TypeInv, show, engine
<1>6. AimInv'
  BY <1>1, SameAim DEF LightInv, engine
<1>7. FollowInv'
  BY <1>1 DEF LightInv, FollowInv, show, engine
<1> QED
  BY <1>5, <1>6, <1>7 DEF LightInv

LEMMA PatchStep ==
  ASSUME LightInv, UpdateFixture
  PROVE  LightInv'
<1>1. PICK f \in Fixture, a \in Address \cup {0} :
        /\ patch' = [patch EXCEPT ![f] = a]
        /\ UNCHANGED <<output, handle, sending, busy, queue, engine, look, aim>>
  BY DEF UpdateFixture
<1>2. patch' \in Patches
  BY <1>1 DEF LightInv, TypeInv, Patches
<1>3. TypeInv'
  BY <1>1, <1>2 DEF LightInv, TypeInv, engine
<1>4. AimInv'
  BY <1>1, SameAim DEF LightInv, engine
<1>5. FollowInv'
  BY <1>1 DEF LightInv, FollowInv, engine
<1> QED
  BY <1>3, <1>4, <1>5 DEF LightInv

\* The thread is told where to send.
LEMMA ToldStep ==
  ASSUME LightInv, NEW o \in {s.output : s \in Shows} \cup {"none"}, Told(o), output' = o,
         patch' \in Patches, AreTargets(look'),
         UNCHANGED <<handle, sending, busy, engine, aim>>
  PROVE  LightInv'
<1> DEFINE x == [op |-> "outputs", to |-> o]
<1>1. x \in Order /\ x.op = "outputs" /\ x.to = o /\ queue' = Append(queue, x)
  BY DEF Order, Told
<1> HIDE DEF x
<1>2. AimInv'
  BY <1>1, OtherOrder DEF LightInv, engine
<1>3. queue' \in Seq(Order)
  BY <1>1 DEF LightInv, TypeInv
<1>4. TypeInv'
  BY <1>3 DEF LightInv, TypeInv, engine
<1>5. /\ \A op : NoneOf(queue', op) <=> NoneOf(queue, op) /\ x.op # op
      /\ SaysOutput(queue', o)
      /\ SaysDark(queue', handle) <=> SaysDark(queue, handle)
  BY <1>1, AppendOp DEF LightInv, TypeInv
<1>6. FollowInv'
  BY <1>1, <1>5 DEF LightInv, FollowInv, engine
<1> QED
  BY <1>2, <1>4, <1>6 DEF LightInv

LEMMA OutputsStep ==
  ASSUME LightInv, SetOutputs
  PROVE  LightInv'
<1>1. PICK o \in {s.output : s \in Shows} :
        output' = o /\ Told(o) /\ UNCHANGED <<patch, handle, sending, busy, engine, look, aim>>
  BY DEF SetOutputs
<1>2. patch' \in Patches /\ AreTargets(look')
  BY <1>1 DEF LightInv, TypeInv
<1> QED
  BY <1>1, <1>2, ToldStep

LEMMA OpenStep ==
  ASSUME LightInv, OpenShow
  PROVE  LightInv'
<1>1. PICK s \in Shows \cup {Empty} :
        /\ patch' = s.patch /\ output' = s.output /\ look' = <<>> /\ Told(s.output)
        /\ UNCHANGED <<handle, sending, busy, engine, aim>>
  BY DEF OpenShow
<1>2. s.patch \in Patches /\ s.output \in {t.output : t \in Shows} \cup {"none"}
  BY DEF Empty, Patches
<1>3. AreTargets(look')
  BY <1>1, NoOrders
<1> QED
  BY <1>1, <1>2, <1>3, ToldStep

LEMMA RebindStep ==
  ASSUME LightInv, RebindSinks
  PROVE  LightInv'
<1> DEFINE x == [op |-> "rebind"]
<1>1. /\ queue' = Append(queue, x)
      /\ UNCHANGED <<show, handle, sending, busy, engine, look, aim>>
  BY DEF RebindSinks
<1>2. x \in Order /\ x.op = "rebind"
  BY DEF Order
<1> HIDE DEF x
<1>3. AimInv'
  BY <1>1, <1>2, OtherOrder DEF LightInv, engine
<1>4. queue' \in Seq(Order)
  BY <1>1, <1>2 DEF LightInv, TypeInv
<1>5. TypeInv'
  BY <1>1, <1>4 DEF LightInv, TypeInv, show, engine
<1>6. /\ \A op : NoneOf(queue', op) <=> NoneOf(queue, op) /\ x.op # op
      /\ SaysOutput(queue', output) <=> SaysOutput(queue, output)
      /\ SaysDark(queue', handle) <=> SaysDark(queue, handle)
  BY <1>1, <1>2, AppendOp DEF LightInv, TypeInv
<1>7. FollowInv'
  BY <1>1, <1>2, <1>6 DEF LightInv, FollowInv, show, engine
<1> QED
  BY <1>3, <1>5, <1>7 DEF LightInv

LEMMA HeardIs ==
  ASSUME TypeInv
  PROVE  /\ \A n \in 0..(Numbers - 1) :
              [heard EXCEPT !.ahead = n] \in [look : [Slot -> Byte], ahead : 0..(Numbers - 1)]
         /\ Behind \in 0..(Numbers - 1)
         /\ \A data \in [Slot -> Byte] :
              [look |-> data, ahead |-> 0] \in [look : [Slot -> Byte], ahead : 0..(Numbers - 1)]
<1>1. heard \in [look : [Slot -> Byte], ahead : 0..(Numbers - 1)] /\ Numbers \in Nat \ {0}
  BY DEF TypeInv
<1> HIDE DEF Byte, Slot
<1> QED
  BY <1>1 DEF Behind

\* A socket is there only for an output that has one.
LEMMA SinksBuilt ==
  ASSUME TypeInv, NEW o, BuildSinks(o)
  PROVE  /\ sink' = [since |-> sink'.since, last |-> sink'.last] /\ sink'.since \in 0..Keepalive
         /\ heard' \in [look : [Slot -> Byte], ahead : 0..(Numbers - 1)]
         /\ sink' # NoSink => o \in Sendable
<1>1. PICK bound \in BOOLEAN, ahead \in 0..(Numbers - 1) :
        IF bound /\ o \in Sendable
        THEN sink' = Fresh /\ heard' = [heard EXCEPT !.ahead = ahead]
        ELSE sink' = NoSink /\ ahead = 0 /\ UNCHANGED heard
  BY DEF BuildSinks
<1>2. CASE bound /\ o \in Sendable
  <2>1. sink' = Fresh /\ heard' \in [look : [Slot -> Byte], ahead : 0..(Numbers - 1)]
    BY <1>1, <1>2, HeardIs
  <2> QED
    BY <1>2, <2>1 DEF Fresh
<1>3. CASE ~(bound /\ o \in Sendable)
  <2>1. sink' = NoSink /\ heard' = heard
    BY <1>1, <1>3
  <2> QED
    BY <2>1 DEF NoSink, TypeInv
<1> QED
  BY <1>2, <1>3

LEMMA DrainStep ==
  ASSUME LightInv, Drain
  PROVE  LightInv'
<1> DEFINE x == Head(queue)
<1>1. /\ queue # <<>> /\ queue' = Tail(queue)
      /\ UNCHANGED <<show, handle, sending, busy, snapshot, look, requests, aim>>
  BY DEF Drain
<1>2. AimInv'
  BY DrainAim DEF LightInv
<1>3. x \in Order /\ queue' \in Seq(Order)
  BY <1>1, TailShape DEF LightInv, TypeInv
<1>4. /\ \A op : NoneOf(queue, op) <=> NoneOf(queue', op) /\ x.op # op
      /\ SaysOutput(queue, output) =>
           /\ SaysOutput(queue', output)
           /\ NoneOf(queue', "outputs") /\ x.op = "outputs" => x.to = output
      /\ SaysDark(queue, handle) =>
           /\ SaysDark(queue', handle)
           /\ NoneOf(queue', "blackout") /\ x.op = "blackout" => x.on = handle
  BY <1>1, TailOp DEF LightInv, TypeInv
<1>5. \/ /\ x.op = "fade" /\ SubmitFade(x) /\ UNCHANGED <<dark, outputs, sink, heard>>
      \/ /\ x.op = "blackout" /\ dark' = x.on /\ UNCHANGED <<buf, fades, outputs, sink, heard>>
      \/ /\ x.op = "outputs" /\ outputs' = x.to /\ BuildSinks(x.to)
         /\ UNCHANGED <<buf, fades, dark>>
      \/ /\ x.op = "rebind" /\ BuildSinks(outputs) /\ UNCHANGED <<buf, fades, dark, outputs>>
  BY DEF Drain
<1>6. (x.op = "fade" => x \in FadeOrder) /\ (x.op = "blackout" => x.on \in BOOLEAN)
  BY <1>3, OrderIs
<1> HIDE DEF x
<1>7. /\ buf' \in [Slot -> Byte] /\ fades' = [c \in Slot |-> fades'[c]]
      /\ \A c \in Slot : fades'[c] = NoFade
           \/ (fades'[c] \in Running /\ fades'[c].at <= fades'[c].dur)
  <2>1. CASE x.op = "fade"
    BY <1>5, <1>6, <2>1, SubmitType DEF LightInv
  <2>2. CASE x.op # "fade"
    BY <1>5, <2>2 DEF LightInv, TypeInv
  <2> QED
    BY <2>1, <2>2
<1>8. /\ sink' = [since |-> sink'.since, last |-> sink'.last]
      /\ sink' = NoSink \/ sink'.since \in 0..Keepalive
      /\ heard' \in [look : [Slot -> Byte], ahead : 0..(Numbers - 1)]
      /\ sink' # NoSink => outputs' \in Sendable
  <2>1. CASE x.op \in {"fade", "blackout"}
    BY <1>5, <2>1 DEF LightInv, TypeInv, FollowInv
  <2>2. CASE x.op = "outputs"
    BY <1>5, <2>2, SinksBuilt DEF LightInv
  <2>3. CASE x.op = "rebind"
    BY <1>5, <2>3, SinksBuilt DEF LightInv
  <2> QED
    BY <1>5, <2>1, <2>2, <2>3
<1>9. dark' \in BOOLEAN
  BY <1>5, <1>6 DEF LightInv, TypeInv
<1>10. TypeInv'
  BY <1>1, <1>3, <1>7, <1>8, <1>9 DEF LightInv, TypeInv, show
<1>11. output' = output /\ handle' = handle
  BY <1>1 DEF show
<1>12. NoneOf(queue', "outputs") => outputs' = output
  <2>1. CASE x.op = "outputs"
    BY <1>4, <1>5, <2>1 DEF LightInv, FollowInv
  <2>2. CASE x.op # "outputs"
    BY <1>4, <1>5, <2>2 DEF LightInv, FollowInv
  <2> QED
    BY <2>1, <2>2
<1>13. NoneOf(queue', "blackout") => dark' = handle
  <2>1. CASE x.op = "blackout"
    BY <1>4, <1>5, <2>1 DEF LightInv, FollowInv
  <2>2. CASE x.op # "blackout"
    BY <1>4, <1>5, <2>2 DEF LightInv, FollowInv
  <2> QED
    BY <2>1, <2>2
<1>14. FollowInv'
  BY <1>4, <1>8, <1>11, <1>12, <1>13 DEF LightInv, FollowInv
<1> QED
  BY <1>2, <1>10, <1>14 DEF LightInv

LEMMA FrameStep ==
  ASSUME LightInv, NEW arrives, Frame(arrives)
  PROVE  LightInv'
<1>0. TypeInv
  BY DEF LightInv
<1>1. PICK rank \in Injection(Fading, 1..Cardinality(Fading)) :
        LET after == Advanced(rank)
            data  == Rendered(after)
        IN  /\ buf' = after /\ fades' = MovedOn /\ snapshot' = data
            /\ IF Due(data) THEN SendFrame(data, arrives)
               ELSE /\ sink' = IF sink = NoSink \/ sink.since = Keepalive THEN sink
                            ELSE [sink EXCEPT !.since = @ + 1]
                    /\ UNCHANGED heard
  BY Zenon DEF Frame
<1>2. UNCHANGED <<show, handle, sending, busy, queue, dark, outputs, look, requests, aim>>
  BY DEF Frame
<1>3. rank \in [Fading -> Int]
  BY DEF Injection
<1> DEFINE data == Rendered(Advanced(rank))
<1>4. buf' \in [Slot -> Byte] /\ data \in [Slot -> Byte]
  <2>1. Dark \in [Slot -> Byte] /\ Advanced(rank) \in [Slot -> Byte]
    BY <1>0, <1>3, AdvancedType DEF Dark
  <2> QED
    BY <1>1, <2>1 DEF Rendered
<1>5. /\ fades' = [c \in Slot |-> fades'[c]]
      /\ \A c \in Slot : fades'[c] = NoFade
           \/ (fades'[c] \in Running /\ fades'[c].at <= fades'[c].dur)
  BY <1>0, <1>1, MovedOnIs
<1>6. snapshot' = data
  BY <1>1
<1>7. IF Due(data) THEN SendFrame(data, arrives)
      ELSE /\ sink' = IF sink = NoSink \/ sink.since = Keepalive THEN sink
                   ELSE [sink EXCEPT !.since = @ + 1]
           /\ UNCHANGED heard
  BY <1>1
<1> HIDE DEF data
<1>8. /\ sink' = [since |-> sink'.since, last |-> sink'.last]
      /\ sink' = NoSink \/ sink'.since \in 0..Keepalive
      /\ heard' \in [look : [Slot -> Byte], ahead : 0..(Numbers - 1)]
      /\ sink' # NoSink => sink # NoSink
  <2>1. CASE Due(data)
    <3>1. /\ sink' = [since |-> 0, last |-> data] /\ sink # NoSink
          /\ heard' = IF arrives /\ Behind >= Window THEN [look |-> data, ahead |-> 0]
                      ELSE [heard EXCEPT !.ahead = Behind]
      BY <1>7, <2>1 DEF SendFrame, Due
    <3>2. Behind \in 0..(Numbers - 1)
      BY <1>0, HeardIs
    <3>3. heard' \in [look : [Slot -> Byte], ahead : 0..(Numbers - 1)]
      BY <1>0, <1>4, <3>1, <3>2, HeardIs
    <3> QED
      BY <3>1, <3>3
  <2>2. CASE ~Due(data)
    <3>1. heard' = heard /\ sink' = IF sink = NoSink \/ sink.since = Keepalive THEN sink
                                    ELSE [sink EXCEPT !.since = @ + 1]
      BY <1>7, <2>2
    <3>2. heard' \in [look : [Slot -> Byte], ahead : 0..(Numbers - 1)]
      BY <1>0, <3>1 DEF TypeInv
    <3>3. CASE sink = NoSink \/ sink.since = Keepalive
      BY <1>0, <3>1, <3>2, <3>3 DEF TypeInv
    <3>4. CASE ~(sink = NoSink \/ sink.since = Keepalive)
      <4>1. sink = [since |-> sink.since, last |-> sink.last] /\ sink.since \in 0..Keepalive
        BY <1>0, <3>4 DEF TypeInv
      <4>2. sink' = [since |-> sink.since + 1, last |-> sink.last]
        BY <3>1, <3>4, <4>1
      <4> QED
        BY <3>2, <3>4, <4>1, <4>2
    <3> QED
      BY <3>3, <3>4
  <2> QED
    BY <2>1, <2>2
<1>9. TypeInv'
  BY <1>0, <1>2, <1>4, <1>5, <1>6, <1>8 DEF TypeInv, show
<1>10. AimInv'
  BY FrameAim DEF LightInv
<1>11. FollowInv'
  BY <1>2, <1>8 DEF LightInv, FollowInv, show
<1> QED
  BY <1>9, <1>10, <1>11 DEF LightInv

---------------------------------------------------------------------------
(***************************************************************************)
(* What the invariant says.                                                 *)
(***************************************************************************)
LEMMA InitStep == LightInit => LightInv
<1> SUFFICES ASSUME LightInit PROVE LightInv
  OBVIOUS
<1>1. PICK s \in Shows :
        /\ patch = s.patch /\ output = s.output /\ outputs = s.output
        /\ sink = IF s.output \in Sendable THEN Fresh ELSE NoSink
  BY DEF LightInit
<1>2. /\ handle = FALSE /\ sending = <<>> /\ busy = "nobody" /\ queue = <<>>
      /\ buf = Dark /\ fades = [c \in Slot |-> NoFade] /\ dark = FALSE
      /\ snapshot = Dark /\ heard = [look |-> Dark, ahead |-> 0]
      /\ look = <<>> /\ aim = [c \in Slot |-> NoFade]
  BY DEF LightInit
<1>3. patch \in Patches
  BY <1>1 DEF Patches
<1>4. Dark \in [Slot -> Byte]
  BY DEF Dark
<1>5. sink = [since |-> sink.since, last |-> sink.last] /\ sink.since \in 0..Keepalive
  BY <1>1 DEF Fresh, NoSink
<1>6. heard \in [look : [Slot -> Byte], ahead : 0..(Numbers - 1)]
  BY <1>2, <1>4
<1>7. TypeInv
  <2>1. sending \in Seq(FadeOrder) /\ queue \in Seq(Order)
    BY <1>2
  <2>2. /\ fades = [c \in Slot |-> fades[c]] /\ \A c \in Slot : fades[c] = NoFade
        /\ aim = [c \in Slot |-> aim[c]] /\ \A c \in Slot : aim[c] = NoFade
    BY <1>2
  <2>3. buf \in [Slot -> Byte] /\ snapshot \in [Slot -> Byte] /\ AreTargets(look)
    BY <1>2, <1>4, NoOrders
  <2> QED
    BY <1>2, <1>3, <1>5, <1>6, <2>1, <2>2, <2>3 DEF TypeInv
<1>8. AimInv
  BY <1>2 DEF AimInv
<1>9. FollowInv
  <2>1. DOMAIN queue = {}
    BY <1>2
  <2>2. SaysOutput(queue, output) /\ SaysDark(queue, handle)
    BY <2>1 DEF SaysOutput, SaysDark
  <2>3. sink # NoSink => outputs \in Sendable
    BY <1>1
  <2>4. outputs = output /\ dark = handle
    BY <1>1, <1>2
  <2> QED
    BY <2>2, <2>3, <2>4 DEF FollowInv
<1> QED
  BY <1>7, <1>8, <1>9 DEF LightInv

LEMMA NextStep ==
  ASSUME "cart" \notin Firing, LightInv, [LightNext]_lightVars
  PROVE  LightInv'
<1>1. CASE GoLight
  BY <1>1, GoLightStep
<1>2. CASE GoLook
  BY <1>2, GoLookStep
<1>3. CASE Push
  BY <1>3, PushStep
<1>4. CASE SetFixtureParam
  BY <1>4, ParamStep
<1>5. CASE TestFixture
  BY <1>5, TestStep
<1>6. CASE ClearFixtures
  BY <1>6, ClearStep
<1>7. CASE SetChannel
  BY <1>7, ChannelStep
<1>8. CASE SetBlackout
  BY <1>8, BlackoutStep
<1>9. CASE CaptureLiveTargets
  BY <1>9, CaptureStep
<1>10. CASE UpdateFixture
  BY <1>10, PatchStep
<1>11. CASE SetOutputs
  BY <1>11, OutputsStep
<1>12. CASE OpenShow
  BY <1>12, OpenStep
<1>13. CASE RebindSinks
  BY <1>13, RebindStep
<1>14. CASE Drain
  BY <1>14, DrainStep
<1>15. CASE FrameLost \/ FrameSent
  BY <1>15, FrameStep DEF FrameLost, FrameSent
<1>16. CASE UNCHANGED lightVars
  <2>1. UNCHANGED <<show, handle, sending, busy, queue, engine, look, aim>>
    BY <1>16 DEF lightVars
  <2>2. AimInv'
    BY <2>1, SameAim DEF LightInv, engine
  <2>3. TypeInv'
    BY <2>1 DEF LightInv, TypeInv, show, engine
  <2>4. FollowInv'
    BY <2>1 DEF LightInv, FollowInv, show, engine
  <2> QED
    BY <2>2, <2>3, <2>4 DEF LightInv
<1> QED
  BY <1>1, <1>2, <1>3, <1>4, <1>5, <1>6, <1>7, <1>8, <1>9, <1>10, <1>11, <1>12, <1>13, <1>14,
     <1>15, <1>16 DEF LightNext

\* No parameter of a fixture ends past its footprint.
LEMMA FootprintIs ==
  ASSUME NEW f \in Fixture, NEW i \in DOMAIN Layout[f]
  PROVE  Footprint(f) \in Nat /\ Layout[f][i].offset + Layout[f][i].width <= Footprint(f)
<1> DEFINE end(j) == Layout[f][j].offset + Layout[f][j].width
           n == Len(Layout[f])
           Most(j, k) == \A l \in 1..k : end(l) <= end(j)
           S == {k \in 0..n : k = 0 \/ \E j \in 1..k : Most(j, k)}
           ends == {end(j) : j \in DOMAIN Layout[f]}
           Top(m) == \A e \in ends : e <= m
<1>1. DOMAIN Layout[f] = 1..n /\ n \in Nat /\ i \in 1..n
  BY DEF IsList
<1>2. \A j \in 1..n : end(j) \in Nat
  BY <1>1
<1>3. Footprint(f) = CHOOSE m \in ends : Top(m)
  BY DEF Footprint
<1>4. ends = {end(j) : j \in 1..n}
  BY <1>1
<1> HIDE DEF end, n, ends
<1>5. 0 \in S
  BY <1>1
<1>6. ASSUME NEW k \in 1..n, k - 1 \in S PROVE k \in S
  <2>1. k \in 0..n /\ k \in 1..k /\ 1..k \subseteq 1..n /\ \A l \in 1..k : l = k \/ l \in 1..(k - 1)
    BY <1>1
  <2>2. CASE k = 1
    <3>1. Most(k, k)
      <4>1. \A l \in 1..k : l = k
        BY <2>2
      <4> QED
        BY <1>2, <4>1
    <3> QED
      BY <2>1, <3>1
  <2>3. CASE k # 1
    <3>1. PICK j \in 1..(k - 1) : Most(j, k - 1)
      BY <1>6, <2>3
    <3>2. j \in 1..k /\ end(j) \in Nat /\ end(k) \in Nat
      BY <1>1, <1>2, <2>1
    <3>3. CASE end(k) <= end(j)
      <4>1. Most(j, k)
        BY <2>1, <3>1, <3>3
      <4> HIDE DEF Most
      <4> QED
        BY <2>1, <3>2, <4>1
    <3>4. CASE end(j) <= end(k)
      <4>1. Most(k, k)
        <5>1. ASSUME NEW l \in 1..k PROVE end(l) <= end(k)
          <6>1. CASE l = k
            BY <3>2, <6>1
          <6>2. CASE l \in 1..(k - 1)
            <7>1. end(l) <= end(j) /\ end(l) \in Nat
              BY <1>2, <2>1, <3>1, <6>2
            <7> QED
              BY <3>2, <3>4, <7>1
          <6> QED
            BY <2>1, <6>1, <6>2
        <5> QED
          BY <5>1
      <4> HIDE DEF Most
      <4> QED
        BY <2>1, <4>1
    <3> QED
      BY <3>2, <3>3, <3>4
  <2> QED
    BY <2>2, <2>3
<1>7. 0..n \subseteq S
  <2> HIDE DEF S
  <2> QED
    BY <1>1, <1>5, <1>6, UpTo
<1>8. PICK j \in 1..n : Most(j, n)
  <2>1. n \in 0..n /\ n # 0
    BY <1>1
  <2>2. n \in S
    <3> HIDE DEF S
    <3> QED
      BY <1>7, <2>1
  <2> QED
    BY <2>1, <2>2
<1>9. end(j) \in ends /\ Top(end(j))
  BY <1>4, <1>8
<1>10. Footprint(f) \in ends /\ Top(Footprint(f))
  <2> HIDE DEF Top
  <2> QED
    BY <1>3, <1>9
<1>11. Footprint(f) \in Nat
  BY <1>2, <1>4, <1>10
<1>12. end(i) <= Footprint(f)
  BY <1>1, <1>4, <1>10
<1> QED
  BY <1>11, <1>12 DEF end

\* The slots of a patched fixture are those from its address to the end of its footprint.
LEMMA OccupiedIs ==
  ASSUME TypeInv, NEW f \in Fixture, patch[f] # 0, NEW a \in Occupied(patch, f)
  PROVE  /\ patch[f] \in Nat \ {0} /\ Footprint(f) \in Nat
         /\ a.ch \in Nat /\ a.width \in {1, 2}
         /\ patch[f] - 1 <= a.ch /\ a.ch + a.width <= patch[f] - 1 + Footprint(f)
<1>1. PICK i \in DOMAIN Layout[f] : a = ResolveChannel(patch, f, i)
  BY DEF Occupied
<1>2. patch \in Patches
  BY DEF TypeInv
<1>3. patch[f] \in Nat \ {0} /\ a.ch \in Nat /\ a.width \in {1, 2}
  BY <1>1, <1>2, ResolvedIs
<1>4. Footprint(f) \in Nat /\ Layout[f][i].offset + Layout[f][i].width <= Footprint(f)
  BY FootprintIs
<1>5. Layout[f][i].offset \in Nat /\ Layout[f][i].width \in {1, 2}
  OBVIOUS
<1>6. a.ch = patch[f] - 1 + Layout[f][i].offset /\ a.width = Layout[f][i].width
  BY <1>1, <1>3 DEF ResolveChannel
<1> QED
  BY <1>3, <1>4, <1>5, <1>6

LEMMA ConflictsShow ==
  ASSUME TypeInv
  PROVE  NoHiddenConflict
<1> SUFFICES ASSUME NEW f \in Fixture, NEW g \in Fixture, patch[f] # 0, patch[g] # 0,
                    ~Conflict(patch, f, g),
                    NEW a \in Occupied(patch, f), NEW b \in Occupied(patch, g)
             PROVE  ~Clash(a, b)
  BY DEF NoHiddenConflict
<1>1. /\ patch[f] \in Nat /\ Footprint(f) \in Nat /\ a.ch \in Nat /\ a.width \in {1, 2}
      /\ patch[f] - 1 <= a.ch /\ a.ch + a.width <= patch[f] - 1 + Footprint(f)
  BY OccupiedIs
<1>2. /\ patch[g] \in Nat /\ Footprint(g) \in Nat /\ b.ch \in Nat /\ b.width \in {1, 2}
      /\ patch[g] - 1 <= b.ch /\ b.ch + b.width <= patch[g] - 1 + Footprint(g)
  BY OccupiedIs
<1>3. \/ ~(patch[f] <= patch[g] + Footprint(g) - 1)
      \/ ~(patch[g] <= patch[f] + Footprint(f) - 1)
  BY DEF Conflict
<1> QED
  BY <1>1, <1>2, <1>3 DEF Clash

LEMMA LatestHeld ==
  ASSUME TypeInv, AimInv
  PROVE  LatestWins
<1> SUFFICES ASSUME NEW c \in Slot, aim[c].width # 0, c \notin Fading,
                    \A x \in Range(queue \o sending) : x.op = "fade" => x.ch # c
             PROVE  ReadNorm(buf, c, aim[c].width) = Kept(aim[c].value, aim[c].width)
  BY DEF LatestWins
<1>1. aim[c] # NoFade /\ aim[c] \in Aim
  BY DEF NoFade, TypeInv
<1>2. Aims(c, aim[c])
  BY <1>1 DEF AimInv
<1>3. /\ Len(queue) \in Nat /\ Len(sending) \in Nat
      /\ DOMAIN queue = 1..Len(queue) /\ DOMAIN sending = 1..Len(sending)
      /\ Len(queue \o sending) = Len(queue) + Len(sending)
      /\ DOMAIN (queue \o sending) = 1..(Len(queue) + Len(sending))
      /\ \A k \in 1..Len(queue) : (queue \o sending)[k] = queue[k]
      /\ \A k \in 1..Len(sending) : (queue \o sending)[Len(queue) + k] = sending[k]
  <2>1. queue \in Seq(Order) /\ sending \in Seq(Order)
    BY DEF TypeInv, Order
  <2>2. \A k \in 1..Len(sending) : k + Len(queue) > Len(queue)
    BY <2>1
  <2> QED
    BY <2>1, ConcatProperties, LenProperties
<1>4. Free(queue, c)
  <2>1. ASSUME NEW k \in DOMAIN queue PROVE queue[k] \in Range(queue \o sending)
    <3>1. k \in DOMAIN (queue \o sending) /\ (queue \o sending)[k] = queue[k]
      BY <1>3
    <3> QED
      BY <3>1 DEF Range
  <2> QED
    BY <2>1 DEF Free
<1>5. Free(sending, c)
  <2>1. ASSUME NEW k \in DOMAIN sending PROVE sending[k] \in Range(queue \o sending)
    <3>1. /\ Len(queue) + k \in DOMAIN (queue \o sending)
          /\ (queue \o sending)[Len(queue) + k] = sending[k]
      BY <1>3
    <3> QED
      BY <3>1 DEF Range
  <2> QED
    BY <2>1 DEF Free
<1>6. c + aim[c].width <= Slots /\ Holds(buf, c, aim[c].width, aim[c].value)
  BY <1>2, <1>4, <1>5 DEF Aims, Arrives
<1>7. aim[c].width \in {1, 2} /\ aim[c].value \in 0..Full
  BY <1>1 DEF Aim
<1> QED
  BY <1>6, <1>7, HeldIsKept

LEMMA SafetyIs == LightInv => LightingSafety
<1> SUFFICES ASSUME LightInv PROVE LightingSafety
  OBVIOUS
<1>1. LatestWins /\ NoHiddenConflict
  BY LatestHeld, ConflictsShow DEF LightInv
<1>2. ASSUME NEW op, \A x \in Range(queue) : x.op # op PROVE NoneOf(queue, op)
  BY <1>2 DEF NoneOf, Range
<1>3. EngineFollows
  BY <1>2 DEF EngineFollows, LightInv, FollowInv
<1>4. LightTypeOK
  <2>1. TypeInv
    BY DEF LightInv
  <2>2. \A c \in Fading : fades[c].at \in 0..fades[c].dur /\ fades[c].target \in 0..Full
                          /\ fades[c].start \in 0..Full
    BY <2>1, RunningFades DEF Running
  <2> QED
    BY <2>1, <2>2 DEF LightTypeOK, TypeInv, Patches
<1> QED
  BY <1>1, <1>3, <1>4 DEF LightingSafety

\* Whatever the rig, the cues and the calls, and in whatever order they, the submitting
\* and the 40 Hz thread interleave: the slots of a parameter hold the latest value asked
\* of it once nothing is under way to it, fixtures between which the patch finds no
\* conflict share no slot, and the thread sends where the show says and is dark when the
\* handle says.  A Light Cue fired by go_cue asks for what it never submits.
THEOREM LightsAreSafe == "cart" \notin Firing => (LightSpec => []LightingSafety)
<1> SUFFICES ASSUME "cart" \notin Firing PROVE LightSpec => []LightingSafety
  OBVIOUS
<1>1. LightInit => LightInv
  BY InitStep
<1>2. LightInv /\ [LightNext]_lightVars => LightInv'
  BY NextStep
<1>3. LightInv => LightingSafety
  BY SafetyIs
<1> QED
  BY <1>1, <1>2, <1>3, PTL DEF LightSpec
=============================================================================
