------------------------------ MODULE Crossfade ------------------------------
(***************************************************************************)
(* Fade Cues and crossfades.  A Fade Cue runs on the event loop's ticks; a  *)
(* crossfade it asks for is a link on the slot of the incoming picture,     *)
(* whose clock starts with that picture's first frame and which the render  *)
(* thread drives.  The two clocks, the sound (moved by the Fade) and the    *)
(* pictures (moved by the output) have to stay together while the operator  *)
(* stops, pauses and starts either, and while pictures end by themselves.   *)
(*                                                                          *)
(* The slots are those of OutputSlots without their queueing: a picture is  *)
(* on a slot, is shown, is being stopped, is gone; every stop is a cut, and *)
(* pictures are neither paused nor preloaded here.  Levels (of a layer or   *)
(* of a sound) are none, part or full; a fade goes to none.  Time is counted *)
(* in Span steps per fade and stops mattering there; no fade has length 0.  *)
(* Bounds: LastVoice starts of pictures, MaxCalls calls of the operator.    *)
(***************************************************************************)
EXTENDS Naturals, Sequences, FiniteSets, SequencesExt, FiniteSetsExt

CONSTANTS Fade,        \* Fade Cues, a sequence: the order of the cue list
          Picture,     \* Video, Image and Camera Cues
          Plan,        \* what each Fade Cue does: Fade -> Plans
          Screen,      \* the output of each picture
          Slow,        \* the pictures with a pre-wait
          Span, LastVoice, MaxCalls

Fades == Range(Fade)
Nobody == "nobody"
Plans == [targets: SUBSET Picture, into: Picture \cup {Nobody}, waits: BOOLEAN, stops: BOOLEAN]
ASSUME CrossfadeAssumption ==
  /\ Span \in Nat \ {0} /\ LastVoice \in Nat /\ MaxCalls \in Nat
  /\ Fade \in Seq(Fades) /\ IsFiniteSet(Picture)
  /\ Plan \in [Fades -> Plans] /\ Slow \subseteq Picture /\ Nobody \notin Picture
  /\ DOMAIN Screen = Picture

Voice == 1..LastVoice
NoVoice  == 0
Level == {"none", "part", "full"}
\* A level that has gone k of Span steps of the way from none to full.
Scaled(full, k) == CASE k = 0 \/ full = "none" -> "none" [] k >= Span -> full [] OTHER -> "part"

VARIABLES
  fade,     \* the Fade Cues
  pic,      \* the visual cues: state, active_voice_id, in_pre_wait
  layer,    \* what the slots have for each voice
  next,     \* the next voice
  of,       \* the cue a voice was started for
  turn,     \* where the event loop is in its pass over the cues
  calls,
  past      \* history: see the properties
fadevars == <<fade, pic, layer, next, of, turn, calls, past>>

\* FadeCrossfade and CrossfadeLinked.
Plain == [is |-> "none", started |-> FALSE, voice |-> NoVoice, level |-> "none",
          targets |-> {}, sounds |-> {}]
Pending(started) == [Plain EXCEPT !.is = "pending", !.started = started]
\* FadeCue at rest.  clock, runs: action_elapsed, action_started_at is set.
Rest == [state |-> "standby", waits |-> FALSE, clock |-> 0, runs |-> FALSE, awaiting |-> FALSE,
         cross |-> Plain, targets |-> {}, done |-> FALSE]
\* CrossfadeLink with its DissolveClock.  since: the time since started_at.
NoLink == [is |-> FALSE, out |-> {}, revealed |-> FALSE, paused |-> FALSE, runs |-> FALSE,
           started |-> FALSE, done |-> 0, since |-> 0]
Gone == [on |-> FALSE, shown |-> FALSE, stopping |-> FALSE, opacity |-> "none", gain |-> "none",
         link |-> NoLink]

FadeInit ==
  /\ fade = [f \in Fades |-> Rest]
  /\ pic = [p \in Picture |-> [state |-> "standby", voice |-> NoVoice, waits |-> FALSE]]
  /\ layer = [v \in Voice |-> Gone]
  /\ next = 1 /\ of = [v \in Voice |-> Nobody] /\ turn = "idle" /\ calls = 0
  /\ past = [late |-> {}, missed |-> {}, left |-> {}, faded |-> {}, taken |-> {}, dull |-> {},
              dim |-> {}, spent |-> {}]

\* What the operators below change, as one value.
World == [fade |-> fade, pic |-> pic, layer |-> layer, next |-> next, of |-> of, past |-> past]

\* History.  faded: the pictures a Fade set out to darken itself; taken: those whose
\* sound a dissolve took; dull: those dissolved in with their sound already below its
\* level; dim: those a dissolve took before they were seen in full; spent: those it had
\* taken for good when the incoming picture left before the Fade had stopped them.
Dulled(w) == { f \in Fades : w.fade[f].cross.is = "linked" /\ w.fade[f].cross.level # "full" }
Forgone(old, w) == { v \in Voice : old.layer[v].link.done >= Span /\ ~w.layer[v].link.is }
Remembered(old, w) ==
  [w.past EXCEPT
     !.faded = @ \cup UNION { { t.voice : t \in w.fade[f].targets } : f \in Fades },
     !.taken = @ \cup UNION { { s.voice : s \in w.fade[f].cross.sounds } : f \in Fades },
     !.dull  = @ \cup { w.fade[f].cross.voice : f \in Dulled(w) },
     !.dim   = @ \cup UNION { { o.voice : o \in { o \in w.layer[v].link.out : o.from # "full" } }
                              : v \in Voice },
     !.spent = @ \cup UNION { { o.voice : o \in old.layer[v].link.out } : v \in Forgone(old, w) }]
Kept(old, w) == [w EXCEPT !.past = Remembered(old, w)]
Becomes(w) == /\ fade' = w.fade /\ pic' = w.pic /\ layer' = w.layer
              /\ next' = w.next /\ of' = w.of /\ past' = w.past
Does(w) == Becomes(Kept(World, w))

\* slot_for_voice.
OnSlot(w, v) == v # NoVoice /\ w.layer[v].on

---------------------------------------------------------------------------
(***************************************************************************)
(* The link of an incoming picture (crossfade.rs, slot.rs).                 *)
(***************************************************************************)
\* DissolveClock.
RunClock(l) == [l EXCEPT !.runs = TRUE, !.started = TRUE]
ClockReveal(l) == IF l.revealed THEN l
                  ELSE LET r == [l EXCEPT !.revealed = TRUE] IN IF l.paused THEN r ELSE RunClock(r)
ClockPause(l)  == [l EXCEPT !.paused = TRUE, !.runs = FALSE]
ClockResume(l) == IF ~l.paused THEN l
                  ELSE LET r == [l EXCEPT !.paused = FALSE] IN IF l.revealed THEN RunClock(r) ELSE r
Landed(l) == l.done >= Span
Phase(w, v) == IF ~OnSlot(w, v) \/ ~w.layer[v].link.is THEN "none"
               ELSE IF w.layer[v].link.started THEN "started" ELSE "waiting"
\* dissolves_on_its_output: something of it is mixed away where the incoming picture is.
Mixes(l) == \E o \in l.out : ~o.apart

\* Mutant of Abandoned: the outgoing pictures are left as they are.
AbandonedDark(w, l) == w
\* abandon_crossfade: before it landed, the pictures that faded on other outputs are
\* given their opacity back.
Abandoned(w, l) ==
  IF ~l.is \/ Landed(l) THEN w
  ELSE [w EXCEPT !.layer = [v \in Voice |->
          LET own == { o \in l.out : o.voice = v /\ o.apart }
          IN IF own # {} /\ @[v].on THEN [@[v] EXCEPT !.opacity = (CHOOSE o \in own : TRUE).from]
             ELSE @[v]]]

\* begin_stop without a fade.
BeginStop(w, v) ==
  IF ~OnSlot(w, v) THEN w
  ELSE Abandoned([w EXCEPT !.layer[v] = [@ EXCEPT !.stopping = TRUE, !.shown = TRUE,
                                                  !.opacity = "none", !.link = NoLink]],
                 w.layer[v].link)

\* A slot lets go of its content: vacate_after_end, or the end of a stop in tick_slot.
Leave(w, v) == Abandoned([w EXCEPT !.layer[v] = Gone], w.layer[v].link)

\* link_crossfade: the link waits for the reveal, or starts now if that has been.
LinkCrossfade(w, incoming, voices) ==
  LET out == { [voice |-> v, from |-> w.layer[v].opacity,
                apart |-> Screen[w.of[v]] # Screen[w.of[incoming]]] :
               v \in { u \in voices \ {incoming} : OnSlot(w, u) } }
      fresh == [NoLink EXCEPT !.is = TRUE, !.out = out]
      s == w.layer[incoming]
      linked == [s EXCEPT !.link = IF s.shown THEN ClockReveal(fresh) ELSE fresh,
                          !.opacity = IF ~s.shown THEN s.opacity
                                      ELSE IF Mixes(fresh) THEN "full" ELSE "none"]
  IN Abandoned([w EXCEPT !.layer[incoming] = linked], s.link)

\* hold_crossfade.
HoldCrossfade(w, v, paused) ==
  IF ~OnSlot(w, v) \/ ~w.layer[v].link.is THEN w
  ELSE [w EXCEPT !.layer[v].link = IF paused THEN ClockPause(@) ELSE ClockResume(@)]

\* release_crossfade: one that waits is cancelled, one that has started freezes.
ReleaseCrossfade(w, v) ==
  CASE Phase(w, v) = "waiting" ->
         LET s == w.layer[v]
         IN Abandoned([w EXCEPT !.layer[v] = [s EXCEPT !.link = NoLink,
                         !.opacity = IF s.link.revealed THEN "full" ELSE s.opacity]], s.link)
    [] Phase(w, v) = "started" -> [w EXCEPT !.layer[v].link = ClockPause(@)]
    [] OTHER -> w

---------------------------------------------------------------------------
(***************************************************************************)
(* The cues.                                                                *)
(***************************************************************************)
\* The action of a visual cue: its content is loaded, dark until its first frame.
StartPicture(w, p) ==
  [w EXCEPT !.pic[p] = [state |-> "running", voice |-> w.next, waits |-> FALSE],
            !.layer[w.next] = [Gone EXCEPT !.on = TRUE, !.gain = "full"],
            !.of[w.next] = p, !.next = @ + 1]

\* go of a visual cue, which starts if it is in ok.
GoPicture(w, p, ok) ==
  IF w.pic[p].state = "running" THEN w
  ELSE IF p \in Slow THEN [w EXCEPT !.pic[p] = [@ EXCEPT !.state = "running", !.waits = TRUE]]
  ELSE IF p \in ok /\ w.next <= LastVoice THEN StartPicture(w, p) ELSE w

\* stop, hard_stop.
StopPicture(w, p) ==
  BeginStop([w EXCEPT !.pic[p] = [state |-> "standby", voice |-> NoVoice, waits |-> FALSE]],
            w.pic[p].voice)

\* FadeCue::set_crossfade.
WithCross(r, cross) ==
  LET waits == cross.is # "none"
  IN [r EXCEPT !.cross = cross, !.awaiting = waits,
               !.runs = IF waits /\ ~r.awaiting THEN FALSE
                        ELSE IF ~waits /\ r.awaiting
                             THEN r.runs \/ (~r.waits /\ r.state = "running") ELSE r.runs,
               !.clock = IF waits /\ ~r.awaiting THEN 0 ELSE r.clock]
SetCrossfade(w, f, cross) == [w EXCEPT !.fade[f] = WithCross(w.fade[f], cross)]

\* set_plain_fade: what the Fade moves itself, each with the level it starts from.
SetPlainFade(w, f, skip) ==
  [w EXCEPT !.fade[f].targets =
     { [voice |-> w.pic[p].voice, gain |-> w.layer[w.pic[p].voice].gain,
        opacity |-> w.layer[w.pic[p].voice].opacity] :
       p \in { q \in Plan[f].targets \ skip : w.pic[q].voice # NoVoice } }]

GiveUp(w, f) == SetCrossfade(SetPlainFade(w, f, {Plan[f].into}), f, Plain)

\* link: the targets that show something are dissolved, the incoming sound is silenced.
Link(w, f) ==
  LET into == Plan[f].into
      incoming == w.pic[into].voice
      dissolved == { p \in Plan[f].targets \ {into} : w.pic[p].voice # NoVoice }
      sounds == { [voice |-> w.pic[p].voice, gain |-> w.layer[w.pic[p].voice].gain] :
                  p \in { q \in dissolved : OnSlot(w, w.pic[q].voice) } }
      silent == [LinkCrossfade(w, incoming, { w.pic[p].voice : p \in dissolved })
                   EXCEPT !.layer[incoming].gain = "none"]
  IN IF ~OnSlot(w, incoming) THEN GiveUp(w, f)
     ELSE SetCrossfade(SetPlainFade(silent, f, dissolved \cup {into}), f,
            [is |-> "linked", started |-> TRUE, voice |-> incoming, level |-> w.layer[incoming].gain,
             targets |-> dissolved, sounds |-> sounds])

\* The incoming cue, once started, is linked when it has a voice.
Asked(w, f) == [w EXCEPT !.fade[f].cross = Pending(TRUE)]
LinkOrWait(w, f) ==
  LET into == Plan[f].into IN
  IF w.pic[into].state # "running" THEN GiveUp(w, f)
  ELSE IF w.pic[into].voice = NoVoice THEN Asked(w, f) ELSE Link(Asked(w, f), f)

\* advance: the incoming cue is started, unless it plays already, and linked.
Advance(w, f, ok) ==
  LET r == w.fade[f]
      into == Plan[f].into
      begun == r.cross.started
  IN IF r.waits \/ r.cross.is # "pending" THEN w
     ELSE IF begun <=> w.pic[into].state = "running"
     THEN LinkOrWait(IF begun THEN w ELSE GoPicture(w, into, ok), f)
     ELSE GiveUp(w, f)

\* Transport::go of a Fade Cue: FadeCue::go, then on_fade_go.
Fired(f) == [Rest EXCEPT !.state = "running", !.waits = Plan[f].waits, !.runs = ~Plan[f].waits]
GoFade(w, f, ok) ==
  LET fresh == [w EXCEPT !.fade[f] = Fired(f)]
  IN IF Plan[f].into = Nobody THEN SetPlainFade(fresh, f, {})
     ELSE Advance(SetCrossfade(fresh, f, Pending(FALSE)), f, ok)

LinkedVoice(w, f) == IF w.fade[f].cross.is = "linked" THEN w.fade[f].cross.voice ELSE NoVoice

\* FadeCue::stop.  What it drives is forgotten by the next GO only.
Halted(r) == [r EXCEPT !.state = "standby", !.waits = FALSE, !.runs = FALSE, !.clock = 0]
StopFade(w, f) ==
  [ReleaseCrossfade(w, LinkedVoice(w, f)) EXCEPT !.fade[f] = Halted(w.fade[f])]

\* FadeCue::pause, resume.  A pre-wait starts again.
Paused(r) == [r EXCEPT !.state = "paused", !.runs = r.runs /\ r.waits]
PauseFade(w, f) ==
  [HoldCrossfade(w, LinkedVoice(w, f), TRUE) EXCEPT !.fade[f] = Paused(w.fade[f])]

\* A Fade that waits, or whose picture has yet to come, counts no time.
ClockRestarts(r) == ~r.waits /\ ~r.awaiting
Resumed(r) == [r EXCEPT !.state = "running", !.runs = r.runs \/ ClockRestarts(r),
                        !.clock = IF r.waits THEN 0 ELSE r.clock]
ResumeFade(w, f) ==
  [HoldCrossfade(w, LinkedVoice(w, f), FALSE) EXCEPT !.fade[f] = Resumed(w.fade[f])]

---------------------------------------------------------------------------
(***************************************************************************)
(* FadeCue::tick.                                                           *)
(***************************************************************************)
Underway(r, since) == [r EXCEPT !.awaiting = FALSE, !.runs = TRUE, !.clock = since]
\* Mutant of PictureArrived: a link that is gone is waited for.
PictureArrivedOrNot(w, f) ==
  LET v == w.fade[f].cross.voice IN
  IF Phase(w, v) # "started" THEN w
  ELSE [w EXCEPT !.fade[f] = Underway(w.fade[f], w.layer[v].link.since)]
\* picture_arrived: the clock starts where the dissolve did; a link that is gone is
\* handed back to the show layer.
PictureArrived(w, f) ==
  LET v == w.fade[f].cross.voice IN
  CASE Phase(w, v) = "started" ->
         [w EXCEPT !.fade[f] = Underway(w.fade[f], w.layer[v].link.since)]
    [] Phase(w, v) = "none" -> Asked(w, f)
    [] OTHER -> w

\* drop_abandoned_crossfade.
DropAbandoned(w, f) ==
  IF w.fade[f].cross.is = "linked" /\ Phase(w, w.fade[f].cross.voice) = "none"
  THEN [w EXCEPT !.fade[f].cross = Plain] ELSE w

\* Mutant of Moves: the last step of the fade is not taken.
MovesButLast(k) == k < Span
Moves(k) == TRUE
\* The levels after k steps: the plain targets, the outgoing sounds, the incoming one.
LevelsAfter(l, r, v, k) ==
  LET plain == { t \in r.targets : t.voice = v }
      falls == { s \in r.cross.sounds : s.voice = v }
      t == CHOOSE t \in plain : TRUE
      s == CHOOSE s \in falls : TRUE
  IN IF ~l.on THEN l
     ELSE IF r.cross.is = "linked" /\ r.cross.voice = v
     THEN [l EXCEPT !.gain = Scaled(r.cross.level, k)]
     ELSE IF falls # {} THEN [l EXCEPT !.gain = Scaled(s.gain, Span - k)]
     ELSE IF plain # {} THEN [l EXCEPT !.gain = Scaled(t.gain, Span - k),
                                       !.opacity = Scaled(t.opacity, Span - k)]
     ELSE l
SetLevels(w, f, k) ==
  IF Moves(k) THEN [w EXCEPT !.layer = [v \in Voice |-> LevelsAfter(w.layer[v], w.fade[f], v, k)]] ELSE w

\* queue_stops_at_end: what was dissolved away, and with stop_at_end every target.
StopsAtEnd(w, f) ==
  LET r == w.fade[f]
  IN ((IF r.cross.is = "linked" THEN r.cross.targets ELSE {}) \cup
      (IF Plan[f].stops THEN Plan[f].targets ELSE {})) \ {Plan[f].into}

\* The tick proper: [w, stops] with the cues it queues for a stop.
FadeAction(w, f) ==
  LET k == w.fade[f].clock
      w1 == IF k < Span THEN DropAbandoned(w, f) ELSE w
      w2 == SetLevels(w1, f, k)
      ends == k >= Span /\ ~w.fade[f].done
  IN IF ~w.fade[f].runs \/ (w.fade[f].targets = {} /\ w.fade[f].cross.is # "linked")
     THEN [w |-> w, stops |-> {}]
     ELSE [w |-> IF ends THEN [w2 EXCEPT !.fade[f].done = TRUE] ELSE w2,
           stops |-> IF ends THEN StopsAtEnd(w1, f) ELSE {}]

\* A pre-wait lasts one step of time.
Waited(r) == IF r.clock = 0 THEN r
             ELSE [r EXCEPT !.waits = FALSE, !.runs = ~r.awaiting, !.clock = 0]
TickFade(w, f) ==
  LET r == w.fade[f]
      w1 == IF r.awaiting /\ r.cross.is = "linked" THEN PictureArrived(w, f) ELSE w
  IN IF r.state # "running" THEN [w |-> w, stops |-> {}]
     ELSE IF r.waits THEN [w |-> [w EXCEPT !.fade[f] = Waited(r)], stops |-> {}]
     ELSE IF w1.fade[f].awaiting THEN [w |-> w1, stops |-> {}] ELSE FadeAction(w1, f)

---------------------------------------------------------------------------
(***************************************************************************)
(* The event loop: the cues are ticked, the crossfades that wait go on,     *)
(* what finished fades queued is stopped; then what is over is reaped.      *)
(***************************************************************************)
\* What a tick leaves, after the first i of the Fades.
Ticked[i \in 0..Len(Fade)] ==
  IF i = 0 THEN [w |-> World, stops |-> {}]
  ELSE LET a == Ticked[i - 1]
           t == TickFade(a.w, Fade[i])
       IN  [w |-> Kept(a.w, t.w), stops |-> a.stops \cup t.stops]
Pushed(w, f, ok) == IF w.fade[f].state = "running" THEN Kept(w, Advance(w, f, ok)) ELSE w
PushedOn(w, ok) ==
  LET a[i \in 0..Len(Fade)] == IF i = 0 THEN w ELSE Pushed(a[i - 1], Fade[i], ok)
  IN  a[Len(Fade)]
Silenced(w, p) == IF w.pic[p].state = "running" THEN Kept(w, StopPicture(w, p)) ELSE w
Stopped(w, cues) ==
  LET s[i \in 0..Len(cues)] == IF i = 0 THEN w ELSE Silenced(s[i - 1], cues[i])
  IN  s[Len(cues)]
LoopTick(ok) ==
  /\ turn = "idle" /\ turn' = "ticked"
  /\ LET ticked == Ticked[Len(Fade)]
     IN  Becomes(Stopped(PushedOn(ticked.w, ok), SetToSeq(ticked.stops)))
  /\ UNCHANGED calls

\* The sound a Fade brings in.  One that is stopped, or fired again, leaves it where
\* it is.
Sounds(f) == {LinkedVoice(World, f)} \ {NoVoice}
\* Done by the clock, or its content has ended.
FadeOver(f) == fade[f].state = "running" /\ ~fade[f].waits /\ fade[f].clock >= Span
PictureOver(p) == /\ pic[p].state = "running" /\ ~pic[p].waits
                  /\ pic[p].voice # NoVoice /\ ~layer[pic[p].voice].on
Reap ==
  /\ turn = "ticked" /\ turn' = "idle"
  /\ fade' = [f \in Fades |-> IF FadeOver(f) THEN Rest ELSE fade[f]]
  /\ pic' = [p \in Picture |-> IF PictureOver(p)
                               THEN [state |-> "standby", voice |-> NoVoice, waits |-> FALSE] ELSE pic[p]]
  /\ past' = [past EXCEPT
       !.missed = @ \cup UNION { Sounds(f) \cup { s.voice : s \in fade[f].cross.sounds } : f \in { g \in Fades : FadeOver(g) /\ ~fade[g].done } }]
  /\ UNCHANGED <<layer, next, of, calls>>

\* The pre-wait of a picture is over, in the loop's tick of it.
PictureStarts(p) ==
  /\ turn = "idle" /\ pic[p].state = "running" /\ pic[p].waits
  /\ \/ /\ next <= LastVoice
        /\ Does(StartPicture(World, p))
     \/ /\ pic' = [pic EXCEPT ![p] = [@ EXCEPT !.state = "standby", !.waits = FALSE]]
        /\ next' = IF next <= LastVoice THEN next + 1 ELSE next
        /\ UNCHANGED <<fade, layer, of, past>>
  /\ UNCHANGED <<turn, calls>>

---------------------------------------------------------------------------
(***************************************************************************)
(* The operator; the output's threads; time.                                *)
(***************************************************************************)
Command == turn = "idle" /\ calls < MaxCalls /\ calls' = calls + 1 /\ UNCHANGED turn

FireFade(f, ok) ==
  /\ Command
  /\ Does(GoFade([World EXCEPT !.past.left = @ \cup Sounds(f)], f, ok))
Stop(f) ==
  /\ Command /\ fade[f].state # "standby"
  /\ Does([StopFade(World, f) EXCEPT !.past.left = @ \cup Sounds(f)])
\* A pause between the first frame and the tick that would have seen it.
Late(f) == IF fade[f].awaiting /\ Phase(World, LinkedVoice(World, f)) = "started" THEN Sounds(f) ELSE {}
Pause(f) ==
  /\ Command /\ fade[f].state = "running"
  /\ Does([PauseFade(World, f) EXCEPT !.past.late = @ \cup Late(f)])
\* A Resume takes back a Pause, which was counted.
Resume(f) ==
  /\ turn = "idle" /\ UNCHANGED <<turn, calls>>
  /\ fade[f].state = "paused" /\ Does(ResumeFade(World, f))
GoCue(p) ==
  /\ turn = "idle" /\ next <= LastVoice /\ UNCHANGED <<turn, calls>>
  /\ GoPicture(World, p, {p}) # World /\ Does(GoPicture(World, p, {p}))
StopCue(p) ==
  /\ Command /\ pic[p].state = "running" /\ Does(StopPicture(World, p))

\* reveal: the first frame is there; a linked picture starts its dissolve with it.
Reveal(v) ==
  LET l == layer[v] IN
  /\ l.on /\ ~l.shown
  /\ layer' = [layer EXCEPT ![v] = [l EXCEPT !.shown = TRUE,
       !.link = IF l.link.is THEN ClockReveal(@) ELSE @,
       !.opacity = IF l.link.is /\ ~Mixes(l.link) THEN "none" ELSE "full"]]
  /\ UNCHANGED <<fade, pic, next, of, turn, calls, past>>

\* The file ends, or its slot is taken by other content.
ContentEnds(v) ==
  /\ layer[v].on /\ ~layer[v].stopping /\ calls < MaxCalls /\ calls' = calls + 1
  /\ Does(Leave(World, v)) /\ UNCHANGED turn

\* tick_slot: a stop that has landed releases the slot.  One whose picture was lit again
\* meanwhile (by a fade that moves it, or a crossfade given up) waits until it is dark.
Released(v) ==
  /\ layer[v].on /\ layer[v].stopping /\ layer[v].opacity = "none" /\ Does(Leave(World, v))
  /\ UNCHANGED <<turn, calls>>

\* drive_crossfade.
DriveCrossfade(v) ==
  LET l == layer[v].link
      away == { o \in l.out : layer[o.voice].on }
      from(u) == (CHOOSE o \in l.out : o.voice = u).from
  IN
  /\ layer[v].on /\ l.is /\ l.started
  /\ layer' = [u \in Voice |->
       IF u = v
       THEN [layer[v] EXCEPT !.opacity = IF Mixes(l) THEN @ ELSE Scaled("full", l.done),
                             !.link = IF Landed(l) /\ away = {} THEN NoLink ELSE @]
       ELSE IF \E o \in away : o.voice = u /\ o.apart
            THEN [layer[u] EXCEPT !.opacity = Scaled(from(u), Span - l.done)]
       ELSE layer[u]]
  /\ UNCHANGED <<fade, pic, next, of, turn, calls, past>>

\* Time passes, for every clock that runs.
Counted(k) == IF k < Span THEN k + 1 ELSE k
FadeLater(r) == IF r.state = "running" /\ (r.runs \/ r.waits)
                THEN [r EXCEPT !.clock = Counted(r.clock)] ELSE r
LinkLater(l) == [l EXCEPT !.done = IF l.runs THEN Counted(l.done) ELSE l.done,
                          !.since = IF l.started THEN Counted(l.since) ELSE l.since]
Elapse ==
  /\ fade' = [f \in Fades |-> FadeLater(fade[f])]
  /\ layer' = [v \in Voice |-> [layer[v] EXCEPT !.link = LinkLater(layer[v].link)]]
  /\ <<fade, layer>>' # <<fade, layer>>
  /\ UNCHANGED <<pic, next, of, turn, calls, past>>

FadeStep(f) == \/ \E ok \in SUBSET {Plan[f].into} : FireFade(f, ok)
               \/ Stop(f) \/ Pause(f) \/ Resume(f)
OutputStep(v) == Reveal(v) \/ ContentEnds(v) \/ Released(v) \/ DriveCrossfade(v)
Tick == \E ok \in SUBSET { Plan[f].into : f \in { g \in Fades : fade[g].cross.is = "pending" } } :
          LoopTick(ok)
FadeNext ==
  \/ \E f \in Fades : FadeStep(f)
  \/ \E p \in Picture : GoCue(p) \/ StopCue(p) \/ PictureStarts(p)
  \/ \E v \in Voice : OutputStep(v)
  \/ Tick \/ Reap \/ Elapse
FadeSpec == FadeInit /\ [][FadeNext]_fadevars

\* The loop makes its pass again and again and so ends the pre-waits (both are stated
\* as what they bring about), time passes, first frames come (there is a watchdog), and
\* the render thread draws and finishes its stops.
FadeFairness ==
  /\ []<>(turn = "ticked") /\ []<>(turn = "idle") /\ WF_fadevars(Elapse)
  /\ \A p \in Picture : []<>~pic[p].waits
  /\ \A v \in Voice :
       WF_fadevars(Reveal(v)) /\ WF_fadevars(DriveCrossfade(v)) /\ WF_fadevars(Released(v))
FairFadeSpec == FadeSpec /\ FadeFairness

---------------------------------------------------------------------------
FadeTypes ==
  /\ fade \in [Fades -> [state: {"standby", "running", "paused"}, waits: BOOLEAN, clock: 0..Span,
                         runs: BOOLEAN, awaiting: BOOLEAN, done: BOOLEAN,
                         cross: [is: {"none", "pending", "linked"}, started: BOOLEAN,
                                 voice: 0..LastVoice, level: Level, targets: SUBSET Picture,
                                 sounds: SUBSET [voice: Voice, gain: Level]],
                         targets: SUBSET [voice: Voice, gain: Level, opacity: Level]]]
  /\ pic \in [Picture -> [state: {"standby", "running"}, voice: 0..LastVoice, waits: BOOLEAN]]
  /\ \A v \in Voice :
       /\ layer[v].opacity \in Level /\ layer[v].gain \in Level
       /\ layer[v].link.done \in 0..Span /\ layer[v].link.since \in 0..Span
       /\ \A o \in layer[v].link.out : o.voice \in Voice \ {v} /\ o.from \in Level
       /\ layer[v].on \/ layer[v] = Gone
  /\ next \in 1..(LastVoice + 1) /\ turn \in {"idle", "ticked"} /\ calls \in 0..MaxCalls

\* "The action clock then starts on that very frame, so sound and picture move
\* together": while a Fade drives a dissolve its clock, which moves the sound, is the
\* clock of the dissolve.  (One paused between the first frame and the tick that sees
\* it runs ahead by the length of that pause.)
InStep ==
  \A f \in Fades :
    LET v == LinkedVoice(World, f) IN
    /\ fade[f].state # "standby" /\ v # NoVoice /\ ~fade[f].awaiting /\ Phase(World, v) = "started"
    => fade[f].clock = layer[v].link.done \/ v \in past.late

\* A picture that is on its output and not being stopped is seen in full, unless
\* something is still at work on it: a dissolve (its own, or one on another output that
\* takes it away), or a plain fade.  A crossfade that is given up gives back what it
\* took, unless it took it before its first frame, or was over before the Fade saw it.
NothingLeftDim ==
  \A p \in Picture : LET v == pic[p].voice IN
    pic[p].state = "running" /\ v # NoVoice /\ layer[v].shown /\ ~layer[v].stopping =>
      \/ layer[v].opacity = "full" \/ v \in past.faded \cup past.dim \cup past.spent
      \/ layer[v].link.is \/ \E u \in Voice : \E o \in layer[u].link.out : o.voice = v

\* The sound of a picture that was dissolved in is heard in full in the end: it is
\* below its level only while the Fade that silenced it has its link, unless that Fade
\* was stopped or fired again, or reaped before its last tick.  (What was dissolved away
\* is left where the Fade dropped it, and so is what a plain fade took; and what was
\* already below its level when it was linked comes back to that.)
SoundComes ==
  \A v \in Voice : layer[v].on /\ ~layer[v].stopping /\ layer[v].gain # "full" =>
    \/ \E f \in Fades : /\ fade[f].state # "standby"
                        /\ v \in Sounds(f)
    \/ v \in past.left \cup past.missed \cup past.faded \cup past.taken \cup past.dull

\* A running Fade comes to its end, whatever becomes of the picture it waits for, or a
\* whole dissolve goes by between two ticks: with nothing to take away its link is then
\* dropped unseen, and the Fade starts it again.
GoneUnseen(f) == fade[f].awaiting /\ fade[f].cross.is = "linked" /\ Landed(layer[fade[f].cross.voice].link)
FadeEnds == \A f \in Fades : fade[f].state = "running" ~> fade[f].state # "running" \/ GoneUnseen(f)

\* The safety of a Fade, in one: sound and picture keep together, and nothing is left
\* in the dark.
FadeSafety == FadeTypes /\ InStep /\ NothingLeftDim
=============================================================================
