----------------------------- MODULE GroupCue -----------------------------
(***************************************************************************)
(* A Group Cue of the list: how it fires its children (at once, in          *)
(* sequence, as a playlist, at random), keeps the playhead while it has     *)
(* some left to fire, and completes.  The children are Audio, Wait and      *)
(* Memo Cues with the life cycle of CueRuntime.                             *)
(*                                                                          *)
(* What a call does is a composition of operators from a stage (the group,  *)
(* the children and their voices) to a stage.  Child c plays on the voice   *)
(* c: the fade-out of an earlier play is not followed once a new one has    *)
(* begun.                                                                   *)
(***************************************************************************)
EXTENDS CueRuntime

CONSTANTS N,          \* the children are 1..N, in the order they are listed
          Groups,     \* the groups considered
          Operator,   \* the commands the operator uses
          MaxPresses  \* commands in a behaviour

GroupModes   == {"simultaneous", "sequential", "playlist", "random"}
GroupCommands == {"go", "stop", "hard_stop", "pause", "resume", "park"}

GroupDef == [mode: GroupModes, loop: BOOLEAN, pre: BOOLEAN, kids: [Cue -> CueDef]]

ASSUME ChildAssumption == N \in Nat \ {0} /\ Cue = 1..N /\ Voice = Cue
ASSUME GroupAssumption == Groups \subseteq GroupDef
ASSUME PressAssumption == Operator \subseteq GroupCommands /\ MaxPresses \in Nat

VARIABLES
  def,      \* the group, fixed over a behaviour
  group,    \* its runtime fields
  kid,      \* the runtime of every child
  eng,      \* the state of every child's voice in the engine
  statusQ,  \* Completed statuses in the engine's ring
  drained,  \* the completed_voice_ids of this tick
  pc,       \* the tick: "idle" or "drained"
  here,     \* the playhead is on the group (else on a later cue)
  presses   \* commands used so far

vars == <<def, group, kid, eng, statusQ, drained, pc, here, presses>>

\* current: seq_current_id (0 is None); done: seq_done; wait: seq_post_wait_until;
\* pre: in_pre_wait, ripe once it is over; bag: random_bag; random:
\* random_current_idx.
GroupRuntime == [state: States \ {"completed"}, pre: BOOLEAN, ripe: BOOLEAN, current: 0..N,
                 done: BOOLEAN, wait: {"none", "waiting", "due"},
                 bag: SUBSET Cue, random: 0..N]

Rest == [state |-> "standby", pre |-> FALSE, ripe |-> FALSE, current |-> 0,
         done |-> FALSE, wait |-> "none", bag |-> {}, random |-> 0]

TypeOK ==
  /\ def \in GroupDef /\ group \in GroupRuntime
  /\ kid \in [Cue -> Runtime] /\ eng \in [Voice -> VoiceStates]
  /\ statusQ \subseteq Voice /\ drained \subseteq Voice
  /\ pc \in {"idle", "drained"} /\ here \in BOOLEAN
  /\ presses \in 0..MaxPresses

Init ==
  /\ def \in Groups /\ group = Rest
  /\ kid = [c \in Cue |-> Idle] /\ eng = [v \in Voice |-> "free"]
  /\ statusQ = {} /\ drained = {} /\ pc = "idle"
  /\ here = TRUE /\ presses = 0

---------------------------------------------------------------------------
\* Calls on children.

Stage == [group |-> group, kid |-> kid, eng |-> eng, queue |-> statusQ, seen |-> drained]

Ready(c) == def.kids[c].media = "ready"

Starts(s, c, op) == Submits(op, s.kid[c], def.kids[c], Ready(c))

\* ops[c] is called on every child c.  A new play forgets the status of the last.
Do(s, ops) ==
  LET new == {c \in Cue : Starts(s, c, ops[c])}
  IN  [s EXCEPT
        !.kid = [c \in Cue |-> After(ops[c], s.kid[c], def.kids[c], Ready(c), c)],
        !.eng = [c \in Cue |-> IF c \in new THEN "playing"
                               ELSE IF s.kid[c].voice = c
                               THEN EngineAfter(ops[c], s.kid[c], s.eng[c])
                               ELSE s.eng[c]],
        !.queue = @ \ new, !.seen = @ \ new]

On(set, op) == [c \in Cue |-> IF c \in set THEN op ELSE "none"]

In(s, states) == {c \in Cue : s.kid[c].state \in states}
Active(s)     == In(s, {"running", "paused"})

\* go() returns an error: no samples.
Fails(s, c) ==
  /\ def.kids[c].kind = "audio" /\ s.kid[c].state # "running"
  /\ ~def.kids[c].pre /\ ~Ready(c)

---------------------------------------------------------------------------
\* The sequence.

HasNext(g) == g.current < N

\* Auto-Follow: the next child is fired with this one, unless it is in pre-wait.
Pulls(s, c) ==
  /\ def.mode # "playlist" /\ def.kids[c].mode = "follow" /\ ~Fails(s, c)
  /\ ~After("go", s.kid[c], def.kids[c], Ready(c), c).pre

\* The child at which the firing that begins at c stops; N + 1 when it runs off.
ChainEnd(s, c) ==
  CHOOSE e \in c..(N + 1) : /\ \A k \in c..(e - 1) : Pulls(s, k)
                            /\ e = N + 1 \/ ~Pulls(s, e)

\* Mutant of StopOthers: a paused child is let be.
StopOthersRunning(s, c) == Do(s, On(In(s, {"running"}) \ {c}, "stop"))

\* The exclusivity of a playlist.
StopOthers(s, c) == Do(s, On(Active(s) \ {c}, "stop"))

FireFrom(s, c) ==
  LET last  == ChainEnd(s, c)
      fired == Do(s, On((c..last) \cap Cue, "go"))
      moved == [fired EXCEPT !.group.current = IF last > N THEN N ELSE last,
                             !.group.done = @ \/ last > N \/ Fails(s, last)]
  IN  IF def.mode = "playlist" /\ ~Fails(s, last) THEN StopOthers(moved, c) ELSE moved

\* A looping playlist wraps.
FireNext(s) ==
  CASE HasNext(s.group)                    -> FireFrom(s, s.group.current + 1)
    [] ~HasNext(s.group) /\ def.mode = "playlist" /\ def.loop -> FireFrom(s, 1)
    [] OTHER                               -> [s EXCEPT !.group.done = TRUE]

\* The children drawn before any repeats.
Draws(g) == IF g.bag = {} THEN Cue ELSE g.bag

FireRandom(s, c) ==
  LET fired == Do(s, On({c}, "go"))
  IN  [fired EXCEPT !.group.bag = Draws(s.group) \ {c},
                    !.group.random = IF Fails(s, c) THEN 0 ELSE c]

---------------------------------------------------------------------------
\* The life cycle of the group; c is the child a random group draws.

StartAction(s, c) ==
  LET begun == [s EXCEPT !.group.pre = FALSE, !.group.ripe = FALSE,
                         !.group.state = "running",
                         !.group.done = FALSE, !.group.wait = "none"]
  IN  CASE def.mode = "simultaneous"           -> Do(begun, On(Cue, "go"))
        [] def.mode \in {"sequential", "playlist"} -> FireNext(begun)
        [] def.mode = "random"                 -> FireRandom(begun, c)

\* A running group that is past its pre-wait takes a GO as the next child's.
GroupGo(s, c) ==
  LET g == s.group
      started == g.state = "running" /\ ~g.pre
  IN  CASE started /\ def.mode \in {"sequential", "playlist"} /\ (g.current # 0 \/ g.done)
             -> FireNext([s EXCEPT !.group.done = FALSE])
        [] started /\ def.mode = "random" -> FireRandom(s, c)
        [] OTHER
             -> IF def.pre
                THEN [s EXCEPT !.group.state = "running",
                               !.group.pre = TRUE, !.group.ripe = FALSE]
                ELSE StartAction(s, c)

GroupReset(s) == [Do(s, On(Cue, "reset")) EXCEPT !.group = Rest]

GroupStop(s, op) == GroupReset(Do(s, On(Active(s), op)))

GroupPause(s) == [Do(s, On(In(s, {"running"}), "pause")) EXCEPT !.group.state = "paused"]

GroupResume(s) == [Do(s, On(In(s, {"paused"}), "resume")) EXCEPT !.group.state = "running"]

\* The inner playhead is put before child c, to wait for a GO.
SetActiveChild(s, c) ==
  IF def.mode \in {"sequential", "playlist"}
  THEN [s EXCEPT !.group.current = c - 1, !.group.done = TRUE, !.group.wait = "none"]
  ELSE s

---------------------------------------------------------------------------
\* The tick of the group.

\* A tick that fails (no samples at the end of a pre-wait) ends the pass there.
Ticked(s) ==
  LET running == In(s, {"running"})
      failing == {c \in running : /\ s.kid[c].pre /\ "pre" \in s.kid[c].ripe
                                  /\ ~Ready(c)}
  IN  {c \in running : \A f \in failing : c < f}

PassFails(s) == Ticked(s) # In(s, {"running"})

\* Mutant of TimeDone: a child with a voice is completed by its voice alone.
TimeDoneOfWaits(s, c) == "end" \in s.kid[c].ripe /\ def.kids[c].kind = "wait"

\* duration() is known and the action clock has reached it.
TimeDone(s, c) ==
  /\ "end" \in s.kid[c].ripe
  /\ \/ def.kids[c].kind = "wait"
     \/ def.kids[c].kind = "audio" /\ def.kids[c].length # "loop"

\* Mutant of Boundary: the sequence goes on whether it was told to wait or not.
BoundaryIgnored(g) == FALSE

\* The sequence is held where it is until a GO.
Boundary(g) == g.done

\* The driver of the sequence is over: what its Continue Mode asks for.
Advance(s) ==
  LET g    == s.group
      d    == def.kids[g.current]
      over == Do(s, On({g.current}, "reset"))
      wait == d.post /\ (def.mode = "playlist" \/ d.mode = "continue")
  IN  CASE def.mode = "sequential" /\ d.mode = "none" -> [over EXCEPT !.group.done = TRUE]
        [] wait -> [over EXCEPT !.group.wait = "waiting"]
        [] OTHER -> FireNext(over)

TickSequence(s) ==
  LET ticked   == Do(s, On(Ticked(s), "tick"))
      finished == {c \in Ticked(s) : TimeDone(ticked, c)}
      swept    == Do(ticked, On(finished \ {s.group.current}, "reset"))
      over     == \/ s.group.current \in finished
                  \/ s.group.current # 0
                     /\ swept.kid[s.group.current].state \in {"standby", "completed"}
  IN  CASE PassFails(s) -> swept
        [] ~PassFails(s) /\ s.group.wait = "due"
             -> FireNext([swept EXCEPT !.group.wait = "none"])
        [] ~PassFails(s) /\ s.group.wait = "none" /\ over /\ ~Boundary(s.group)
             -> Advance(swept)
        [] OTHER -> swept

TickAll(s) ==
  LET ticked == Do(s, On(Ticked(s), "tick"))
      finished == {c \in Ticked(s) : TimeDone(ticked, c)}
  IN  [Do(ticked, On(finished, "reset")) EXCEPT
         !.group.random = IF def.mode = "random" /\ @ \in finished THEN 0 ELSE @]

Tick(s, c) ==
  CASE s.group.state # "running" -> s
    [] s.group.state = "running" /\ s.group.pre
         -> IF s.group.ripe THEN StartAction(s, c) ELSE s
    [] s.group.state = "running" /\ ~s.group.pre
         -> IF def.mode \in {"sequential", "playlist"} THEN TickSequence(s) ELSE TickAll(s)

---------------------------------------------------------------------------
\* What the transport and the loop ask of the group.

Started(g) == g.state = "running" /\ ~g.pre
Ordered    == def.mode \in {"sequential", "playlist"}
Loops      == def.mode = "playlist" /\ def.loop

AbsorbsGo(g) == /\ Started(g)
                /\ \/ def.mode = "random" \/ Loops
                   \/ Ordered /\ HasNext(g)

HoldsPlayhead(g) == /\ g.state = "running"
                    /\ \/ def.mode = "random" \/ Loops
                       \/ Ordered /\ (g.pre \/ HasNext(g))

ReleasedPlayhead(g) == Started(g) /\ Ordered /\ ~Loops /\ g.current # 0 /\ ~HasNext(g)

IsComplete(s) ==
  /\ Started(s.group) /\ In(s, {"running"}) = {}
  /\ Ordered => ~Loops /\ s.group.done /\ ~HasNext(s.group)
  /\ def.mode = "random" => s.group.random = 0

Becomes(s) ==
  /\ group' = s.group /\ kid' = s.kid /\ eng' = s.eng
  /\ statusQ' = s.queue /\ drained' = s.seen

---------------------------------------------------------------------------
\* Commands.

Press(name) ==
  /\ name \in Operator /\ presses < MaxPresses
  /\ presses' = presses + 1

\* GO with the playhead on the group: absorbed, or the playhead moves on and comes
\* back while the group has children left to fire.
Go ==
  /\ Press("go") /\ here
  /\ \E c \in Draws(group) :
       LET s == GroupGo(Stage, c)
       IN  /\ Becomes(s)
           /\ here' = IF AbsorbsGo(group) THEN ~ReleasedPlayhead(s.group)
                                          ELSE HoldsPlayhead(s.group)
  /\ UNCHANGED <<def, pc>>

Stop(op) ==
  /\ Press(op)
  /\ Becomes(GroupStop(Stage, op))
  /\ UNCHANGED <<def, pc, here>>

Pause ==
  /\ Press("pause")
  /\ Becomes(GroupPause(Stage))
  /\ UNCHANGED <<def, pc, here>>

Resume ==
  /\ Press("resume")
  /\ Becomes(GroupResume(Stage))
  /\ UNCHANGED <<def, pc, here>>

\* set_playhead on a child.
Park(c) ==
  /\ Press("park")
  /\ Becomes(SetActiveChild(Stage, c))
  /\ here' = TRUE
  /\ UNCHANGED <<def, pc>>

---------------------------------------------------------------------------
\* The event loop.

DrainStatus ==
  /\ pc = "idle" /\ pc' = "drained"
  /\ drained' = statusQ /\ statusQ' = {}
  /\ UNCHANGED <<def, group, kid, eng, here, presses>>

\* A command holds the workspace.
SkipTick ==
  /\ pc = "drained" /\ pc' = "idle" /\ drained' = {}
  /\ UNCHANGED <<def, group, kid, eng, statusQ, here, presses>>

\* Mutant of Onward: only a GO moves the playhead on.
OnwardByGoOnly(s) == FALSE

\* The last child was fired by the tick: the playhead moves on.
Onward(s) == here /\ ReleasedPlayhead(s.group)

\* Children whose voice has ended are reset, whatever the group was told.
Reap(s) ==
  Do(s, On({c \in In(s, {"running"}) : s.kid[c].voice \in s.seen}, "reset"))

\* The rest of the pass, after the group's own tick: children whose voice has ended, the
\* Playhead, and the completion of the group.
Passes(ticked) ==
  LET reaped == Reap(ticked)
      over   == IsComplete(reaped)
  IN  /\ Becomes([(IF over THEN GroupReset(reaped) ELSE reaped) EXCEPT !.seen = {}])
      /\ here' = (here /\ ~Onward(ticked) /\ ~(over /\ HoldsPlayhead(reaped.group)))

LoopTick ==
  /\ pc = "drained" /\ pc' = "idle"
  /\ \E c \in Draws(group) : Passes(Tick(Stage, c))
  /\ UNCHANGED <<def, presses>>

---------------------------------------------------------------------------
\* The audio callback and the clocks.

VoiceEnds(c) ==
  /\ \/ eng[c] = "fading"
     \/ eng[c] = "playing" /\ def.kids[c].length = "finite"
  /\ eng' = [eng EXCEPT ![c] = "stopped"]
  /\ statusQ' = statusQ \cup {c}
  /\ UNCHANGED <<def, group, kid, drained, pc, here, presses>>

\* The clocks something reads.
Clocked(c, due) ==
  CASE due = "pre"  -> kid[c].pre
    [] due = "post" -> FALSE
    [] due = "end"  -> kid[c].acting /\ def.kids[c].length # "loop"

Elapse(c, due) ==
  /\ kid[c].state = "running" /\ Clocked(c, due) /\ due \notin kid[c].ripe
  /\ kid' = [kid EXCEPT ![c].ripe = @ \cup {due}]
  /\ UNCHANGED <<def, group, eng, statusQ, drained, pc, here, presses>>

PreWaitOver ==
  /\ group.pre /\ ~group.ripe
  /\ group' = [group EXCEPT !.ripe = TRUE]
  /\ UNCHANGED <<def, kid, eng, statusQ, drained, pc, here, presses>>

PostWaitOver ==
  /\ group.wait = "waiting"
  /\ group' = [group EXCEPT !.wait = "due"]
  /\ UNCHANGED <<def, kid, eng, statusQ, drained, pc, here, presses>>

---------------------------------------------------------------------------
Next ==
  \/ Go \/ Pause \/ Resume \/ Stop("stop") \/ Stop("hard_stop")
  \/ DrainStatus \/ SkipTick \/ LoopTick \/ PreWaitOver \/ PostWaitOver
  \/ \E c \in Cue : Park(c) \/ VoiceEnds(c) \/ \E due \in Due : Elapse(c, due)

Spec == Init /\ [][Next]_vars

(***************************************************************************)
(* Time passes, voices end, and the loop ticks: a tick is given up when a   *)
(* command holds the workspace, but not every tick from some point on.      *)
(***************************************************************************)
Fairness ==
  /\ WF_vars(DrainStatus) /\ []<><<LoopTick>>_vars
  /\ WF_vars(PreWaitOver) /\ WF_vars(PostWaitOver)
  /\ \A c \in Cue : WF_vars(VoiceEnds(c)) /\ \A due \in Due : WF_vars(Elapse(c, due))

FairSpec == Spec /\ Fairness

---------------------------------------------------------------------------
\* A playlist plays one child at a time, whatever the operator and the loop do.
PlaylistExclusive == def.mode = "playlist" => Cardinality(Active(Stage)) <= 1

\* A voice that would play for ever belongs to a child that a stop of the group
\* reaches: the child is active, and so is the group.
LoopsReachable ==
  \A c \in Cue : eng[c] = "playing" /\ def.kids[c].length = "loop"
    => /\ kid[c].voice = c /\ kid[c].state \in {"running", "paused"}
       /\ group.state # "standby"

\* The playhead is not left on a group that has fired its last child, where a GO
\* would start the group again.
PlayheadMovesOn == ~(here /\ ReleasedPlayhead(group))

\* The loop never stops a child that is still playing: only a GO cuts one short.
TickCutsNothing ==
  [][pc = "drained" /\ pc' = "idle"
       => \A c \in Cue : eng[c] = "playing" => eng'[c] = "playing"]_vars

\* A sequence that was told to wait for a GO has a child to fire with it.
Awaited == group.done /\ HasNext(group)

\* The group has fired something, or will after its pre-wait: a Resume makes a
\* group Running that has not.
Fired == Ordered => group.pre \/ group.current # 0

\* A group of children that end completes once the operator leaves it alone, unless
\* it is paused or waits for a GO.
GroupEnds ==
  (group.state = "running" /\ Fired /\ ~Loops /\ \A c \in Cue : def.kids[c].length # "loop")
    ~> (group.state # "running" \/ Awaited)

\* The safety of a group in one: what it plays, and that a stop still finds it.
GroupSafety == TypeOK /\ PlaylistExclusive /\ LoopsReachable
============================================================================
