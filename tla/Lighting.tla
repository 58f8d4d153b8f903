----------------------------- MODULE Lighting -----------------------------
(***************************************************************************)
(* Lighting: the fixture patch of the workspace, the Light Cues and the live *)
(* desk that submit fades, the DMX engine's thread that runs them at 40 Hz    *)
(* (engine/dmx_engine.rs), and the receivers at the end of its packets.       *)
(*                                                                         *)
(* Universes share nothing, so there is one.  A slot holds a byte of          *)
(* 0..Levels-1 (the code: 256); a value is a whole number of Full-ths, the    *)
(* resolution of a 16-bit parameter; time is counted in frames.  Every curve  *)
(* runs from the start to the target: the straight one stands for them.  The  *)
(* life of a Light Cue as a cue (it runs for its fade time, no pre-wait) is   *)
(* that of the Wait Cue of ShowControl and is not repeated.                   *)
(***************************************************************************)
EXTENDS Integers, Sequences, FiniteSets, SequencesExt

CONSTANTS
  Fixture,    \* the fixtures an operator may patch
  Layout,     \* [Fixture -> Seq([kind, offset, width])], width 1 or 2 slots
  Address,    \* base addresses the operator types, from 1
  Slots,      \* slots of the universe (the code: 512)
  Levels,     \* values of a byte
  Cue,        \* Light Cues
  LightCue,   \* [Cue -> [dur, targets: Seq(target)]], a target as in Targeted
  Members,    \* [group -> its fixtures, in their order]
  Shows,      \* the shows there are: [patch, output]
  Firing,     \* how cues are fired: "go" (GO, the loop), "cart" (go_cue)
  Requests,   \* which of the other calls are made
  MaxRequests, \* bound: calls in a behaviour
  Keepalive,  \* frames after which an unchanged universe is sent again
  Numbers,     \* sequence numbers (a byte)
  Window      \* a receiver takes a packet this little behind for an old one

VARIABLES
  patch,      \* Workspace.fixtures: [Fixture -> base address, 0: not patched]
  output,     \* Workspace.universe_outputs, of this universe
  handle,     \* DmxEngine.blackout
  sending,    \* what the holder of the workspace lock has yet to submit
  busy,       \* who that is: "desk" (the thread of the commands), "loop", "nobody"
  queue,      \* DmxEngine's channel
  buf, fades, dark,   \* DmxState
  outputs, sink,      \* dmx_thread: what it was told to send to, and the socket
  snapshot,   \* DmxEngine.snapshot
  heard,      \* the receiver: its look, and how far its sequence is ahead of ours
  look,       \* the targets captured last
  requests,   \* history: calls made
  aim         \* history: per slot, the latest value asked of it

show == <<patch, output>>
engine == <<buf, fades, dark, outputs, sink, snapshot, heard>>
lightVars == <<show, handle, sending, busy, queue, engine, look, requests, aim>>

Slot == 0..(Slots - 1)
Full == Levels * Levels - 1
NoFade == [width |-> 0]
NoSink == [since |-> 0, last |-> <<>>]
Fresh  == [since |-> Keepalive, last |-> <<>>]
\* What an output may be: "none", "off", "nowhere" (Art-Net without a
\* destination), or one a socket can be bound for.
Sendable == {"sacn", "artnet"}
Dark   == [i \in Slot |-> 0]

\* What is given: parameters of one slot or two, addresses from 1, and targets that name
\* what there is.
IsList(s) == Len(s) \in Nat /\ DOMAIN s = 1..Len(s)
IsTarget(t) ==
  /\ t.value \in 0..Full
  /\ IF t.of = "fixture" THEN t.fixture \in Fixture ELSE t.group \in DOMAIN Members
AreTargets(ts) == IsList(ts) /\ \A k \in DOMAIN ts : IsTarget(ts[k])
ASSUME LightingAssumption ==
  /\ Slots \in Nat \ {0} /\ Levels \in Nat \ {0, 1} /\ IsFiniteSet(Fixture)
  /\ \A f \in Fixture :
       /\ IsList(Layout[f])
       /\ \A i \in DOMAIN Layout[f] : Layout[f][i].offset \in Nat /\ Layout[f][i].width \in {1, 2}
  /\ Address \subseteq Nat \ {0}
  /\ \A c \in Cue : LightCue[c].dur \in Nat /\ AreTargets(LightCue[c].targets)
  /\ \A g \in DOMAIN Members :
       IsList(Members[g]) /\ \A m \in DOMAIN Members[g] : Members[g][m] \in Fixture
  /\ \A s \in Shows : s.patch \in [Fixture -> Address \cup {0}]
  /\ Keepalive \in Nat /\ Numbers \in Nat \ {0}

---------------------------------------------------------------------------
(***************************************************************************)
(* Values and bytes, addresses and slots.                                   *)
(***************************************************************************)
NormToBytes(n, width) ==
  IF width = 1 THEN <<(2 * n + Levels + 1) \div (2 * (Levels + 1))>>
               ELSE <<n \div Levels, n % Levels>>
At(b, i) == IF i \in Slot THEN b[i] ELSE 0
ReadNorm(b, ch, width) ==
  IF width = 1 THEN At(b, ch) * (Levels + 1) ELSE At(b, ch) * Levels + At(b, ch + 1)
\* Slots past the end are left out.
WriteNorm(b, ch, width, n) ==
  [i \in Slot |-> IF i \in ch..(ch + width - 1) THEN NormToBytes(n, width)[i - ch + 1] ELSE b[i]]
\* What a parameter reads once n was written to it.
Kept(n, width) == ReadNorm(WriteNorm(Dark, 0, width, n), 0, width)

Submit(ch, width, n, dur) ==
  [op |-> "fade", ch |-> ch, width |-> width, target |-> n, dur |-> dur]
Clash(a, b) == a.ch <= b.ch + b.width - 1 /\ b.ch <= a.ch + a.width - 1

ResolveChannel(p, f, i) ==
  [ch |-> (IF p[f] > 0 THEN p[f] - 1 ELSE 0) + Layout[f][i].offset, width |-> Layout[f][i].width]
Occupied(p, f) == {ResolveChannel(p, f, i) : i \in DOMAIN Layout[f]}

Footprint(f) ==
  LET ends == {Layout[f][i].offset + Layout[f][i].width : i \in DOMAIN Layout[f]}
  IN  CHOOSE m \in ends : \A e \in ends : e <= m
\* find_conflicts, of two patched fixtures.
Conflict(p, f, g) == p[f] <= p[g] + Footprint(g) - 1 /\ p[g] <= p[f] + Footprint(f) - 1

\* submit_targets: what a list of targets comes to under a patch; a fixture that is
\* not there is passed over.
Placed(p, f, i, value, dur) ==
  LET at == ResolveChannel(p, f, i) IN Submit(at.ch, at.width, value, dur)
OfKind(p, f, t, dur) ==
  FlattenSeq([i \in DOMAIN Layout[f] |->
    IF Layout[f][i].kind = t.kind THEN <<Placed(p, f, i, t.value, dur)>> ELSE <<>>])
Targeted(p, t, dur) ==
  IF t.of = "fixture"
  THEN IF p[t.fixture] = 0 \/ t.param \notin DOMAIN Layout[t.fixture] THEN <<>>
       ELSE <<Placed(p, t.fixture, t.param, t.value, dur)>>
  ELSE FlattenSeq([m \in DOMAIN Members[t.group] |->
         IF p[Members[t.group][m]] = 0 THEN <<>> ELSE OfKind(p, Members[t.group][m], t, dur)])
SubmitTargets(p, ts, dur) == FlattenSeq([k \in DOMAIN ts |-> Targeted(p, ts[k], dur)])

\* Every parameter of every patched fixture, as targets.
TargetsOf(f, values) ==
  [i \in DOMAIN Layout[f] |->
    [of |-> "fixture", fixture |-> f, param |-> i, value |-> values[f][i]]]
AllTargets(p, values) ==
  LET rig == SetToSeq(Fixture)
  IN  FlattenSeq([k \in DOMAIN rig |-> IF p[rig[k]] = 0 THEN <<>> ELSE TargetsOf(rig[k], values)])

---------------------------------------------------------------------------
(***************************************************************************)
(* The history of what was asked: a value holds its slots until another is    *)
(* asked of one of them; one asked of a slot that a different parameter is    *)
(* still fading through (a clash of the patch, or a fixture moved meanwhile)  *)
(* or that the loop is about to submit is not promised anything.              *)
(***************************************************************************)
Fading == {c \in Slot : fades[c].width # 0}
Span(c, width) == [ch |-> c, width |-> width]
Spans(list) == { Span(x.ch, x.width) : x \in { y \in Range(list) : y.op = "fade" } }
\* What x may be promised, with the others of its list.
Promised(x, list) ==
  LET under == { Span(c, fades[c].width) : c \in Fading } \cup Spans(queue) \cup Spans(list)
  IN  IF /\ x.ch + x.width <= Slots
         /\ \A y \in under : Clash(x, y) => y.ch = x.ch
         /\ \A y \in Spans(sending) : ~Clash(x, y)
      THEN [width |-> x.width, value |-> x.target] ELSE NoFade
Latest(list, k) == \A j \in DOMAIN list : j > k => list[j].ch # list[k].ch
Aimed(list) ==
  [c \in Slot |->
    IF \E k \in DOMAIN list : list[k].ch = c
    THEN Promised(list[CHOOSE k \in DOMAIN list : list[k].ch = c /\ Latest(list, k)], list)
    ELSE IF \E y \in Spans(list) : Clash(y, Span(c, aim[c].width)) THEN NoFade ELSE aim[c]]

---------------------------------------------------------------------------
LightInit ==
  /\ \E s \in Shows : /\ patch = s.patch /\ output = s.output
                      /\ outputs = s.output
                      /\ sink = IF s.output \in Sendable THEN Fresh ELSE NoSink
  /\ handle = FALSE /\ sending = <<>> /\ busy = "nobody" /\ queue = <<>>
  /\ buf = Dark /\ fades = [c \in Slot |-> NoFade] /\ dark = FALSE
  /\ snapshot = Dark /\ heard = [look |-> Dark, ahead |-> 0]
  /\ look = <<>> /\ requests = 0 /\ aim = [c \in Slot |-> NoFade]

\* One more call, after the last one is over; the calls that want the workspace
\* wait for the loop to give it back.
Called == requests < MaxRequests /\ requests' = requests + 1 /\ busy # "desk"
Locked == Called /\ busy = "nobody"

---------------------------------------------------------------------------
(***************************************************************************)
(* Cues.  A GO and the loop fire a cue with the patch of the workspace; so    *)
(* does go_cue, but its context is made while it has the workspace locked,    *)
(* and make_context's try_lock comes back with nothing.                      *)
(***************************************************************************)
Batch(list, who) ==
  sending' = list /\ busy' = IF list = <<>> THEN "nobody" ELSE who
Context(how) == IF how = "cart" THEN [f \in Fixture |-> 0] ELSE patch

\* LightCue::go.  The targets go to the engine one by one.
Fire(targets, dur, how) ==
  /\ Locked
  /\ Batch(SubmitTargets(Context(how), targets, dur), IF how = "loop" THEN "loop" ELSE "desk")
  /\ aim' = Aimed(SubmitTargets(patch, targets, dur))
  /\ UNCHANGED <<show, handle, queue, engine, look>>

GoLight == \E c \in Cue, how \in Firing : Fire(LightCue[c].targets, LightCue[c].dur, how)
\* A cue that was given the captured look, with some fade time.
GoLook ==
  /\ look # <<>>
  /\ \E dur \in {LightCue[c].dur : c \in Cue} : Fire(look, dur, "go")

Push ==
  /\ sending # <<>>
  /\ queue' = Append(queue, Head(sending)) /\ Batch(Tail(sending), busy)
  /\ UNCHANGED <<show, handle, engine, look, requests, aim>>

---------------------------------------------------------------------------
(***************************************************************************)
(* The desk: values set at once, blackout, capture.                          *)
(***************************************************************************)
SetNow(list) ==
  /\ Batch(list, "desk") /\ aim' = Aimed(list)
  /\ UNCHANGED <<show, handle, queue, engine, look>>

SetFixtureParam ==
  "param" \in Requests /\ Locked /\ \E f \in Fixture, v \in {0, Full} :
    /\ patch[f] # 0
    /\ \E i \in DOMAIN Layout[f] : SetNow(<<Placed(patch, f, i, v, 0)>>)

TestFixture ==
  "test" \in Requests /\ Locked /\ \E f \in Fixture, on \in BOOLEAN :
    /\ patch[f] # 0
    /\ LET value(i) == IF ~on THEN 0 ELSE IF Layout[f][i].kind = "pan" THEN Full \div 2 ELSE Full
       IN  SetNow([i \in DOMAIN Layout[f] |-> Placed(patch, f, i, value(i), 0)])

ClearFixtures ==
  "clear" \in Requests /\ Locked
  /\ LET zeros == [f \in Fixture |-> [i \in DOMAIN Layout[f] |-> 0]]
     IN  SetNow(SubmitTargets(patch, AllTargets(patch, zeros), 0))

\* dmx_set_channel: any address, and without the workspace.
SetChannel ==
  "channel" \in Requests /\ Called /\ \E a \in Slot, v \in {0, Full} :
    LET x == Submit(a, 1, v, 0)
    IN  /\ queue' = Append(queue, x) /\ aim' = Aimed(<<x>>)
        /\ UNCHANGED <<show, handle, sending, busy, engine, look>>

SetBlackout ==
  "blackout" \in Requests /\ Called /\ \E on \in BOOLEAN :
    /\ on # handle /\ handle' = on
    /\ queue' = Append(queue, [op |-> "blackout", on |-> on])
    /\ UNCHANGED <<show, sending, busy, engine, look, aim>>

CaptureLiveTargets ==
  "capture" \in Requests /\ Locked
  /\ LET at(f, i) == ResolveChannel(patch, f, i)
         read == [f \in Fixture |-> [i \in DOMAIN Layout[f] |->
                   ReadNorm(snapshot, at(f, i).ch, at(f, i).width)]]
     IN  look' = AllTargets(patch, read)
  /\ UNCHANGED <<show, handle, sending, busy, queue, engine, aim>>

---------------------------------------------------------------------------
(***************************************************************************)
(* The show: the patch is edited, its output set, another one opened.         *)
(***************************************************************************)
Told(o) == queue' = Append(queue, [op |-> "outputs", to |-> o])

\* add_fixture, update_fixture, remove_fixture.
UpdateFixture ==
  "patch" \in Requests /\ Locked /\ \E f \in Fixture, a \in Address \cup {0} :
    /\ patch' = [patch EXCEPT ![f] = a]
    /\ UNCHANGED <<output, handle, sending, busy, queue, engine, look, aim>>

SetOutputs ==
  "outputs" \in Requests /\ Locked /\ \E o \in {s.output : s \in Shows} :
    /\ output' = o /\ Told(o)
    /\ UNCHANGED <<patch, handle, sending, busy, engine, look, aim>>

Empty == [patch |-> [f \in Fixture |-> 0], output |-> "none"]
\* new_workspace, install_workspace: the slots, the fades and the blackout stay.
OpenShow ==
  "open" \in Requests /\ Locked /\ \E s \in Shows \cup {Empty} :
    /\ patch' = s.patch /\ output' = s.output /\ look' = <<>>
    /\ Told(s.output)
    /\ UNCHANGED <<handle, sending, busy, engine, aim>>

\* set_network_config.
RebindSinks ==
  "network" \in Requests /\ Called /\ queue' = Append(queue, [op |-> "rebind"])
  /\ UNCHANGED <<show, handle, sending, busy, engine, look, aim>>

---------------------------------------------------------------------------
(***************************************************************************)
(* The engine's thread: it drains its channel, then makes a frame.           *)
(***************************************************************************)
FadeTo(x) == [width |-> x.width, start |-> ReadNorm(buf, x.ch, x.width),
              target |-> x.target, dur |-> x.dur, at |-> 0]
\* Mutant of SubmitFade: a value set at once leaves the running fade alone.
SubmitBesideFade(x) ==
  IF x.dur = 0
  THEN buf' = WriteNorm(buf, x.ch, x.width, x.target) /\ UNCHANGED fades
  ELSE fades' = [fades EXCEPT ![x.ch] = FadeTo(x)] /\ UNCHANGED buf
\* The latest fade of a channel takes over from what the channel holds.
SubmitFade(x) ==
  IF x.ch \notin Slot THEN UNCHANGED <<buf, fades>>
  ELSE IF x.dur = 0
  THEN /\ fades' = [fades EXCEPT ![x.ch] = NoFade]
       /\ buf' = WriteNorm(buf, x.ch, x.width, x.target)
  ELSE fades' = [fades EXCEPT ![x.ch] = FadeTo(x)] /\ UNCHANGED buf

\* build_sinks: a new socket counts its packets from zero; an output that is
\* off, or Art-Net without a destination, has none; a bind that fails is logged.
BuildSinks(o) ==
  \E bound \in BOOLEAN, ahead \in 0..(Numbers - 1) :
    IF bound /\ o \in Sendable
    THEN sink' = Fresh /\ heard' = [heard EXCEPT !.ahead = ahead]
    ELSE sink' = NoSink /\ ahead = 0 /\ UNCHANGED heard

Drain ==
  /\ queue # <<>> /\ queue' = Tail(queue)
  /\ LET x == Head(queue)
     IN \/ /\ x.op = "fade" /\ SubmitFade(x) /\ UNCHANGED <<dark, outputs, sink, heard>>
        \/ /\ x.op = "blackout" /\ dark' = x.on /\ UNCHANGED <<buf, fades, outputs, sink, heard>>
        \/ /\ x.op = "outputs" /\ outputs' = x.to /\ BuildSinks(x.to)
           /\ UNCHANGED <<buf, fades, dark>>
        \/ /\ x.op = "rebind" /\ BuildSinks(outputs) /\ UNCHANGED <<buf, fades, dark, outputs>>
  /\ UNCHANGED <<show, handle, sending, busy, snapshot, look, requests, aim>>

\* DmxState::tick: the running fades are written in the order of the map, each with its
\* rank; a slot keeps what was written last.
Now(f) == f.start + ((f.target - f.start) * f.at) \div f.dur
Over(i) == { c \in Fading : i \in c..(c + fades[c].width - 1) }
Advanced(rank) ==
  LET last(i) == CHOOSE c \in Over(i) : \A d \in Over(i) : rank[d] <= rank[c]
  IN  [i \in Slot |-> IF Over(i) = {} THEN buf[i]
                      ELSE NormToBytes(Now(fades[last(i)]), fades[last(i)].width)[i - last(i) + 1]]
MovedOn == [c \in Slot |-> IF fades[c].width = 0 \/ fades[c].at >= fades[c].dur THEN NoFade
                           ELSE [fades[c] EXCEPT !.at = @ + 1]]
Rendered(b) == IF dark THEN Dark ELSE b

\* Mutant of Due: a frame that was sent once is not sent again.
DueOnChange(data) == sink # NoSink /\ sink.last # data
Due(data) == sink # NoSink /\ (sink.last # data \/ sink.since >= Keepalive)

\* A packet on its way: the receiver drops one that is not ahead of its own.
Behind == (heard.ahead + Numbers - 1) % Numbers
SendFrame(data, arrives) ==
  /\ sink' = [since |-> 0, last |-> data]
  /\ heard' = IF arrives /\ Behind >= Window THEN [look |-> data, ahead |-> 0]
              ELSE [heard EXCEPT !.ahead = Behind]

Frame(arrives) ==
  /\ queue = <<>>
  /\ \E rank \in Injection(Fading, 1..Cardinality(Fading)) :
       LET after == Advanced(rank)
           data  == Rendered(after)
       IN  /\ buf' = after /\ fades' = MovedOn /\ snapshot' = data
           /\ IF Due(data) THEN SendFrame(data, arrives)
              ELSE /\ sink' = IF sink = NoSink \/ sink.since = Keepalive THEN sink
                           ELSE [sink EXCEPT !.since = @ + 1]
                   /\ UNCHANGED heard
  /\ UNCHANGED <<show, handle, sending, busy, queue, dark, outputs, look, requests, aim>>
\* The network loses packets.
FrameLost == Frame(FALSE)
FrameSent == Frame(TRUE)

LightNext ==
  \/ GoLight \/ GoLook \/ Push
  \/ SetFixtureParam \/ TestFixture \/ ClearFixtures \/ SetChannel \/ SetBlackout
  \/ CaptureLiveTargets
  \/ UpdateFixture \/ SetOutputs \/ OpenShow \/ RebindSinks
  \/ Drain \/ FrameLost \/ FrameSent

LightSpec == LightInit /\ [][LightNext]_lightVars

---------------------------------------------------------------------------
(***************************************************************************)
(* Properties.                                                              *)
(***************************************************************************)
LightTypeOK ==
  /\ patch \in [Fixture -> Address \cup {0}] /\ handle \in BOOLEAN /\ dark \in BOOLEAN
  /\ buf \in [Slot -> 0..(Levels - 1)] /\ snapshot \in [Slot -> 0..(Levels - 1)]
  /\ \A c \in Fading : fades[c].at \in 0..fades[c].dur /\ fades[c].target \in 0..Full
                       /\ fades[c].start \in 0..Full
  /\ sink = NoSink \/ sink.since \in 0..Keepalive
  /\ heard.look \in [Slot -> 0..(Levels - 1)] /\ heard.ahead \in 0..(Numbers - 1)

\* The latest value asked of a parameter, by whichever cue or desk, is what its
\* slots hold once nothing fades it and no request for it is on its way.
LatestWins ==
  \A c \in Slot :
    /\ aim[c].width # 0 /\ c \notin Fading
    /\ \A x \in Range(queue \o sending) : x.op = "fade" => x.ch # c
    => ReadNorm(buf, c, aim[c].width) = Kept(aim[c].value, aim[c].width)

\* Fixtures between which no clash is found do not share a slot.
NoHiddenConflict ==
  \A f, g \in {x \in Fixture : patch[x] # 0} :
    f # g /\ ~Conflict(patch, f, g)
      => \A a \in Occupied(patch, f), b \in Occupied(patch, g) : ~Clash(a, b)

\* With no order on its way the thread sends where the show in hand says, and is
\* dark when the handle says so.
EngineFollows ==
  /\ (\A x \in Range(queue) : x.op # "outputs")
       => outputs = output /\ (sink # NoSink => output \in Sendable)
  /\ (\A x \in Range(queue) : x.op # "blackout") => dark = handle

\* The thread runs, who has the workspace goes on, and the network does not lose
\* every packet the receiver would have taken.
Taken == FrameSent /\ sink' # NoSink /\ sink'.since = 0 /\ Behind >= Window
LightFairness ==
  /\ WF_lightVars(Push) /\ WF_lightVars(Drain) /\ WF_lightVars(FrameLost \/ FrameSent)
  /\ SF_lightVars(Taken)
FairLights == LightSpec /\ LightFairness

\* Once the calls are over, the lamps show what the engine renders, whatever was
\* lost on the way and however often the sockets were bound anew.
LampsFollow == <>[](sink # NoSink => heard.look = Rendered(buf))

\* What the slots hold is what was asked last, and nothing else writes them.
LightingSafety == LightTypeOK /\ LatestWins /\ NoHiddenConflict /\ EngineFollows
=============================================================================
