--------------------------- MODULE GroupCue_proofs ---------------------------
(***************************************************************************)
(* Proofs about GroupCue, for every number of children, every group and     *)
(* every set of commands.                                                   *)
(*                                                                          *)
(* A call on the group is a composition of operators on stages, and so are  *)
(* the proofs: each operator is shown once to take a sound stage to a sound *)
(* stage, from the one operator that calls the children (Do).               *)
(***************************************************************************)
EXTENDS GroupCue, FiniteSetTheorems, WellFoundedInduction, TLAPS

USE DEF States, Due, VoiceStates, Operations

Stages == [group: GroupRuntime, kid: [Cue -> Runtime], eng: [Voice -> VoiceStates],
           queue: SUBSET Voice, seen: SUBSET Voice]

Holding == {"running", "paused"}

---------------------------------------------------------------------------
(***************************************************************************)
(* One child under one call.                                                *)
(*                                                                          *)
(* ChildSound says of a child's runtime and of the state of its voice: a    *)
(* child has its own voice or none; with one it is an active child whose    *)
(* samples are there; the voice of a child that is paused or in a pre-wait  *)
(* does not play; an endless voice plays or is paused, and if it plays it   *)
(* is its child's.                                                          *)
(***************************************************************************)
ChildSound(c, r, d, ready, s) ==
  /\ r.voice \in {c, NoVoice}
  /\ r.pre => r.state = "running" /\ d.kind \in Voiced
  /\ r.voice = c => /\ d.kind \in Voiced /\ ready /\ r.state \in Holding
                    /\ r.state = "paused" \/ r.pre => s # "playing"
                    /\ s # "fading"
                    /\ d.length = "loop" => s \in {"playing", "paused"}
  /\ d.length = "loop" /\ s = "playing" => r.voice = c

\* The calls GroupCue makes, each where it may be made: a tick on a running child, a
\* resume on a paused one, a reset on none whose endless voice plays.
MayCall(op, r, d, s) ==
  /\ op # "preload"
  /\ op = "tick" => r.state = "running"
  /\ op = "pause" => r.state = "running"
  /\ op = "resume" => r.state = "paused"
  /\ op = "reset" => ~(d.length = "loop" /\ s = "playing")

\* The state of the child's voice after the call.
VoiceAfter(c, op, r, d, ready, s) ==
  IF Submits(op, r, d, ready) THEN "playing"
  ELSE IF r.voice = c THEN EngineAfter(op, r, s) ELSE s

\* Whatever call is made on a child, its runtime stays well typed.
LEMMA ChildType ==
  ASSUME NEW op \in Operations, NEW r \in Runtime, NEW d \in CueDef,
         NEW ready \in BOOLEAN, NEW c \in Voice
  PROVE  After(op, r, d, ready, c) \in Runtime
<1>1. Idle \in Runtime /\ WaitGo \in Runtime
  BY DEF Idle, WaitGo, Runtime
<1>2. \A x \in Runtime : StartAudioAction(x, c) \in Runtime
  BY DEF StartAudioAction, Runtime
<1>3. AudioGo(r, d, ready, c) \in Runtime
  <2> DEFINE fresh == [r EXCEPT !.state = "running", !.fired = FALSE, !.ripe = {}]
  <2>1. fresh \in Runtime
    BY DEF Runtime
  <2>2. [fresh EXCEPT !.pre = TRUE] \in Runtime /\ [fresh EXCEPT !.state = "standby"] \in Runtime
    BY DEF Runtime
  <2> QED
    BY <2>1, <2>2, <1>2 DEF AudioGo
<1>4. ASSUME NEW x \in Runtime
      PROVE  /\ AudioPause(x) \in Runtime /\ MicPause(x) \in Runtime
             /\ WaitPause(x) \in Runtime /\ AudioResume(x) \in Runtime
             /\ [x EXCEPT !.state = "running"] \in Runtime
  <2>1. AudioPause(x) \in Runtime
    BY DEF AudioPause, Runtime
  <2>2. MicPause(x) \in Runtime
    BY DEF MicPause, Runtime
  <2>3. WaitPause(x) \in Runtime
    BY DEF WaitPause, Runtime
  <2>4. AudioResume(x) \in Runtime /\ [x EXCEPT !.state = "running"] \in Runtime
    BY DEF AudioResume, Runtime
  <2> QED
    BY <2>1, <2>2, <2>3, <2>4
<1>5. Instant(op, r) \in Runtime
  BY <1>1 DEF Instant, Runtime, Idle
<1>6. Wait(op, r) \in Runtime
  BY <1>1, <1>4 DEF Wait
<1>7. Audio(op, r, d, ready, c) \in Runtime
  BY <1>1, <1>2, <1>3, <1>4 DEF Audio, AudioTick, Halted
<1>8. Mic(op, r, d, ready, c) \in Runtime
  BY <1>1, <1>2, <1>3, <1>4 DEF Mic, AudioTick
<1> QED
  BY <1>5, <1>6, <1>7, <1>8
     DEF After, Memos, StopCues, CommandCues, Devamps, Osc, Midi, Script, CueDef, Kinds

\* A child with a voice of its own kind, under each call: what an Audio Cue and a Mic Cue
\* have in common.
LEMMA VoicedAfter ==
  ASSUME NEW op \in Operations, NEW r \in Runtime, NEW d \in CueDef,
         NEW ready \in BOOLEAN, NEW c \in Voice, NEW s \in VoiceStates,
         ChildSound(c, r, d, ready, s), MayCall(op, r, d, s), d.kind \in Voiced
  PROVE  LET x == After(op, r, d, ready, c)
         IN  /\ op \in {"stop", "hard_stop", "reset"} => x = Idle
             /\ op = "none" => x = r
             /\ op = "pause" => IF r.pre THEN x = r
                                ELSE x.state = "paused" /\ x.pre = r.pre /\ x.voice = r.voice
             /\ op = "resume" => x.state = "running" /\ x.pre = r.pre /\ x.voice = r.voice
             /\ op = "go" => IF r.state = "running" THEN x = r
                             ELSE IF d.pre THEN x.state = "running" /\ x.pre /\ x.voice = r.voice
                             ELSE IF ready THEN x.state = "running" /\ ~x.pre /\ x.voice = c
                             ELSE x.state = "standby" /\ x.pre = r.pre /\ x.voice = r.voice
             /\ op = "tick" => IF r.pre /\ "pre" \in r.ripe /\ ready
                               THEN x.state = r.state /\ ~x.pre /\ x.voice = c
                               ELSE x = r
<1> DEFINE x == After(op, r, d, ready, c)
<1>1. CASE d.kind = "audio"
  <2>1. x = Audio(op, r, d, ready, c)
    BY <1>1 DEF After
  <2>2. CASE op \in {"stop", "hard_stop", "reset"}
    BY <2>1, <2>2 DEF Audio, Halted
  <2>3. CASE op \in {"none", "pause", "resume"}
    BY <2>1, <2>3 DEF Audio, AudioPause, AudioResume, Runtime
  <2>4. CASE op = "go"
    BY <2>1, <2>4 DEF Audio, AudioGo, StartAudioAction, Runtime
  <2>5. CASE op = "tick"
    BY <2>1, <2>5 DEF Audio, AudioTick, StartAudioAction, Runtime
  <2> QED
    BY <2>2, <2>3, <2>4, <2>5 DEF MayCall
<1>2. CASE d.kind = "mic"
  <2>1. x = Mic(op, r, d, ready, c)
    BY <1>2 DEF After
  <2>2. CASE op \in {"stop", "hard_stop", "reset"}
    BY <2>1, <2>2 DEF Mic
  <2>3. CASE op \in {"none", "pause", "resume"}
    BY <2>1, <2>3 DEF Mic, MicPause, Runtime
  <2>4. CASE op = "go"
    BY <2>1, <2>4 DEF Mic, AudioGo, StartAudioAction, Runtime
  <2>5. CASE op = "tick"
    BY <2>1, <2>5 DEF Mic, AudioTick, StartAudioAction, Runtime
  <2> QED
    BY <2>2, <2>3, <2>4, <2>5 DEF MayCall
<1> QED
  BY <1>1, <1>2 DEF Voiced

\* A child without a voice, under each call.
LEMMA VoicelessAfter ==
  ASSUME NEW op \in Operations, NEW r \in Runtime, NEW d \in CueDef,
         NEW ready \in BOOLEAN, NEW c \in Voice, NEW s,
         MayCall(op, r, d, s), d.kind \notin Voiced, r.voice = NoVoice, ~r.pre
  PROVE  LET x == After(op, r, d, ready, c)
         IN  /\ x.voice = NoVoice /\ ~x.pre
             /\ op \in {"stop", "hard_stop", "reset"} => x = Idle
             /\ op \in {"none", "tick"} => x = r
             /\ op \in {"pause", "resume"} /\ x.state \in Holding => r.state \in Holding
<1> DEFINE x == After(op, r, d, ready, c)
<1>1. CASE d.kind = "wait"
  BY <1>1 DEF After, Wait, WaitGo, WaitPause, Idle, Runtime, MayCall, Holding
<1>2. CASE d.kind \in Kinds \ {"audio", "mic", "wait"}
  <2>1. x = Instant(op, r)
    BY <1>2 DEF After, Kinds, Memos, StopCues, CommandCues, Devamps, Osc, Midi, Script
  <2> QED
    BY <2>1 DEF Instant, Idle, Runtime, MayCall, Holding
<1> QED
  BY <1>1, <1>2 DEF CueDef, Kinds, Voiced

\* A call that may be made keeps a child sound, and its new voice is its own.
LEMMA ChildStaysSound ==
  ASSUME NEW op \in Operations, NEW r \in Runtime, NEW d \in CueDef,
         NEW ready \in BOOLEAN, NEW c \in Voice, NEW s \in VoiceStates,
         ChildSound(c, r, d, ready, s), MayCall(op, r, d, s)
  PROVE  LET x == After(op, r, d, ready, c)
             y == VoiceAfter(c, op, r, d, ready, s)
         IN  /\ ChildSound(c, x, d, ready, y)
             /\ x.voice = c => r.voice = c \/ Submits(op, r, d, ready)
             /\ x.state \in Holding => r.state \in Holding \/ op = "go"
             /\ op \in {"stop", "hard_stop", "reset"} => x.state = "standby"
             /\ op \in {"none", "tick"} => x.state = r.state
             /\ op = "none" => x = r
             /\ op \in {"none", "tick", "go", "reset"} /\ s = "playing" => y = "playing"
             /\ y \in VoiceStates
<1> DEFINE x == After(op, r, d, ready, c)
           y == VoiceAfter(c, op, r, d, ready, s)
<1>0. c # NoVoice /\ Idle.voice = NoVoice /\ Idle.state = "standby" /\ ~Idle.pre
  BY VoiceAssumption DEF Idle
<1>1. y \in VoiceStates
  BY DEF VoiceAfter, EngineAfter
<1>2. op \in {"none", "tick", "go", "reset"} /\ s = "playing" => y = "playing"
  BY DEF VoiceAfter, EngineAfter
<1>3. CASE d.kind \notin Voiced
  <2>1. r.voice = NoVoice /\ ~r.pre /\ ~Submits(op, r, d, ready) /\ y = s
    BY <1>0, <1>3 DEF ChildSound, Submits, VoiceAfter
  <2> HIDE DEF x, y
  <2>2. /\ x.voice = NoVoice /\ ~x.pre
        /\ op \in {"stop", "hard_stop", "reset"} => x = Idle
        /\ op \in {"none", "tick"} => x = r
        /\ op \in {"pause", "resume"} /\ x.state \in Holding => r.state \in Holding
    BY <1>3, <2>1, VoicelessAfter DEF x
  <2>3. ChildSound(c, x, d, ready, y)
    BY <1>0, <2>1, <2>2 DEF ChildSound
  <2>4. x.voice # c
    BY <1>0, <2>2
  <2>5. x.state \in Holding => r.state \in Holding \/ op = "go"
    BY <1>0, <2>2 DEF MayCall, Holding
  <2> QED
    BY <1>0, <1>1, <1>2, <2>2, <2>3, <2>4, <2>5 DEF x, y
<1>4. CASE d.kind \in Voiced
  <2> HIDE DEF x
  <2>1. /\ op \in {"stop", "hard_stop", "reset"} => x = Idle
        /\ op = "none" => x = r
        /\ op = "pause" => IF r.pre THEN x = r
                           ELSE x.state = "paused" /\ x.pre = r.pre /\ x.voice = r.voice
        /\ op = "resume" => x.state = "running" /\ x.pre = r.pre /\ x.voice = r.voice
        /\ op = "go" => IF r.state = "running" THEN x = r
                        ELSE IF d.pre THEN x.state = "running" /\ x.pre /\ x.voice = r.voice
                        ELSE IF ready THEN x.state = "running" /\ ~x.pre /\ x.voice = c
                        ELSE x.state = "standby" /\ x.pre = r.pre /\ x.voice = r.voice
        /\ op = "tick" => IF r.pre /\ "pre" \in r.ripe /\ ready
                          THEN x.state = r.state /\ ~x.pre /\ x.voice = c
                          ELSE x = r
    BY <1>4, VoicedAfter DEF x
  <2>2. CASE op \in {"stop", "hard_stop", "reset"}
    <3>1. x.voice = NoVoice /\ x.state = "standby" /\ ~x.pre
      BY <1>0, <2>1, <2>2
    <3>2. d.length = "loop" => y # "playing"
      BY <2>2 DEF ChildSound, MayCall, Submits, VoiceAfter, EngineAfter
    <3>3. ChildSound(c, x, d, ready, y)
      <4> HIDE DEF y
      <4> QED
        BY <1>0, <3>1, <3>2 DEF ChildSound
    <3> QED
      BY <1>0, <1>1, <1>2, <2>2, <3>1, <3>3 DEF Holding, x
  <2>3. CASE op \in {"none", "pause", "resume"}
    <3>1. ~Submits(op, r, d, ready)
      BY <2>3 DEF Submits
    <3>2. y = IF r.voice = c THEN EngineAfter(op, r, s) ELSE s
      BY <3>1 DEF VoiceAfter
    <3>3. ChildSound(c, x, d, ready, y)
      <4>1. CASE op = "none"
        BY <1>0, <2>1, <3>2, <4>1 DEF ChildSound, EngineAfter
      <4>2. CASE op = "pause"
        <5> HIDE DEF y
        <5> QED
          BY <1>0, <2>1, <3>2, <4>2 DEF ChildSound, EngineAfter, MayCall, Holding
      <4>3. CASE op = "resume"
        <5> HIDE DEF y
        <5> QED
          BY <1>0, <2>1, <3>2, <4>3 DEF ChildSound, EngineAfter, MayCall, Holding
      <4> QED
        BY <2>3, <4>1, <4>2, <4>3
    <3> HIDE DEF y
    <3> QED
      BY <1>0, <1>1, <1>2, <2>1, <2>3, <3>3 DEF MayCall, Holding, x, y
  <2>4. CASE op = "go"
    <3>1. Submits(op, r, d, ready) <=> ready /\ r.state # "running" /\ ~d.pre
      BY <1>4, <2>4 DEF Submits
    <3>2. y = IF Submits(op, r, d, ready) THEN "playing" ELSE s
      BY <2>4 DEF VoiceAfter, EngineAfter
    <3>3. ChildSound(c, x, d, ready, y)
      <4> HIDE DEF y
      <4> QED
        BY <1>0, <1>4, <2>1, <2>4, <3>1, <3>2 DEF ChildSound, Holding
    <3> HIDE DEF y
    <3> QED
      BY <1>0, <1>1, <1>2, <2>1, <2>4, <3>1, <3>3 DEF x, y
  <2>5. CASE op = "tick"
    <3>1. Submits(op, r, d, ready) <=> ready /\ r.pre /\ "pre" \in r.ripe
      BY <1>4, <2>5 DEF Submits
    <3>2. y = IF Submits(op, r, d, ready) THEN "playing" ELSE s
      BY <2>5 DEF VoiceAfter, EngineAfter
    <3>3. ChildSound(c, x, d, ready, y)
      <4> HIDE DEF y
      <4> QED
        BY <1>0, <1>4, <2>1, <2>5, <3>1, <3>2 DEF ChildSound, Holding
    <3> HIDE DEF y
    <3> QED
      BY <1>0, <1>1, <1>2, <2>1, <2>5, <3>1, <3>3 DEF x, y
  <2> QED
    BY <2>2, <2>3, <2>4, <2>5 DEF MayCall
<1> QED
  BY <1>3, <1>4

---------------------------------------------------------------------------
(***************************************************************************)
(* Calls on the children of a stage.                                        *)
(***************************************************************************)
Endless(c) == def.kids[c].length = "loop"

\* Every child is sound, is active in a started group only, and no completion of its
\* endless voice is on its way.
Sound(s) ==
  \A c \in Cue :
    /\ ChildSound(c, s.kid[c], def.kids[c], Ready(c), s.eng[c])
    /\ s.kid[c].state \in Holding => s.group.state # "standby"
    /\ Endless(c) /\ s.kid[c].voice = c => c \notin s.queue \cup s.seen

MayDo(s, ops) ==
  \A c \in Cue : /\ MayCall(ops[c], s.kid[c], def.kids[c], s.eng[c])
                 /\ ops[c] = "go" => s.group.state # "standby"

\* Nothing that plays is cut.
Spares(s, t) == \A c \in Cue : s.eng[c] = "playing" => t.eng[c] = "playing"

\* Calls that may be made leave a sound stage: the group's own fields are as they were,
\* only a go makes a child active, and only a stop or a pause silences a voice.
LEMMA DoSound ==
  ASSUME def \in GroupDef, NEW s \in Stages, Sound(s), NEW ops \in [Cue -> Operations],
         MayDo(s, ops)
  PROVE  LET t == Do(s, ops)
         IN  /\ t \in Stages /\ Sound(t) /\ t.group = s.group /\ t.seen \subseteq s.seen
             /\ \A c \in Cue :
                  /\ t.kid[c].state \in Holding => s.kid[c].state \in Holding \/ ops[c] = "go"
                  /\ ops[c] \in {"stop", "hard_stop", "reset"} => t.kid[c].state = "standby"
                  /\ ops[c] \in {"none", "tick"} => t.kid[c].state = s.kid[c].state
                  /\ ops[c] = "none" => t.kid[c] = s.kid[c]
                  /\ ops[c] \in {"none", "tick", "go", "reset"} /\ s.eng[c] = "playing"
                       => t.eng[c] = "playing"
<1> DEFINE new == {c \in Cue : Starts(s, c, ops[c])}
           k == [c \in Cue |-> After(ops[c], s.kid[c], def.kids[c], Ready(c), c)]
           e == [c \in Cue |-> IF c \in new THEN "playing"
                               ELSE IF s.kid[c].voice = c
                               THEN EngineAfter(ops[c], s.kid[c], s.eng[c])
                               ELSE s.eng[c]]
           t == Do(s, ops)
<1>1. Voice = Cue
  BY ChildAssumption
<1>2. ASSUME NEW c \in Cue
      PROVE  /\ k[c] = After(ops[c], s.kid[c], def.kids[c], Ready(c), c)
             /\ e[c] = VoiceAfter(c, ops[c], s.kid[c], def.kids[c], Ready(c), s.eng[c])
             /\ c \in new <=> Submits(ops[c], s.kid[c], def.kids[c], Ready(c))
             /\ ops[c] \in Operations /\ s.kid[c] \in Runtime /\ def.kids[c] \in CueDef
             /\ Ready(c) \in BOOLEAN /\ c \in Voice /\ s.eng[c] \in VoiceStates
  <2>1. k[c] = After(ops[c], s.kid[c], def.kids[c], Ready(c), c)
    OBVIOUS
  <2>2. c \in new <=> Submits(ops[c], s.kid[c], def.kids[c], Ready(c))
    BY DEF Starts
  <2>3. e[c] = IF c \in new THEN "playing"
               ELSE IF s.kid[c].voice = c THEN EngineAfter(ops[c], s.kid[c], s.eng[c])
               ELSE s.eng[c]
    OBVIOUS
  <2>4. e[c] = VoiceAfter(c, ops[c], s.kid[c], def.kids[c], Ready(c), s.eng[c])
    <3> HIDE DEF e, new
    <3> QED
      BY <2>2, <2>3 DEF VoiceAfter
  <2>5. ops[c] \in Operations /\ s.kid[c] \in Runtime /\ def.kids[c] \in CueDef
        /\ Ready(c) \in BOOLEAN /\ c \in Voice /\ s.eng[c] \in VoiceStates
    BY <1>1 DEF Stages, GroupDef, Ready
  <2> HIDE DEF e, new, k, Operations, VoiceStates
  <2> QED
    BY <2>1, <2>2, <2>4, <2>5
<1> HIDE DEF e, k, new
<1>3. ASSUME NEW c \in Cue
      PROVE  /\ k[c] \in Runtime /\ e[c] \in VoiceStates
             /\ ChildSound(c, k[c], def.kids[c], Ready(c), e[c])
             /\ k[c].voice = c => s.kid[c].voice = c \/ c \in new
             /\ k[c].state \in Holding => s.kid[c].state \in Holding \/ ops[c] = "go"
             /\ ops[c] \in {"stop", "hard_stop", "reset"} => k[c].state = "standby"
             /\ ops[c] \in {"none", "tick"} => k[c].state = s.kid[c].state
             /\ ops[c] = "none" => k[c] = s.kid[c]
             /\ ops[c] \in {"none", "tick", "go", "reset"} /\ s.eng[c] = "playing"
                  => e[c] = "playing"
  <2> DEFINE ready == Ready(c)
  <2>1. /\ k[c] = After(ops[c], s.kid[c], def.kids[c], ready, c)
        /\ e[c] = VoiceAfter(c, ops[c], s.kid[c], def.kids[c], ready, s.eng[c])
        /\ c \in new <=> Submits(ops[c], s.kid[c], def.kids[c], ready)
        /\ ops[c] \in Operations /\ s.kid[c] \in Runtime /\ def.kids[c] \in CueDef
        /\ ready \in BOOLEAN /\ c \in Voice /\ s.eng[c] \in VoiceStates
        /\ ChildSound(c, s.kid[c], def.kids[c], ready, s.eng[c])
        /\ MayCall(ops[c], s.kid[c], def.kids[c], s.eng[c])
    BY <1>2 DEF Sound, MayDo
  <2> HIDE DEF ready, Operations, VoiceStates
  <2>2. k[c] \in Runtime
    BY <2>1, ChildType
  <2>3. LET x == After(ops[c], s.kid[c], def.kids[c], ready, c)
            y == VoiceAfter(c, ops[c], s.kid[c], def.kids[c], ready, s.eng[c])
        IN  /\ ChildSound(c, x, def.kids[c], ready, y)
            /\ x.voice = c => s.kid[c].voice = c \/ Submits(ops[c], s.kid[c], def.kids[c], ready)
            /\ x.state \in Holding => s.kid[c].state \in Holding \/ ops[c] = "go"
            /\ ops[c] \in {"stop", "hard_stop", "reset"} => x.state = "standby"
            /\ ops[c] \in {"none", "tick"} => x.state = s.kid[c].state
            /\ ops[c] = "none" => x = s.kid[c]
            /\ ops[c] \in {"none", "tick", "go", "reset"} /\ s.eng[c] = "playing"
                 => y = "playing"
            /\ y \in VoiceStates
    BY <2>1, ChildStaysSound
  <2> QED
    BY <2>1, <2>2, <2>3 DEF ready
<1>4. k \in [Cue -> Runtime] /\ e \in [Voice -> VoiceStates] /\ new \in SUBSET Voice
  <2>1. k = [c \in Cue |-> k[c]] /\ e = [c \in Cue |-> e[c]]
    BY DEF k, e
  <2>2. new \subseteq Cue
    BY DEF new
  <2> QED
    BY <1>1, <1>3, <2>1, <2>2
<1>5. t = [s EXCEPT !.kid = k, !.eng = e, !.queue = @ \ new, !.seen = @ \ new]
  BY DEF Do, k, e, new
<1>6. /\ t \in Stages /\ t.group = s.group /\ t.kid = k /\ t.eng = e
      /\ t.queue = s.queue \ new /\ t.seen = s.seen \ new
  <2> HIDE DEF t, VoiceStates
  <2>1. s \in [group: GroupRuntime, kid: [Cue -> Runtime], eng: [Voice -> VoiceStates],
               queue: SUBSET Voice, seen: SUBSET Voice]
    BY DEF Stages
  <2> QED
    BY <1>4, <1>5, <2>1 DEF Stages
<1> HIDE DEF t
<1>7. Sound(t)
  <2>1. ASSUME NEW c \in Cue
        PROVE  /\ ChildSound(c, t.kid[c], def.kids[c], Ready(c), t.eng[c])
               /\ t.kid[c].state \in Holding => t.group.state # "standby"
               /\ Endless(c) /\ t.kid[c].voice = c => c \notin t.queue \cup t.seen
    <3>1. ChildSound(c, t.kid[c], def.kids[c], Ready(c), t.eng[c])
      BY <1>3, <1>6
    <3>2. t.kid[c].state \in Holding => t.group.state # "standby"
      BY <1>3, <1>6 DEF Sound, MayDo
    <3>3. Endless(c) /\ t.kid[c].voice = c => c \notin t.queue \cup t.seen
      BY <1>3, <1>6 DEF Sound
    <3> QED
      BY <3>1, <3>2, <3>3
  <2> QED
    BY <2>1 DEF Sound
<1>8. t.seen \subseteq s.seen
  BY <1>6
<1> QED
  BY <1>3, <1>6, <1>7, <1>8 DEF t

---------------------------------------------------------------------------
(***************************************************************************)
(* The same call on several children.                                       *)
(***************************************************************************)
\* A reset does not make a voice play on that nobody owns.
Quiet(s, c) == ~(Endless(c) /\ s.eng[c] = "playing")

\* The call may be made on every child of the set.
MayCallOn(s, set, op) ==
  /\ op # "preload"
  /\ op = "go" => s.group.state # "standby"
  /\ op = "tick" => set \subseteq In(s, {"running"})
  /\ op = "pause" => set \subseteq In(s, {"running"})
  /\ op = "resume" => set \subseteq In(s, {"paused"})
  /\ op = "reset" => \A c \in set \cap Cue : Quiet(s, c)

\* The children it is not made on are left alone.
LEMMA CallsOn ==
  ASSUME def \in GroupDef, NEW s \in Stages, Sound(s), NEW set, NEW op \in Operations,
         MayCallOn(s, set, op)
  PROVE  LET t == Do(s, On(set, op))
         IN  /\ t \in Stages /\ Sound(t) /\ t.group = s.group
             /\ Active(t) \subseteq Active(s) \cup set
             /\ op # "go" => Active(t) \subseteq Active(s)
             /\ op \in {"stop", "hard_stop", "reset"} => Active(t) \subseteq Active(s) \ set
             /\ op = "tick" => \A c \in Cue : t.kid[c].state = s.kid[c].state
             /\ \A c \in Cue \ set : t.kid[c] = s.kid[c]
             /\ op \in {"go", "tick", "reset"} \/ set = {} => Spares(s, t)
<1> DEFINE ops == On(set, op)
           t == Do(s, ops)
<1>1. ops \in [Cue -> Operations]
  BY DEF On
<1>2. ASSUME NEW c \in Cue
      PROVE  /\ ops[c] = IF c \in set THEN op ELSE "none"
  BY DEF On
<1>3. MayDo(s, ops)
  <2>1. ASSUME NEW c \in Cue
        PROVE  MayCall(ops[c], s.kid[c], def.kids[c], s.eng[c])
               /\ (ops[c] = "go" => s.group.state # "standby")
    <3>1. CASE c \in set
      <4>1. ops[c] = op
        BY <1>2, <3>1
      <4> HIDE DEF ops
      <4> QED
        BY <3>1, <4>1 DEF MayCall, MayCallOn, In, Quiet, Endless
    <3>2. CASE c \notin set
      <4>1. ops[c] = "none"
        BY <1>2, <3>2
      <4> HIDE DEF ops
      <4> QED
        BY <4>1 DEF MayCall
    <3> QED
      BY <3>1, <3>2
  <2> QED
    BY <2>1 DEF MayDo
<1> HIDE DEF ops
<1>4. /\ t \in Stages /\ Sound(t) /\ t.group = s.group
      /\ \A c \in Cue :
           /\ t.kid[c].state \in Holding => s.kid[c].state \in Holding \/ ops[c] = "go"
           /\ ops[c] \in {"stop", "hard_stop", "reset"} => t.kid[c].state = "standby"
           /\ ops[c] \in {"none", "tick"} => t.kid[c].state = s.kid[c].state
           /\ ops[c] = "none" => t.kid[c] = s.kid[c]
           /\ ops[c] \in {"none", "tick", "go", "reset"} /\ s.eng[c] = "playing"
                => t.eng[c] = "playing"
  BY <1>1, <1>3, DoSound
<1> HIDE DEF t
<1>5. /\ Active(t) \subseteq Active(s) \cup set
      /\ op # "go" => Active(t) \subseteq Active(s)
      /\ op \in {"stop", "hard_stop", "reset"} => Active(t) \subseteq Active(s) \ set
  BY <1>2, <1>4 DEF Active, In, Holding
<1>6. op = "tick" => \A c \in Cue : t.kid[c].state = s.kid[c].state
  BY <1>2, <1>4
<1>7. \A c \in Cue \ set : t.kid[c] = s.kid[c]
  BY <1>2, <1>4
<1>8. op \in {"go", "tick", "reset"} \/ set = {} => Spares(s, t)
  BY <1>2, <1>4 DEF Spares
<1> QED
  BY <1>4, <1>5, <1>6, <1>7, <1>8 DEF t, ops

\* A child that does not hold a voice of its own may be reset.
LEMMA QuietChildren ==
  ASSUME NEW s \in Stages, Sound(s), NEW c \in Cue
  PROVE  /\ s.kid[c].state # "running" => Quiet(s, c)
         /\ def.kids[c].length # "loop" => Quiet(s, c)
         /\ def.kids[c].kind = "wait" => Quiet(s, c)
         /\ s.kid[c].voice \in s.seen => Quiet(s, c)
BY ChildAssumption DEF Sound, ChildSound, Quiet, Endless, Holding, Voiced

\* Only the group's own fields differ.
Regrouped(s, t) ==
  t \in Stages /\ t.kid = s.kid /\ t.eng = s.eng /\ t.queue = s.queue /\ t.seen = s.seen

\* A stage stays sound when its group does not go back to Standby.
LEMMA RegroupedSound ==
  ASSUME NEW s \in Stages, NEW t, Regrouped(s, t), Sound(s),
         s.group.state # "standby" => t.group.state # "standby"
  PROVE  t \in Stages /\ Sound(t) /\ Active(t) = Active(s) /\ Spares(s, t)
BY DEF Regrouped, Sound, ChildSound, Active, In, Spares, Holding

---------------------------------------------------------------------------
(***************************************************************************)
(* Firing.  Single says that a playlist plays one child at a time, Follows  *)
(* that the child it plays is the one the sequence has come to, unless it   *)
(* is done (a GO is awaited, or it was told where to go on).                *)
(***************************************************************************)
Single(s) == def.mode = "playlist" => \A c, d \in Active(s) : c = d

Follows(s) ==
  def.mode = "playlist" /\ ~s.group.done /\ s.group.current # 0
    => Active(s) \subseteq {s.group.current}

Alone(s) == Single(s) /\ Follows(s)

\* A set of numbers that is not empty has a least one.
LEMMA Least ==
  ASSUME NEW T \in SUBSET Nat, T # {}
  PROVE  \E x \in T : \A y \in T : x <= y
<1> DEFINE R == {p \in Nat \X Nat : p[1] < p[2]}
<1>1. R = OpToRel(<, Nat)
  BY DEF OpToRel
<1>2. IsWellFoundedOn(R, Nat)
  BY <1>1, NatLessThanWellFounded
<1>3. \E x \in T : \A y \in T : ~(<<y, x>> \in R)
  <2> HIDE DEF R
  <2> QED
    BY <1>2, WFMin
<1>4. \A x, y \in Nat : <<y, x>> \in R <=> y < x
  OBVIOUS
<1>5. \A x, y \in Nat : ~(y < x) => x <= y
  OBVIOUS
<1> QED
  <2> HIDE DEF R
  <2> QED
    BY <1>3, <1>4, <1>5

\* A firing stops at a child or runs off the list; in a playlist no child pulls the next.
LEMMA ChainEnds ==
  ASSUME NEW s, NEW c \in 1..N
  PROVE  /\ ChainEnd(s, c) \in c..(N + 1)
         /\ def.mode = "playlist" => ChainEnd(s, c) = c
<1> DEFINE Ends == {e \in c..(N + 1) : e = N + 1 \/ ~Pulls(s, e)}
           Good(e) == (\A k \in c..(e - 1) : Pulls(s, k)) /\ (e = N + 1 \/ ~Pulls(s, e))
<1>1. N \in Nat /\ N + 1 \in c..(N + 1)
  BY ChildAssumption
<1>2. Ends \subseteq Nat /\ Ends # {}
  BY <1>1
<1>3. PICK e \in Ends : \A y \in Ends : e <= y
  BY <1>2, Least
<1>4. Good(e)
  <2>1. ASSUME NEW k \in c..(e - 1)
        PROVE  Pulls(s, k)
    <3>1. k \in c..(N + 1) /\ ~(e <= k)
      BY <1>1, <1>3
    <3>2. k \notin Ends
      BY <1>3, <3>1
    <3> QED
      BY <3>1, <3>2
  <2>2. e = N + 1 \/ ~Pulls(s, e)
    BY <1>3
  <2> QED
    BY <2>1, <2>2
<1>5. ChainEnd(s, c) \in c..(N + 1) /\ Good(ChainEnd(s, c))
  <2>1. \E x \in c..(N + 1) : Good(x)
    BY <1>3, <1>4
  <2>2. ChainEnd(s, c) = CHOOSE x \in c..(N + 1) : Good(x)
    BY DEF ChainEnd
  <2> HIDE DEF Good
  <2> QED
    BY <2>1, <2>2
<1>6. ASSUME def.mode = "playlist"
      PROVE  ChainEnd(s, c) = c
  <2>1. ~Pulls(s, c)
    BY <1>6 DEF Pulls
  <2>2. ~(c < ChainEnd(s, c))
    <3>1. SUFFICES ASSUME c < ChainEnd(s, c) PROVE FALSE
      OBVIOUS
    <3>2. c \in c..(ChainEnd(s, c) - 1)
      BY <1>1, <1>5, <3>1
    <3> QED
      BY <1>5, <2>1, <3>2
  <2> QED
    BY <1>1, <1>5, <2>2
<1> QED
  BY <1>5, <1>6

\* A GO that fails leaves its child in Standby.
LEMMA GoFails ==
  ASSUME def \in GroupDef, NEW s \in Stages, NEW c \in Cue, NEW set, c \in set, Fails(s, c)
  PROVE  Do(s, On(set, "go")).kid[c].state = "standby"
<1> DEFINE r == s.kid[c]
           d == def.kids[c]
           x == After("go", r, d, Ready(c), c)
<1>1. r \in Runtime /\ d \in CueDef
  BY DEF Stages, GroupDef
<1>2. d.kind = "audio" /\ r.state # "running" /\ ~d.pre /\ ~Ready(c)
  BY DEF Fails
<1>3. x = AudioGo(r, d, Ready(c), c)
  BY <1>2 DEF After, Audio
<1>4. AudioGo(r, d, Ready(c), c).state = "standby"
  <2> HIDE DEF r, d
  <2> QED
    BY <1>1, <1>2 DEF AudioGo, Runtime
<1>5. Do(s, On(set, "go")).kid[c] = x
  BY DEF Do, On, Stages
<1> QED
  BY <1>3, <1>4, <1>5

\* What every firing keeps, whoever it fires.
Kept(s, t) ==
  /\ t \in Stages /\ Sound(t)
  /\ t.group.state = s.group.state /\ t.group.pre = s.group.pre
  /\ t.group.wait = s.group.wait

\* Firing from a child: a playlist stops what it played, unless the child fails; nothing
\* else is cut.
LEMMA FiresFrom ==
  ASSUME def \in GroupDef, NEW s \in Stages, Sound(s), Single(s),
         s.group.state # "standby", NEW c \in 1..N
  PROVE  LET t == FireFrom(s, c)
         IN  /\ Kept(s, t) /\ Alone(t)
             /\ def.mode # "playlist" \/ Active(s) = {} => Spares(s, t)
<1> DEFINE last  == ChainEnd(s, c)
           chain == (c..last) \cap Cue
           fired == Do(s, On(chain, "go"))
           a     == IF last > N THEN N ELSE last
           off   == last > N
           fails == Fails(s, last)
           moved == [fired EXCEPT !.group.current = a, !.group.done = @ \/ off \/ fails]
           rest  == Active(moved) \ {c}
           t     == FireFrom(s, c)
<1>0. N \in Nat /\ Cue = 1..N
  BY ChildAssumption
<1>1. last \in c..(N + 1) /\ (def.mode = "playlist" => last = c)
  BY ChainEnds
<1>2. a \in 0..N
  BY <1>0, <1>1
<1>3. t = IF def.mode = "playlist" /\ ~Fails(s, last) THEN Do(moved, On(rest, "stop"))
          ELSE moved
  BY DEF FireFrom, StopOthers
<1>4. /\ fired \in Stages /\ Sound(fired) /\ fired.group = s.group
      /\ Active(fired) \subseteq Active(s) \cup chain /\ Spares(s, fired)
      /\ \A k \in Cue \ chain : fired.kid[k] = s.kid[k]
  BY CallsOn DEF MayCallOn
<1>5. /\ Regrouped(fired, moved)
      /\ moved.group.current = a
      /\ moved.group.done = (fired.group.done \/ off \/ fails)
      /\ moved.group.state = fired.group.state /\ moved.group.pre = fired.group.pre
      /\ moved.group.wait = fired.group.wait
  <2>1. off \in BOOLEAN /\ fails \in BOOLEAN
    BY DEF Fails
  <2>2. moved = [fired EXCEPT !.group.current = a, !.group.done = @ \/ off \/ fails]
    OBVIOUS
  <2> HIDE DEF fired, last, a, off, fails, moved
  <2> QED
    BY <1>2, <1>4, <2>1, <2>2 DEF Stages, GroupRuntime, Regrouped
<1>6. /\ moved \in Stages /\ Sound(moved) /\ Active(moved) = Active(fired)
      /\ Spares(fired, moved)
  <2> HIDE DEF fired, moved
  <2> QED
    BY <1>4, <1>5, RegroupedSound
<1>7. Kept(s, moved) /\ Spares(s, moved)
  <2> HIDE DEF fired, moved
  <2> QED
    BY <1>4, <1>5, <1>6 DEF Kept, Spares
<1>8. ASSUME def.mode = "playlist"
      PROVE  chain = {c} /\ a = c /\ last = c
  BY <1>0, <1>1, <1>8
<1> HIDE DEF fired, moved, last, chain, a, off
<1>9. CASE def.mode # "playlist"
  <2>1. t = moved
    BY <1>3, <1>9
  <2> HIDE DEF t
  <2> QED
    BY <1>7, <1>9, <2>1 DEF Alone, Single, Follows, t
<1>10. CASE def.mode = "playlist" /\ Fails(s, last)
  <2>1. t = moved
    BY <1>3, <1>10
  <2>2. fired.kid[c].state = "standby"
    BY <1>0, <1>8, <1>10, GoFails DEF fired
  <2>3. Active(moved) \subseteq Active(s)
    BY <1>4, <1>6, <1>8, <1>10, <2>2 DEF Active, In
  <2>4. Single(moved) /\ moved.group.done
    BY <1>5, <1>10, <2>3 DEF Single
  <2> HIDE DEF t
  <2> QED
    BY <1>7, <2>1, <2>4 DEF Alone, Follows, t
<1>11. CASE def.mode = "playlist" /\ ~Fails(s, last)
  <2> DEFINE u == Do(moved, On(rest, "stop"))
  <2>1. t = u
    BY <1>3, <1>11
  <2>2. /\ u \in Stages /\ Sound(u) /\ u.group = moved.group
        /\ Active(u) \subseteq Active(moved) \ rest
        /\ rest = {} => Spares(moved, u)
    BY <1>6, CallsOn DEF MayCallOn
  <2> HIDE DEF u
  <2>3. Active(u) \subseteq {c}
    BY <2>2
  <2>4. Alone(u)
    BY <1>5, <1>8, <1>11, <2>2, <2>3 DEF Alone, Single, Follows
  <2>5. Kept(s, u)
    BY <1>7, <2>2 DEF Kept
  <2>6. Active(s) = {} => Spares(s, u)
    BY <1>4, <1>6, <1>7, <1>8, <1>11, <2>2 DEF Spares
  <2> HIDE DEF t
  <2> QED
    BY <1>11, <2>1, <2>4, <2>5, <2>6 DEF t
<1> QED
  BY <1>9, <1>10, <1>11

\* Firing the next child.
LEMMA FiresNext ==
  ASSUME def \in GroupDef, NEW s \in Stages, Sound(s), Single(s), s.group.state # "standby"
  PROVE  LET t == FireNext(s)
         IN  /\ Kept(s, t) /\ Alone(t)
             /\ def.mode # "playlist" \/ Active(s) = {} => Spares(s, t)
<1> DEFINE t == FireNext(s)
<1>0. N \in Nat \ {0} /\ s.group.current \in 0..N
  BY ChildAssumption DEF Stages, GroupRuntime
<1>1. CASE HasNext(s.group)
  <2>1. s.group.current + 1 \in 1..N
    BY <1>0, <1>1 DEF HasNext
  <2>2. t = FireFrom(s, s.group.current + 1)
    BY <1>1 DEF FireNext
  <2> QED
    BY <2>1, <2>2, FiresFrom
<1>2. CASE ~HasNext(s.group) /\ def.mode = "playlist" /\ def.loop
  <2>1. 1 \in 1..N
    BY <1>0
  <2>2. t = FireFrom(s, 1)
    BY <1>2 DEF FireNext
  <2> QED
    BY <2>1, <2>2, FiresFrom
<1>3. CASE ~HasNext(s.group) /\ ~(def.mode = "playlist" /\ def.loop)
  <2>1. t = [s EXCEPT !.group.done = TRUE]
    BY <1>3 DEF FireNext
  <2> HIDE DEF t
  <2>2. /\ Regrouped(s, t) /\ t.group.done /\ t.group.state = s.group.state
        /\ t.group.pre = s.group.pre /\ t.group.wait = s.group.wait
    BY <2>1 DEF Stages, GroupRuntime, Regrouped
  <2>3. t \in Stages /\ Sound(t) /\ Active(t) = Active(s) /\ Spares(s, t)
    BY <2>2, RegroupedSound
  <2> QED
    BY <2>2, <2>3 DEF Kept, Alone, Single, Follows, t
<1> QED
  BY <1>1, <1>2, <1>3

\* A random draw.
LEMMA FiresRandom ==
  ASSUME def \in GroupDef, NEW s \in Stages, Sound(s), s.group.state # "standby",
         NEW c \in Cue, def.mode = "random"
  PROVE  LET t == FireRandom(s, c)
         IN  Kept(s, t) /\ Alone(t) /\ Spares(s, t)
<1> DEFINE fired == Do(s, On({c}, "go"))
           bag == Draws(s.group) \ {c}
           hit == IF Fails(s, c) THEN 0 ELSE c
           t == FireRandom(s, c)
<1>1. bag \in SUBSET Cue /\ hit \in 0..N
  BY ChildAssumption DEF Draws, Stages, GroupRuntime
<1>2. fired \in Stages /\ Sound(fired) /\ fired.group = s.group /\ Spares(s, fired)
  BY CallsOn DEF MayCallOn
<1>3. t = [fired EXCEPT !.group.bag = bag, !.group.random = hit]
  BY DEF FireRandom
<1> HIDE DEF fired, bag, hit, t
<1>4. /\ Regrouped(fired, t) /\ t.group.state = fired.group.state
      /\ t.group.pre = fired.group.pre /\ t.group.wait = fired.group.wait
  BY <1>1, <1>2, <1>3 DEF Stages, GroupRuntime, Regrouped
<1>5. t \in Stages /\ Sound(t) /\ Spares(fired, t)
  BY <1>2, <1>4, RegroupedSound
<1> QED
  BY <1>2, <1>4, <1>5 DEF Kept, Alone, Single, Follows, Spares, t

---------------------------------------------------------------------------
(***************************************************************************)
(* The life cycle of the group.                                             *)
(***************************************************************************)
\* The stage of a group that is left in the state it is told to.
Left(t, state) == t \in Stages /\ Sound(t) /\ Alone(t) /\ t.group.state = state

\* A playlist that has no pre-wait and none of whose children has a post-wait.
CalmDef(g) == g.mode = "playlist" => ~g.pre /\ \A c \in Cue : ~g.kids[c].post

\* The action of the group begins, whatever it was at.
LEMMA ActionStarts ==
  ASSUME def \in GroupDef, NEW s \in Stages, Sound(s), Single(s), NEW c \in Cue
  PROVE  LET t == StartAction(s, c)
         IN  /\ Left(t, "running") /\ ~t.group.pre /\ t.group.wait = "none"
             /\ def.mode # "playlist" => Spares(s, t)
<1> DEFINE begun == [s EXCEPT !.group.pre = FALSE, !.group.ripe = FALSE,
                              !.group.state = "running",
                              !.group.done = FALSE, !.group.wait = "none"]
           t == StartAction(s, c)
<1>1. t = CASE def.mode = "simultaneous" -> Do(begun, On(Cue, "go"))
            [] def.mode \in {"sequential", "playlist"} -> FireNext(begun)
            [] def.mode = "random" -> FireRandom(begun, c)
  BY DEF StartAction
<1>2. /\ Regrouped(s, begun) /\ begun.group.state = "running" /\ ~begun.group.pre
      /\ begun.group.wait = "none"
  BY DEF Stages, GroupRuntime, Regrouped
<1> HIDE DEF begun, t
<1>3. begun \in Stages /\ Sound(begun) /\ Active(begun) = Active(s) /\ Spares(s, begun)
  BY <1>2, RegroupedSound
<1>4. Single(begun)
  BY <1>3 DEF Single
<1>5. ASSUME Kept(begun, t) \/ (t \in Stages /\ Sound(t) /\ t.group = begun.group), Alone(t),
             def.mode # "playlist" => Spares(begun, t)
      PROVE  /\ Left(t, "running") /\ ~t.group.pre /\ t.group.wait = "none"
             /\ def.mode # "playlist" => Spares(s, t)
  BY <1>2, <1>3, <1>5 DEF Left, Kept, Spares
<1>6. CASE def.mode = "simultaneous"
  <2> DEFINE u == Do(begun, On(Cue, "go"))
  <2>1. t = u
    BY <1>1, <1>6
  <2>2. u \in Stages /\ Sound(u) /\ u.group = begun.group /\ Spares(begun, u)
    BY <1>2, <1>3, CallsOn DEF MayCallOn
  <2> HIDE DEF u
  <2>3. Alone(u)
    BY <1>6 DEF Alone, Single, Follows
  <2> QED
    BY <1>5, <2>1, <2>2, <2>3 DEF t
<1>7. CASE def.mode \in {"sequential", "playlist"}
  <2>1. t = FireNext(begun)
    BY <1>1, <1>7
  <2>2. Kept(begun, t) /\ Alone(t) /\ (def.mode # "playlist" => Spares(begun, t))
    BY <1>2, <1>3, <1>4, <2>1, FiresNext
  <2> QED
    BY <1>5, <2>2 DEF t
<1>8. CASE def.mode = "random"
  <2>1. t = FireRandom(begun, c)
    BY <1>1, <1>8
  <2>2. Kept(begun, t) /\ Alone(t) /\ Spares(begun, t)
    BY <1>2, <1>3, <1>8, <2>1, FiresRandom
  <2> QED
    BY <1>5, <2>2 DEF t
<1> QED
  BY <1>6, <1>7, <1>8 DEF GroupDef, GroupModes

\* A GO runs the group: it fires the next child, or the group from its pre-wait on.
LEMMA GroupGoes ==
  ASSUME def \in GroupDef, NEW s \in Stages, Sound(s), Alone(s), NEW c \in Cue
  PROVE  LET t == GroupGo(s, c)
         IN  /\ Left(t, "running")
             /\ t.group.pre => def.pre \/ s.group.pre
             /\ t.group.wait \in {"none", s.group.wait}
<1> DEFINE started == s.group.state = "running" /\ ~s.group.pre
           next == /\ started /\ def.mode \in {"sequential", "playlist"}
                   /\ s.group.current # 0 \/ s.group.done
           t == GroupGo(s, c)
<1>1. t = CASE next -> FireNext([s EXCEPT !.group.done = FALSE])
            [] started /\ def.mode = "random" -> FireRandom(s, c)
            [] OTHER
                 -> IF def.pre
                    THEN [s EXCEPT !.group.state = "running",
                                   !.group.pre = TRUE, !.group.ripe = FALSE]
                    ELSE StartAction(s, c)
  BY DEF GroupGo
<1>2. ~(next /\ started /\ def.mode = "random")
  OBVIOUS
<1>3. next => started
  OBVIOUS
<1>4. started => s.group.state = "running"
  OBVIOUS
<1>5. Single(s)
  BY DEF Alone
<1> HIDE DEF next, started, t
<1>6. CASE next
  <2> DEFINE u == [s EXCEPT !.group.done = FALSE]
  <2>1. t = FireNext(u)
    BY <1>1, <1>2, <1>6
  <2>2. /\ Regrouped(s, u) /\ u.group.state = s.group.state /\ u.group.pre = s.group.pre
        /\ u.group.wait = s.group.wait
    BY DEF Stages, GroupRuntime, Regrouped
  <2> HIDE DEF u
  <2>3. u \in Stages /\ Sound(u) /\ Active(u) = Active(s)
    BY <2>2, RegroupedSound
  <2>4. Single(u) /\ u.group.state = "running"
    BY <1>3, <1>4, <1>5, <1>6, <2>2, <2>3 DEF Single
  <2>5. Kept(u, t) /\ Alone(t)
    BY <2>1, <2>3, <2>4, FiresNext
  <2> QED
    BY <2>2, <2>4, <2>5 DEF Kept, Left, t
<1>7. CASE started /\ def.mode = "random"
  <2>1. t = FireRandom(s, c)
    BY <1>1, <1>2, <1>7
  <2>2. Kept(s, t) /\ Alone(t)
    BY <1>4, <1>7, <2>1, FiresRandom
  <2> QED
    BY <1>4, <1>7, <2>2 DEF Kept, Left, t
<1>8. CASE ~next /\ ~(started /\ def.mode = "random") /\ def.pre
  <2>1. t = [s EXCEPT !.group.state = "running", !.group.pre = TRUE, !.group.ripe = FALSE]
    BY <1>1, <1>8
  <2>2. /\ Regrouped(s, t) /\ t.group.state = "running" /\ t.group.wait = s.group.wait
        /\ t.group.done = s.group.done /\ t.group.current = s.group.current
    BY <2>1 DEF Stages, GroupRuntime, Regrouped
  <2>3. t \in Stages /\ Sound(t) /\ Active(t) = Active(s)
    BY <2>2, RegroupedSound
  <2> QED
    BY <1>8, <2>2, <2>3 DEF Left, Alone, Single, Follows, t
<1>9. CASE ~next /\ ~(started /\ def.mode = "random") /\ ~def.pre
  <2>1. t = StartAction(s, c)
    BY <1>1, <1>9
  <2>2. Left(t, "running") /\ ~t.group.pre /\ t.group.wait = "none"
    BY <1>5, <2>1, ActionStarts
  <2> QED
    BY <2>2 DEF t
<1> QED
  BY <1>6, <1>7, <1>8, <1>9

\* A reset of the group, where no voice would be left to play for ever.
LEMMA GroupResets ==
  ASSUME def \in GroupDef, NEW s \in Stages, Sound(s), \A c \in Cue : Quiet(s, c)
  PROVE  LET t == GroupReset(s)
         IN  /\ Left(t, "standby") /\ t.group = Rest /\ Active(t) = {} /\ Spares(s, t)
<1> DEFINE u == Do(s, On(Cue, "reset"))
           t == GroupReset(s)
<1>1. t = [u EXCEPT !.group = Rest]
  BY DEF GroupReset
<1>2. /\ u \in Stages /\ Sound(u) /\ Active(u) \subseteq Active(s) \ Cue /\ Spares(s, u)
  BY CallsOn DEF MayCallOn
<1> HIDE DEF u, t
<1>3. Rest \in GroupRuntime /\ Rest.state = "standby"
  BY ChildAssumption DEF Rest, GroupRuntime
<1>4. Regrouped(u, t) /\ t.group = Rest
  BY <1>1, <1>2, <1>3 DEF Stages, Regrouped
<1>5. Active(u) = {} /\ Active(t) = {}
  BY <1>2, <1>4 DEF Active, In, Regrouped
<1>6. Sound(t)
  BY <1>2, <1>4, <1>5 DEF Sound, Regrouped, Active, In, Holding
<1>7. Alone(t) /\ Spares(s, t)
  BY <1>2, <1>4, <1>5 DEF Alone, Single, Follows, Regrouped, Spares
<1> QED
  BY <1>3, <1>4, <1>5, <1>6, <1>7 DEF Left, Regrouped, t

\* A stop reaches every active child, and leaves the group as a reset does.
LEMMA GroupStops ==
  ASSUME def \in GroupDef, NEW s \in Stages, Sound(s), NEW op \in {"stop", "hard_stop"}
  PROVE  LET t == GroupStop(s, op)
         IN  Left(t, "standby") /\ t.group = Rest
<1> DEFINE u == Do(s, On(Active(s), op))
<1>1. u \in Stages /\ Sound(u) /\ Active(u) \subseteq Active(s) \ Active(s)
  BY CallsOn DEF MayCallOn
<1>2. GroupStop(s, op) = GroupReset(u)
  BY DEF GroupStop
<1> HIDE DEF u
<1>3. \A c \in Cue : Quiet(u, c)
  BY <1>1, QuietChildren DEF Active, In
<1> QED
  BY <1>1, <1>2, <1>3, GroupResets

\* A pause and a resume touch the active children only, and not where the sequence is.
LEMMA GroupPausesAndResumes ==
  ASSUME def \in GroupDef, NEW s \in Stages, Sound(s), Alone(s),
         NEW states \in {"paused", "running"}, NEW t,
         \/ t = GroupPause(s) /\ states = "paused"
         \/ t = GroupResume(s) /\ states = "running"
  PROVE  /\ Left(t, states) /\ t.group.pre = s.group.pre
         /\ t.group.current = s.group.current /\ t.group.wait = s.group.wait
<1>1. PICK u \in {Do(s, On(In(s, {"running"}), "pause")), Do(s, On(In(s, {"paused"}), "resume"))} :
        t = [u EXCEPT !.group.state = states]
  BY DEF GroupPause, GroupResume
<1>2. /\ u \in Stages /\ Sound(u) /\ u.group = s.group /\ Active(u) \subseteq Active(s)
  BY <1>1, CallsOn DEF MayCallOn
<1>3. /\ Regrouped(u, t) /\ t.group.state = states /\ t.group.pre = s.group.pre
      /\ t.group.current = s.group.current /\ t.group.wait = s.group.wait
      /\ t.group.done = s.group.done
  BY <1>1, <1>2 DEF Stages, GroupRuntime, Regrouped
<1>4. t \in Stages /\ Sound(t) /\ Active(t) = Active(u)
  BY <1>2, <1>3, RegroupedSound
<1> QED
  BY <1>2, <1>3, <1>4 DEF Left, Alone, Single, Follows

\* The inner playhead is put before a child.
LEMMA ActiveChildSet ==
  ASSUME NEW s \in Stages, Sound(s), Alone(s), NEW c \in 1..N
  PROVE  LET t == SetActiveChild(s, c)
         IN  /\ Left(t, s.group.state) /\ t.group.pre = s.group.pre
             /\ t.group.wait \in {"none", s.group.wait}
             /\ Ordered => HasNext(t.group)
<1> DEFINE t == SetActiveChild(s, c)
<1>1. CASE ~Ordered
  BY <1>1 DEF SetActiveChild, Ordered, Left
<1>2. CASE Ordered
  <2>1. t = [s EXCEPT !.group.current = c - 1, !.group.done = TRUE, !.group.wait = "none"]
    BY <1>2 DEF SetActiveChild, Ordered
  <2>2. c - 1 \in 0..N /\ c - 1 < N
    BY ChildAssumption
  <2> HIDE DEF t
  <2>3. /\ Regrouped(s, t) /\ t.group.state = s.group.state /\ t.group.pre = s.group.pre
        /\ t.group.wait = "none" /\ t.group.current = c - 1 /\ t.group.done
    BY <2>1, <2>2 DEF Stages, GroupRuntime, Regrouped
  <2>4. t \in Stages /\ Sound(t) /\ Active(t) = Active(s)
    BY <2>3, RegroupedSound
  <2> QED
    BY <2>2, <2>3, <2>4 DEF Left, Alone, Single, Follows, HasNext, t
<1> QED
  BY <1>1, <1>2

---------------------------------------------------------------------------
(***************************************************************************)
(* The tick.                                                                *)
(***************************************************************************)
\* The children whose driver has run out may be reset.
LEMMA FinishedAreQuiet ==
  ASSUME def \in GroupDef, NEW s \in Stages, Sound(s), NEW c \in Cue, NEW t, TimeDone(t, c)
  PROVE  Quiet(s, c)
BY QuietChildren DEF TimeDone

\* What a step of the sequence leaves; a playlist without post-waits cuts nothing, since
\* the child it goes on from is the only one it played.
Stepped(s, t) ==
  /\ Left(t, s.group.state) /\ t.group.pre = s.group.pre
  /\ CalmDef(def) => Spares(s, t)
  /\ CalmDef(def) /\ def.mode = "playlist" /\ s.group.wait = "none" => t.group.wait = "none"

\* The sequence goes on from a child that is over.
LEMMA Advances ==
  ASSUME def \in GroupDef, NEW s \in Stages, Sound(s), Alone(s), Ordered,
         s.group.state # "standby", ~s.group.done, s.group.current \in 1..N,
         Quiet(s, s.group.current)
  PROVE  Stepped(s, Advance(s))
<1> DEFINE c    == s.group.current
           over == Do(s, On({c}, "reset"))
           d    == def.kids[c]
           wait == d.post /\ (def.mode = "playlist" \/ d.mode = "continue")
           t    == Advance(s)
<1>0. c \in Cue /\ c # 0
  BY ChildAssumption
<1>1. t = CASE def.mode = "sequential" /\ d.mode = "none" -> [over EXCEPT !.group.done = TRUE]
            [] wait  -> [over EXCEPT !.group.wait = "waiting"]
            [] OTHER -> FireNext(over)
  BY DEF Advance
<1>2. /\ over \in Stages /\ Sound(over) /\ over.group = s.group
      /\ Active(over) \subseteq Active(s) \ {c} /\ Spares(s, over)
  <2> DEFINE driver == {c}
  <2>1. MayCallOn(s, driver, "reset") /\ over = Do(s, On(driver, "reset"))
    BY DEF MayCallOn
  <2> HIDE DEF driver, over
  <2>2. /\ over \in Stages /\ Sound(over) /\ over.group = s.group
        /\ Active(over) \subseteq Active(s) \ driver /\ Spares(s, over)
    BY <2>1, CallsOn
  <2> QED
    BY <2>2 DEF driver
<1>3. def.mode = "playlist" => Active(over) = {}
  BY <1>0, <1>2 DEF Alone, Follows
<1> DEFINE told == def.mode = "sequential" /\ d.mode = "none"
<1>4. ~(told /\ wait)
  OBVIOUS
<1> HIDE DEF over, t, wait
<1>5. ASSUME NEW u, Regrouped(over, u), u.group.state = s.group.state,
             u.group.pre = s.group.pre,
             CalmDef(def) /\ def.mode = "playlist" /\ s.group.wait = "none"
               => u.group.wait = "none"
      PROVE  Stepped(s, u)
  <2>1. u \in Stages /\ Sound(u) /\ Active(u) = Active(over) /\ Spares(over, u)
    BY <1>2, <1>5, RegroupedSound
  <2>2. Alone(u)
    BY <1>3, <2>1 DEF Alone, Single, Follows
  <2> QED
    BY <1>2, <1>5, <2>1, <2>2 DEF Stepped, Left, Spares
<1>6. CASE told
  <2> DEFINE u == [over EXCEPT !.group.done = TRUE]
  <2>1. t = u
    BY <1>1, <1>4, <1>6
  <2>2. /\ Regrouped(over, u) /\ u.group.state = over.group.state
        /\ u.group.pre = over.group.pre /\ u.group.wait = over.group.wait
    BY <1>2 DEF Stages, GroupRuntime, Regrouped
  <2> HIDE DEF u
  <2> QED
    BY <1>2, <1>5, <2>1, <2>2 DEF t
<1>7. CASE ~told /\ wait
  <2> DEFINE u == [over EXCEPT !.group.wait = "waiting"]
  <2>1. t = u
    BY <1>1, <1>7
  <2>2. /\ Regrouped(over, u) /\ u.group.state = over.group.state
        /\ u.group.pre = over.group.pre
    BY <1>2 DEF Stages, GroupRuntime, Regrouped
  <2>3. ~(CalmDef(def) /\ def.mode = "playlist")
    BY <1>0, <1>7 DEF CalmDef, wait
  <2> HIDE DEF u
  <2> QED
    BY <1>2, <1>5, <2>1, <2>2, <2>3 DEF t
<1>8. CASE ~told /\ ~wait
  <2>1. t = FireNext(over)
    BY <1>1, <1>8
  <2>2. Single(over)
    BY <1>3 DEF Single
  <2>3. Kept(over, t) /\ Alone(t) /\ Spares(over, t)
    BY <1>2, <1>3, <2>1, <2>2, FiresNext
  <2> QED
    BY <1>2, <2>3 DEF Kept, Stepped, Left, Spares, t
<1> QED
  BY <1>6, <1>7, <1>8

\* The tick of a sequence or of a playlist, past its pre-wait.
LEMMA SequenceTicks ==
  ASSUME def \in GroupDef, NEW s \in Stages, Sound(s), Alone(s), Ordered,
         s.group.state = "running",
         CalmDef(def) /\ def.mode = "playlist" => s.group.wait = "none"
  PROVE  Stepped(s, TickSequence(s))
<1> DEFINE g        == s.group
           ticked   == Do(s, On(Ticked(s), "tick"))
           finished == {c \in Ticked(s) : TimeDone(ticked, c)}
           swept    == Do(ticked, On(finished \ {g.current}, "reset"))
           over     == \/ g.current \in finished
                       \/ g.current # 0
                          /\ swept.kid[g.current].state \in {"standby", "completed"}
           advances == ~PassFails(s) /\ g.wait = "none" /\ over /\ ~Boundary(g)
           fires    == ~PassFails(s) /\ g.wait = "due"
           t        == TickSequence(s)
<1>1. t = CASE PassFails(s) -> swept
            [] fires    -> FireNext([swept EXCEPT !.group.wait = "none"])
            [] advances -> Advance(swept)
            [] OTHER    -> swept
  BY DEF TickSequence
<1>2. ~(PassFails(s) /\ fires) /\ ~(PassFails(s) /\ advances) /\ ~(fires /\ advances)
  OBVIOUS
<1>3. Ticked(s) \subseteq In(s, {"running"}) /\ Ticked(s) \subseteq Cue
  BY DEF Ticked, In
<1>4. /\ ticked \in Stages /\ Sound(ticked) /\ ticked.group = g
      /\ Active(ticked) \subseteq Active(s) /\ Spares(s, ticked)
  BY <1>3, CallsOn DEF MayCallOn
<1>5. finished \subseteq Cue /\ \A c \in finished : \A u \in Stages : Sound(u) => Quiet(u, c)
  BY <1>3, FinishedAreQuiet
<1>6. /\ swept \in Stages /\ Sound(swept) /\ swept.group = g
      /\ Active(swept) \subseteq Active(s) /\ Spares(s, swept)
  <2>1. /\ swept \in Stages /\ Sound(swept) /\ swept.group = ticked.group
        /\ Active(swept) \subseteq Active(ticked) /\ Spares(ticked, swept)
    <3> DEFINE others == finished \ {g.current}
    <3>1. \A c \in others \cap Cue : Quiet(ticked, c)
      BY <1>4, <1>5
    <3>2. swept = Do(ticked, On(others, "reset"))
      OBVIOUS
    <3> HIDE DEF ticked, finished, others, swept
    <3>3. MayCallOn(ticked, others, "reset")
      BY <3>1 DEF MayCallOn
    <3> QED
      BY <1>4, <3>2, <3>3, CallsOn
  <2> HIDE DEF ticked, swept
  <2> QED
    BY <1>4, <2>1 DEF Spares
<1>7. Alone(swept)
  BY <1>6 DEF Alone, Single, Follows
<1>8. advances => /\ ~g.done /\ g.current \in 1..N /\ Quiet(swept, g.current)
  <2> SUFFICES ASSUME advances
               PROVE  ~g.done /\ g.current \in 1..N /\ Quiet(swept, g.current)
    OBVIOUS
  <2>1. ~g.done
    BY DEF Boundary
  <2>2. g.current \in 0..N
    BY DEF Stages, GroupRuntime
  <2>3. CASE g.current \in finished
    <3> HIDE DEF swept, finished
    <3> QED
      BY <1>5, <1>6, <2>1, <2>3, ChildAssumption
  <2>4. CASE g.current # 0 /\ swept.kid[g.current].state \in {"standby", "completed"}
    <3>1. g.current \in 1..N
      BY <2>2, <2>4, ChildAssumption
    <3>2. swept.kid[g.current].state # "running"
      BY <2>4
    <3> HIDE DEF swept
    <3> QED
      BY <1>6, <2>1, <3>1, <3>2, ChildAssumption, QuietChildren
  <2> QED
    BY <2>3, <2>4
<1> HIDE DEF ticked, finished, swept, over, advances, t
<1>9. CASE advances
  <2>1. t = Advance(swept)
    BY <1>1, <1>2, <1>9
  <2>2. Stepped(swept, t)
    BY <1>6, <1>7, <1>8, <1>9, <2>1, Advances
  <2> QED
    BY <1>6, <2>2 DEF Stepped, Left, Spares, t
<1>10. CASE fires
  <2> DEFINE u == [swept EXCEPT !.group.wait = "none"]
  <2>1. t = FireNext(u)
    BY <1>1, <1>2, <1>10
  <2>2. /\ Regrouped(swept, u) /\ u.group.state = g.state /\ u.group.pre = g.pre
        /\ u.group.wait = "none"
    BY <1>6 DEF Stages, GroupRuntime, Regrouped
  <2>3. ~(CalmDef(def) /\ def.mode = "playlist")
    BY <1>10
  <2> HIDE DEF u, fires
  <2>4. u \in Stages /\ Sound(u) /\ Active(u) = Active(swept) /\ Spares(swept, u)
    BY <1>6, <2>2, RegroupedSound
  <2>5. Single(u)
    BY <1>7, <2>4 DEF Alone, Single
  <2>6. /\ Kept(u, t) /\ Alone(t)
        /\ def.mode # "playlist" => Spares(u, t)
    BY <2>1, <2>2, <2>4, <2>5, FiresNext
  <2> QED
    BY <1>6, <2>2, <2>3, <2>4, <2>6 DEF Stepped, Kept, Left, Spares, t
<1>11. CASE ~advances /\ ~fires
  <2>1. t = swept
    BY <1>1, <1>11
  <2> QED
    BY <1>6, <1>7, <2>1 DEF Stepped, Left, t
<1> QED
  BY <1>9, <1>10, <1>11

\* The tick of the other groups.
LEMMA OthersTick ==
  ASSUME def \in GroupDef, NEW s \in Stages, Sound(s), ~Ordered
  PROVE  /\ Left(TickAll(s), s.group.state) /\ TickAll(s).group.pre = s.group.pre
         /\ Spares(s, TickAll(s))
<1> DEFINE ticked   == Do(s, On(Ticked(s), "tick"))
           finished == {c \in Ticked(s) : TimeDone(ticked, c)}
           swept    == Do(ticked, On(finished, "reset"))
           t        == TickAll(s)
<1>3. Ticked(s) \subseteq In(s, {"running"}) /\ Ticked(s) \subseteq Cue
  BY DEF Ticked, In
<1>4. ticked \in Stages /\ Sound(ticked) /\ ticked.group = s.group /\ Spares(s, ticked)
  BY <1>3, CallsOn DEF MayCallOn
<1>5. finished \subseteq Cue /\ \A c \in finished : Quiet(ticked, c)
  BY <1>3, <1>4, FinishedAreQuiet
<1>6. swept \in Stages /\ Sound(swept) /\ swept.group = s.group /\ Spares(s, swept)
  <2>1. /\ swept \in Stages /\ Sound(swept) /\ swept.group = ticked.group
        /\ Spares(ticked, swept)
    <3> HIDE DEF ticked, finished
    <3> QED
      BY <1>4, <1>5, CallsOn DEF MayCallOn
  <2> HIDE DEF ticked, swept
  <2> QED
    BY <1>4, <2>1 DEF Spares
<1>7. PICK i \in 0..N : t = [swept EXCEPT !.group.random = i]
  <2>1. t = [swept EXCEPT !.group.random =
               IF def.mode = "random" /\ swept.group.random \in finished THEN 0
               ELSE swept.group.random]
    BY DEF TickAll
  <2>2. swept.group.random \in 0..N /\ 0 \in 0..N
    BY <1>6, ChildAssumption DEF Stages, GroupRuntime
  <2> HIDE DEF swept, finished, t
  <2> QED
    BY <2>1, <2>2
<1> HIDE DEF swept, t
<1>8. Regrouped(swept, t) /\ t.group.state = s.group.state /\ t.group.pre = s.group.pre
  BY <1>6, <1>7 DEF Stages, GroupRuntime, Regrouped
<1>9. t \in Stages /\ Sound(t) /\ Spares(swept, t)
  BY <1>6, <1>8, RegroupedSound
<1> QED
  BY <1>6, <1>8, <1>9 DEF Left, Alone, Single, Follows, Ordered, Spares, t

\* What a tick does to the group: it leaves its state alone, and the playhead where it was
\* unless the group is running.
LEMMA TickKeeps ==
  ASSUME def \in GroupDef, NEW s \in Stages, Sound(s), Alone(s), NEW c \in Cue,
         s.group.pre => def.pre,
         CalmDef(def) /\ def.mode = "playlist" => s.group.wait = "none"
  PROVE  LET t == Tick(s, c)
         IN  /\ Left(t, s.group.state)
             /\ t.group.pre => def.pre
             /\ CalmDef(def) /\ def.mode = "playlist" => t.group.wait = "none"
             /\ CalmDef(def) => Spares(s, t)
             /\ s.group.state # "running" => t = s
<1> DEFINE running == s.group.state = "running"
           pre     == s.group.pre
           t       == Tick(s, c)
<1>1. t = CASE ~running -> s
            [] running /\ pre  -> IF s.group.ripe THEN StartAction(s, c) ELSE s
            [] running /\ ~pre -> IF def.mode \in {"sequential", "playlist"}
                                  THEN TickSequence(s) ELSE TickAll(s)
  BY DEF Tick
<1>2. pre \in BOOLEAN
  BY DEF Stages, GroupRuntime
<1>3. Left(s, s.group.state) /\ Spares(s, s)
  BY DEF Left, Spares
<1>4. Single(s)
  BY DEF Alone
<1> HIDE DEF t
<1>5. CASE t = s
  BY <1>3, <1>5 DEF t
<1>6. CASE running /\ pre /\ s.group.ripe
  <2>1. t = StartAction(s, c)
    BY <1>1, <1>6
  <2>2. /\ Left(t, "running") /\ ~t.group.pre /\ t.group.wait = "none"
        /\ def.mode # "playlist" => Spares(s, t)
    BY <1>4, <2>1, ActionStarts
  <2>3. ~(CalmDef(def) /\ def.mode = "playlist")
    BY <1>6 DEF CalmDef
  <2> QED
    BY <1>6, <2>2, <2>3 DEF t
<1>7. CASE running /\ ~pre /\ Ordered
  <2>1. t = TickSequence(s)
    BY <1>1, <1>7 DEF Ordered
  <2>2. Stepped(s, t)
    BY <1>7, <2>1, SequenceTicks
  <2> QED
    BY <1>7, <2>2 DEF Stepped, t
<1>8. CASE running /\ ~pre /\ ~Ordered
  <2>1. t = TickAll(s)
    BY <1>1, <1>8 DEF Ordered
  <2>2. /\ Left(t, s.group.state) /\ t.group.pre = s.group.pre /\ Spares(s, t)
    BY <1>8, <2>1, OthersTick
  <2> QED
    BY <1>8, <2>2 DEF Ordered, t
<1> QED
  BY <1>1, <1>2, <1>5, <1>6, <1>7, <1>8

\* The children that are reset because their voice has ended.
LEMMA Reaps ==
  ASSUME def \in GroupDef, NEW s \in Stages, Sound(s), Alone(s)
  PROVE  /\ Left(Reap(s), s.group.state) /\ Reap(s).group = s.group
         /\ Spares(s, Reap(s))
<1> DEFINE ended == {c \in In(s, {"running"}) : s.kid[c].voice \in s.seen}
           t     == Do(s, On(ended, "reset"))
<1>1. Reap(s) = t
  BY DEF Reap
<1>2. MayCallOn(s, ended, "reset")
  BY QuietChildren DEF MayCallOn
<1> HIDE DEF ended
<1>3. /\ t \in Stages /\ Sound(t) /\ t.group = s.group
      /\ Active(t) \subseteq Active(s) /\ Spares(s, t)
  BY <1>2, CallsOn
<1> HIDE DEF t
<1> QED
  BY <1>1, <1>3 DEF Left, Alone, Single, Follows

\* The end of the pass: the children that are over are reset, and a group that is.
LEMMA PassEnds ==
  ASSUME def \in GroupDef, NEW s \in Stages, Sound(s), Alone(s)
  PROVE  LET reaped == Reap(s)
             t      == [(IF IsComplete(reaped) THEN GroupReset(reaped) ELSE reaped)
                        EXCEPT !.seen = {}]
         IN  /\ t \in Stages /\ Sound(t) /\ Alone(t)
             /\ t.group = IF IsComplete(reaped) THEN Rest ELSE s.group
             /\ Spares(s, t)
<1> DEFINE reaped == Reap(s)
           u      == IF IsComplete(reaped) THEN GroupReset(reaped) ELSE reaped
           t      == [u EXCEPT !.seen = {}]
<1>1. Left(reaped, s.group.state) /\ reaped.group = s.group /\ Spares(s, reaped)
  BY Reaps
<1> HIDE DEF reaped
<1>2. /\ u \in Stages /\ Sound(u) /\ Alone(u) /\ Spares(reaped, u)
      /\ u.group = IF IsComplete(reaped) THEN Rest ELSE s.group
  <2>1. CASE IsComplete(reaped)
    <3>1. \A c \in Cue : Quiet(reaped, c)
      BY <1>1, <2>1, QuietChildren DEF Left, IsComplete, In
    <3>2. /\ Left(GroupReset(reaped), "standby") /\ GroupReset(reaped).group = Rest
          /\ Spares(reaped, GroupReset(reaped))
      BY <1>1, <3>1, GroupResets DEF Left
    <3> QED
      BY <2>1, <3>2 DEF Left
  <2>2. CASE ~IsComplete(reaped)
    BY <1>1, <2>2 DEF Left, Spares
  <2> QED
    BY <2>1, <2>2
<1> HIDE DEF u
<1>3. /\ t \in Stages /\ t.group = u.group /\ t.kid = u.kid /\ t.eng = u.eng
      /\ t.queue = u.queue /\ t.seen = {}
  BY <1>2 DEF Stages
<1> HIDE DEF t
<1>4. Sound(t) /\ Alone(t) /\ Spares(s, t)
  BY <1>1, <1>2, <1>3 DEF Sound, Alone, Single, Follows, Active, In, Spares
<1> QED
  BY <1>2, <1>3, <1>4 DEF t, u, reaped

---------------------------------------------------------------------------
(***************************************************************************)
(* The invariant.                                                           *)
(***************************************************************************)
\* Where the playhead is on the group, the group has a child to fire.
NotPassed(at, g) ==
  at /\ ~g.pre /\ Ordered /\ ~Loops /\ g.current # 0 => HasNext(g)

PreIn(g) == g.pre => def.pre

NoWait(g) == CalmDef(def) /\ def.mode = "playlist" => g.wait = "none"

IInv ==
  /\ TypeOK /\ def \in Groups
  /\ Sound(Stage) /\ Alone(Stage)
  /\ PreIn(group) /\ NoWait(group) /\ NotPassed(here, group)

\* The invariant holds at first.
LEMMA IInvInit == Init => IInv
<1> SUFFICES ASSUME Init PROVE IInv
  OBVIOUS
<1>1. Rest \in GroupRuntime /\ Idle \in Runtime /\ Idle.voice = NoVoice
      /\ Idle.state = "standby" /\ ~Idle.pre
  BY ChildAssumption DEF Rest, GroupRuntime, Idle, Runtime
<1>2. TypeOK /\ def \in Groups
  BY <1>1, GroupAssumption, PressAssumption DEF Init, TypeOK
<1>3. Sound(Stage)
  <2>1. ASSUME NEW c \in Cue
        PROVE  kid[c] = Idle /\ eng[c] = "free" /\ c # NoVoice
    BY ChildAssumption, VoiceAssumption DEF Init
  <2> QED
    BY <1>1, <2>1 DEF Sound, ChildSound, Stage, Holding
<1>4. Active(Stage) = {}
  BY <1>1 DEF Active, In, Stage, Init
<1>5. PreIn(group) /\ NoWait(group) /\ NotPassed(here, group)
  BY DEF Init, Rest, PreIn, NoWait, NotPassed
<1> QED
  BY <1>2, <1>3, <1>4, <1>5 DEF IInv, Alone, Single, Follows

\* The stage of the invariant.
LEMMA StageTyped ==
  ASSUME TypeOK
  PROVE  /\ Stage \in Stages /\ Stage.group = group /\ Stage.kid = kid /\ Stage.eng = eng
         /\ Stage.queue = statusQ /\ Stage.seen = drained
BY DEF TypeOK, Stage, Stages

\* A step that gives the state a stage of the kind the lemmas above promise.
LEMMA StageStep ==
  ASSUME IInv, NEW s \in Stages, Sound(s), Alone(s), Becomes(s), def' = def,
         PreIn(s.group), NoWait(s.group), NotPassed(here', s.group),
         pc' \in {"idle", "drained"}, here' \in BOOLEAN, presses' \in 0..MaxPresses
  PROVE  IInv'
<1>1. /\ Stage' = s
      /\ group' = s.group /\ kid' = s.kid /\ eng' = s.eng
      /\ statusQ' = s.queue /\ drained' = s.seen
  BY DEF Stage, Stages, Becomes
<1>2. TypeOK' /\ (def \in Groups)'
  BY <1>1 DEF TypeOK, IInv, Stages
<1>3. Sound(Stage)'
  BY <1>1 DEF Sound, Endless, Ready
<1>4. Alone(Stage)'
  BY <1>1 DEF Alone, Single, Follows, Active, In
<1>5. PreIn(group)' /\ NoWait(group)' /\ NotPassed(here, group)'
  BY <1>1 DEF PreIn, NoWait, NotPassed, Ordered, Loops, HasNext
<1> QED
  BY <1>2, <1>3, <1>4, <1>5 DEF IInv

\* A step of a child, of its voice or of a clock leaves the sequence where it is.
LEMMA SmallStep ==
  ASSUME IInv, TypeOK', Sound(Stage)', Active(Stage)' = Active(Stage), def' = def,
         group'.pre = group.pre, group'.current = group.current, group'.done = group.done,
         group.wait = "none" => group'.wait = "none", here' = here
  PROVE  IInv'
<1>1. Alone(Stage)'
  BY DEF IInv, Alone, Single, Follows, Stage
<1>2. PreIn(group)' /\ NoWait(group)' /\ NotPassed(here, group)'
  BY DEF IInv, PreIn, NoWait, NotPassed, Ordered, Loops, HasNext
<1> QED
  BY <1>1, <1>2 DEF IInv

\* Every step keeps the invariant.
LEMMA IInvNext == IInv /\ [Next]_vars => IInv'
<1> SUFFICES ASSUME IInv, [Next]_vars
             PROVE  IInv'
  OBVIOUS
<1>0. /\ TypeOK /\ def \in GroupDef /\ Stage \in Stages /\ Sound(Stage) /\ Alone(Stage)
      /\ Stage.group = group /\ Stage.kid = kid /\ Stage.eng = eng
      /\ Stage.queue = statusQ /\ Stage.seen = drained
      /\ PreIn(group) /\ NoWait(group) /\ NotPassed(here, group)
      /\ Voice = Cue /\ Cue = 1..N /\ NoVoice \notin Cue
      /\ pc \in {"idle", "drained"} /\ here \in BOOLEAN /\ presses \in 0..MaxPresses
  BY StageTyped, ChildAssumption, VoiceAssumption DEF IInv, TypeOK
<1>1. ASSUME NEW name, Press(name)
      PROVE  presses' \in 0..MaxPresses
  BY <1>0, <1>1, PressAssumption DEF Press
<1>2. CASE Go
  <2>1. PICK c \in Draws(group) :
          LET s == GroupGo(Stage, c)
          IN  /\ Becomes(s)
              /\ here' = IF AbsorbsGo(group) THEN ~ReleasedPlayhead(s.group)
                                             ELSE HoldsPlayhead(s.group)
    BY <1>2 DEF Go
  <2> DEFINE s == GroupGo(Stage, c)
  <2>2. c \in Cue
    BY <1>0 DEF Draws, TypeOK, GroupRuntime
  <2>3. /\ Left(s, "running")
        /\ s.group.pre => def.pre \/ group.pre
        /\ s.group.wait \in {"none", group.wait}
    BY <1>0, <2>2, GroupGoes
  <2> HIDE DEF s
  <2>4. Becomes(s) /\ here' = IF AbsorbsGo(group) THEN ~ReleasedPlayhead(s.group)
                                                  ELSE HoldsPlayhead(s.group)
    BY <2>1 DEF s
  <2>5. here' \in BOOLEAN
    BY <2>4 DEF ReleasedPlayhead, HoldsPlayhead, Loops, Ordered, HasNext, Started
  <2>6. PreIn(s.group) /\ NoWait(s.group)
    BY <1>0, <2>3 DEF PreIn, NoWait
  <2>7. NotPassed(here', s.group)
    BY <2>3, <2>4
       DEF NotPassed, Left, ReleasedPlayhead, HoldsPlayhead, Loops, Ordered, HasNext, Started
  <2>8. def' = def /\ pc' = pc /\ presses' \in 0..MaxPresses
    BY <1>1, <1>2 DEF Go
  <2>9. s \in Stages /\ Sound(s) /\ Alone(s)
    BY <2>3 DEF Left
  <2> QED
    BY <1>0, <2>4, <2>5, <2>6, <2>7, <2>8, <2>9, StageStep
<1>3. ASSUME NEW op \in {"stop", "hard_stop"}, Stop(op)
      PROVE  IInv'
  <2> DEFINE s == GroupStop(Stage, op)
  <2>1. Left(s, "standby") /\ s.group = Rest
    BY <1>0, GroupStops
  <2>2. /\ Becomes(s) /\ def' = def /\ pc' = pc /\ here' = here
        /\ presses' \in 0..MaxPresses
    BY <1>1, <1>3 DEF Stop
  <2> HIDE DEF s
  <2>3. PreIn(s.group) /\ NoWait(s.group) /\ NotPassed(here', s.group)
    BY <2>1 DEF Rest, PreIn, NoWait, NotPassed
  <2> QED
    BY <1>0, <2>1, <2>2, <2>3, StageStep DEF Left
<1>4. ASSUME NEW s, NEW states \in {"paused", "running"}, Becomes(s),
             \/ s = GroupPause(Stage) /\ states = "paused"
             \/ s = GroupResume(Stage) /\ states = "running",
             def' = def, pc' = pc, here' = here, presses' \in 0..MaxPresses
      PROVE  IInv'
  <2>1. /\ Left(s, states) /\ s.group.pre = group.pre
        /\ s.group.current = group.current /\ s.group.wait = group.wait
    BY <1>0, <1>4, GroupPausesAndResumes
  <2>2. PreIn(s.group) /\ NoWait(s.group) /\ NotPassed(here', s.group)
    BY <1>0, <1>4, <2>1 DEF PreIn, NoWait, NotPassed, HasNext
  <2> QED
    BY <1>0, <1>4, <2>1, <2>2, StageStep DEF Left
<1>5. CASE Pause
  BY <1>1, <1>4, <1>5 DEF Pause
<1>6. CASE Resume
  BY <1>1, <1>4, <1>6 DEF Resume
<1>7. ASSUME NEW c \in Cue, Park(c)
      PROVE  IInv'
  <2> DEFINE s == SetActiveChild(Stage, c)
  <2>1. /\ Left(s, group.state) /\ s.group.pre = group.pre
        /\ s.group.wait \in {"none", group.wait}
        /\ Ordered => HasNext(s.group)
    BY <1>0, ActiveChildSet
  <2>2. /\ Becomes(s) /\ def' = def /\ pc' = pc /\ here' = TRUE
        /\ presses' \in 0..MaxPresses
    BY <1>1, <1>7 DEF Park
  <2> HIDE DEF s
  <2>3. PreIn(s.group) /\ NoWait(s.group) /\ NotPassed(here', s.group)
    BY <1>0, <2>1 DEF PreIn, NoWait, NotPassed
  <2> QED
    BY <1>0, <2>1, <2>2, <2>3, StageStep DEF Left
<1>8. CASE LoopTick
  <2>1. PICK c \in Draws(group) : Passes(Tick(Stage, c))
    BY <1>8 DEF LoopTick
  <2> DEFINE ticked == Tick(Stage, c)
             reaped == Reap(ticked)
             over   == IsComplete(reaped)
             s      == [(IF over THEN GroupReset(reaped) ELSE reaped) EXCEPT !.seen = {}]
  <2>2. c \in Cue
    BY <1>0 DEF Draws, TypeOK, GroupRuntime
  <2>3. /\ Left(ticked, group.state)
        /\ ticked.group.pre => def.pre
        /\ CalmDef(def) /\ def.mode = "playlist" => ticked.group.wait = "none"
        /\ group.state # "running" => ticked = Stage
    BY <1>0, <2>2, TickKeeps DEF PreIn, NoWait
  <2>4. /\ Becomes(s)
        /\ here' = (here /\ ~Onward(ticked) /\ ~(over /\ HoldsPlayhead(reaped.group)))
    BY <2>1 DEF Passes
  <2> HIDE DEF ticked
  <2>5. /\ s \in Stages /\ Sound(s) /\ Alone(s)
        /\ s.group = IF over THEN Rest ELSE ticked.group
    BY <1>0, <2>3, PassEnds DEF Left
  <2> HIDE DEF s, reaped, over
  <2>6. here' \in BOOLEAN /\ (here' => here /\ ~ReleasedPlayhead(ticked.group))
    BY <1>0, <2>4 DEF Onward
  <2>7. PreIn(s.group) /\ NoWait(s.group)
    BY <2>3, <2>5 DEF Rest, PreIn, NoWait
  <2>8. NotPassed(here', s.group)
    <3>1. CASE over
      BY <2>5, <3>1 DEF Rest, NotPassed
    <3>2. CASE ~over /\ group.state = "running"
      BY <2>3, <2>5, <2>6, <3>2 DEF NotPassed, Left, ReleasedPlayhead, Started
    <3>3. CASE ~over /\ group.state # "running"
      BY <1>0, <2>3, <2>5, <2>6, <3>3 DEF NotPassed
    <3> QED
      BY <3>1, <3>2, <3>3
  <2>9. def' = def /\ pc' = "idle" /\ presses' = presses
    BY <1>8 DEF LoopTick
  <2> QED
    BY <1>0, <2>4, <2>5, <2>6, <2>7, <2>8, <2>9, StageStep
<1>9. CASE DrainStatus
  <2>1. TypeOK'
    BY <1>0, <1>9 DEF DrainStatus, TypeOK
  <2>2. Sound(Stage)' /\ Active(Stage)' = Active(Stage)
    BY <1>0, <1>9 DEF DrainStatus, Sound, Stage, Active, In, Endless, Ready
  <2> QED
    BY <1>9, <2>1, <2>2, SmallStep DEF DrainStatus
<1>10. CASE SkipTick
  <2>1. TypeOK'
    BY <1>0, <1>10 DEF SkipTick, TypeOK
  <2>2. Sound(Stage)' /\ Active(Stage)' = Active(Stage)
    BY <1>0, <1>10 DEF SkipTick, Sound, Stage, Active, In, Endless, Ready
  <2> QED
    BY <1>10, <2>1, <2>2, SmallStep DEF SkipTick
<1>11. CASE PreWaitOver \/ PostWaitOver
  <2>1. /\ group' \in GroupRuntime /\ group'.state = group.state /\ group'.pre = group.pre
        /\ group'.current = group.current /\ group'.done = group.done
        /\ group.wait = "none" => group'.wait = "none"
    BY <1>0, <1>11 DEF PreWaitOver, PostWaitOver, TypeOK, GroupRuntime
  <2>2. /\ UNCHANGED <<def, kid, eng, statusQ, drained, pc, here, presses>>
    BY <1>11 DEF PreWaitOver, PostWaitOver
  <2>3. TypeOK'
    BY <1>0, <2>1, <2>2 DEF TypeOK
  <2>4. Sound(Stage)' /\ Active(Stage)' = Active(Stage)
    BY <1>0, <2>1, <2>2 DEF Sound, Stage, Active, In, Endless, Ready
  <2> QED
    BY <2>1, <2>2, <2>3, <2>4, SmallStep
<1>12. ASSUME NEW c \in Cue, VoiceEnds(c)
       PROVE  IInv'
  <2>1. TypeOK'
    BY <1>0, <1>12 DEF VoiceEnds, TypeOK
  <2>2. Sound(Stage)'
    <3>1. ASSUME NEW k \in Cue
          PROVE  /\ ChildSound(k, kid[k], def.kids[k], Ready(k), eng'[k])
                 /\ Endless(k) /\ kid[k].voice = k => k \notin statusQ' \cup drained
      <4>1. CASE k = c
        BY <1>0, <1>12, <4>1
           DEF VoiceEnds, Sound, Stage, ChildSound, Endless, TypeOK, GroupDef, CueDef, Holding
      <4>2. CASE k # c
        BY <1>0, <1>12, <4>2 DEF VoiceEnds, Sound, Stage, TypeOK
      <4> QED
        BY <4>1, <4>2
    <3> QED
      BY <1>0, <1>12, <3>1 DEF VoiceEnds, Sound, Stage, Endless, Ready
  <2>3. Active(Stage)' = Active(Stage)
    BY <1>12 DEF VoiceEnds, Stage, Active, In
  <2> QED
    BY <1>12, <2>1, <2>2, <2>3, SmallStep DEF VoiceEnds
<1>13. ASSUME NEW c \in Cue, NEW due \in Due, Elapse(c, due)
       PROVE  IInv'
  <2>1. /\ kid' \in [Cue -> Runtime]
        /\ \A k \in Cue : /\ kid'[k].state = kid[k].state /\ kid'[k].pre = kid[k].pre
                          /\ kid'[k].voice = kid[k].voice
    BY <1>0, <1>13 DEF Elapse, TypeOK, Runtime
  <2>2. UNCHANGED <<def, group, eng, statusQ, drained, pc, here, presses>>
    BY <1>13 DEF Elapse
  <2>3. TypeOK'
    BY <1>0, <2>1, <2>2 DEF TypeOK
  <2>4. Sound(Stage)' /\ Active(Stage)' = Active(Stage)
    BY <1>0, <2>1, <2>2 DEF Sound, ChildSound, Stage, Active, In, Endless, Ready
  <2> QED
    BY <2>2, <2>3, <2>4, SmallStep
<1>14. CASE UNCHANGED vars
  <2>1. TypeOK'
    BY <1>0, <1>14 DEF vars, TypeOK
  <2>2. Sound(Stage)' /\ Active(Stage)' = Active(Stage)
    BY <1>0, <1>14 DEF vars, Sound, Stage, Active, In, Endless, Ready
  <2> QED
    BY <1>14, <2>1, <2>2, SmallStep DEF vars
<1> QED
  BY <1>2, <1>3, <1>5, <1>6, <1>7, <1>8, <1>9, <1>10, <1>11, <1>12, <1>13, <1>14 DEF Next

\* The invariant holds of every behaviour.
LEMMA IInvAlways == Spec => []IInv
BY IInvInit, IInvNext, PTL DEF Spec

---------------------------------------------------------------------------
\* Whatever group it is, whatever the operator presses and however the loop, the voices
\* and the clocks interleave: a playlist plays one child at a time, and a voice that would
\* play for ever is one a stop of the group still reaches.
THEOREM GroupIsSafe == Spec => []GroupSafety
<1>1. IInv => PlaylistExclusive
  <2> SUFFICES ASSUME IInv, def.mode = "playlist"
               PROVE  Cardinality(Active(Stage)) <= 1
    BY DEF PlaylistExclusive
  <2>1. \A c, d \in Active(Stage) : c = d
    BY DEF IInv, Alone, Single
  <2>2. CASE Active(Stage) = {}
    <3> HIDE DEF Active
    <3> QED
      BY <2>2, FS_EmptySet
  <2>3. CASE Active(Stage) # {}
    <3>1. PICK c : Active(Stage) = {c}
      BY <2>1, <2>3
    <3>2. Cardinality({c}) = 1
      BY FS_Singleton
    <3> QED
      BY <3>1, <3>2
  <2> QED
    BY <2>2, <2>3
<1>2. IInv => LoopsReachable
  BY StageTyped DEF IInv, Sound, ChildSound, Endless, Holding, LoopsReachable
<1>3. IInv => GroupSafety
  BY <1>1, <1>2 DEF IInv, GroupSafety
<1> QED
  BY <1>3, IInvAlways, PTL

\* The playhead is never left on a group that has fired its last child: the GO that
\* absorbs it, the GO that starts the group and the tick that fires it all move it on.
THEOREM PlayheadGoesOn == Spec => []PlayheadMovesOn
<1>1. IInv => PlayheadMovesOn
  BY DEF IInv, NotPassed, PlayheadMovesOn, ReleasedPlayhead, Started
<1> QED
  BY <1>1, IInvAlways, PTL

\* Playlists without a pre-wait and without post-waits; any other group.
Calm == \A g \in Groups : CalmDef(g)

\* The tick of such a group never stops a child that plays: not when a sequence goes on,
\* not when a child or the whole group is reset because it is over.
THEOREM TicksCutNothing == Calm => (Spec => TickCutsNothing)
<1>1. ASSUME Calm, IInv, [Next]_vars
      PROVE  [pc = "drained" /\ pc' = "idle"
                => \A c \in Cue : eng[c] = "playing" => eng'[c] = "playing"]_vars
  <2> SUFFICES ASSUME Next, pc = "drained", pc' = "idle", NEW c \in Cue, eng[c] = "playing"
               PROVE  eng'[c] = "playing"
    BY <1>1
  <2>0. CalmDef(def) /\ def \in GroupDef
    BY <1>1 DEF Calm, IInv, TypeOK
  <2>1. LoopTick \/ SkipTick
    BY DEF Next, Go, Pause, Resume, Stop, DrainStatus, PreWaitOver, PostWaitOver, Park,
           VoiceEnds, Elapse
  <2>2. CASE SkipTick
    BY <2>2 DEF SkipTick
  <2>3. CASE LoopTick
    <3>1. PICK d \in Draws(group) : Passes(Tick(Stage, d))
      BY <2>3 DEF LoopTick
    <3> DEFINE ticked == Tick(Stage, d)
               reaped == Reap(ticked)
               s      == [(IF IsComplete(reaped) THEN GroupReset(reaped) ELSE reaped)
                          EXCEPT !.seen = {}]
    <3>2. /\ Stage \in Stages /\ Stage.group = group /\ Stage.eng = eng
          /\ Sound(Stage) /\ Alone(Stage) /\ PreIn(group) /\ NoWait(group)
      BY <1>1, StageTyped DEF IInv
    <3>3. d \in Cue
      BY <1>1 DEF IInv, TypeOK, Draws, GroupRuntime
    <3>4. Left(ticked, group.state) /\ Spares(Stage, ticked)
      BY <2>0, <3>2, <3>3, TickKeeps DEF PreIn, NoWait
    <3>5. eng' = s.eng
      BY <3>1 DEF Passes, Becomes
    <3> HIDE DEF ticked
    <3>6. Spares(ticked, s)
      BY <2>0, <3>4, PassEnds DEF Left
    <3> HIDE DEF s
    <3> QED
      BY <3>2, <3>4, <3>5, <3>6 DEF Spares
  <2> QED
    BY <2>1, <2>2, <2>3
<1>2. ASSUME Calm PROVE Spec => TickCutsNothing
  <2>1. IInv /\ [Next]_vars => [pc = "drained" /\ pc' = "idle"
             => \A c \in Cue : eng[c] = "playing" => eng'[c] = "playing"]_vars
    BY <1>1, <1>2
  <2> QED
    BY <2>1, IInvAlways, PTL DEF Spec, TickCutsNothing
<1> QED
  BY <1>2
=============================================================================
