------------------------ MODULE ShowControl_proofs ------------------------
(***************************************************************************)
(* Proofs about ShowControl, for every list, show file, set of operator     *)
(* commands and chain cap.                                                  *)
(***************************************************************************)
EXTENDS ShowControl, WellFoundedInduction, TLAPS

---------------------------------------------------------------------------
\* The calls.

USE DEF States, Due, VoiceStates, Operations

\* Whatever call is made on a cue, its runtime stays well typed.
LEMMA AfterType ==
  ASSUME NEW op \in Operations, NEW r \in Runtime, NEW d \in CueDef,
         NEW decodedHere \in BOOLEAN, NEW v \in Voice \cup {NoVoice}
  PROVE  After(op, r, d, decodedHere, v) \in Runtime
<1>1. Idle \in Runtime
  BY DEF Idle, Runtime
<1>2. Instant(op, r) \in Runtime
  BY <1>1 DEF Instant, Runtime, Idle
<1>3. WaitGo \in Runtime
  BY DEF WaitGo, Idle, Runtime
<1>4. \A x \in Runtime : WaitPause(x) \in Runtime
  BY DEF WaitPause, Runtime
<1>5. Wait(op, r) \in Runtime
  BY <1>1, <1>3, <1>4 DEF Wait, Runtime
<1>6. \A x \in Runtime : StartAudioAction(x, v) \in Runtime
  BY DEF StartAudioAction, Runtime
<1>7. AudioGo(r, d, decodedHere, v) \in Runtime
  <2> DEFINE fresh == [r EXCEPT !.state = "running", !.fired = FALSE, !.ripe = {}]
  <2>1. fresh \in Runtime
    BY DEF Runtime
  <2>2. [fresh EXCEPT !.pre = TRUE] \in Runtime /\ [fresh EXCEPT !.state = "standby"] \in Runtime
    BY DEF Runtime
  <2> QED
    BY <2>1, <2>2, <1>6 DEF AudioGo
<1>8. \A x \in Runtime : AudioPause(x) \in Runtime
  BY DEF AudioPause, Runtime
<1>9. AudioResume(r) \in Runtime
  BY DEF AudioResume, Runtime
<1>10. Audio(op, r, d, decodedHere, v) \in Runtime
  BY <1>1, <1>6, <1>7, <1>8, <1>9 DEF Audio, AudioTick, Halted
<1>11. \A x \in Runtime : MicPause(x) \in Runtime
  BY DEF MicPause, Runtime
<1>12. [r EXCEPT !.state = "running"] \in Runtime
  BY DEF Runtime
<1>13. Mic(op, r, d, decodedHere, v) \in Runtime
  BY <1>1, <1>6, <1>7, <1>11, <1>12 DEF Mic, AudioTick
<1> QED
  BY <1>2, <1>5, <1>10, <1>13
     DEF After, Memos, StopCues, CommandCues, Devamps, Osc, Midi, Script, CueDef, Kinds

\* A command leaves the engine's voice in one of its states.
LEMMA EngineAfterType ==
  ASSUME NEW op, NEW r, NEW s \in VoiceStates
  PROVE  EngineAfter(op, r, s) \in VoiceStates
BY DEF EngineAfter

\* A nonempty set of naturals has a least element.
LEMMA Least ==
  ASSUME NEW T \in SUBSET Nat, T # {}
  PROVE  \E x \in T : \A y \in T : x <= y
<1> DEFINE R == {p \in Nat \X Nat : p[1] < p[2]}
<1>1. R = OpToRel(<, Nat)
  BY DEF OpToRel
<1>2. IsWellFoundedOn(R, Nat)
  BY <1>1, NatLessThanWellFounded
<1>3. \E x \in T : \A y \in T : ~(<<y, x>> \in R)
  <2> HIDE DEF R
  <2> QED
    BY <1>2, WFMin
<1>4. \A x, y \in Nat : <<y, x>> \in R <=> y < x
  OBVIOUS
<1>5. \A x, y \in Nat : ~(y < x) => x <= y
  OBVIOUS
<1> QED
  <2> HIDE DEF R
  <2> QED
    BY <1>3, <1>4, <1>5
\* The next enabled cue is a position of the list, or None.
LEMMA NextEnabledType ==
  ASSUME NEW p \in Position
  PROVE  NextEnabled(p) \in Position
<1> DEFINE later == {q \in Cue : q > p /\ q \notin disabled}
<1>1. later \in SUBSET Nat /\ later \subseteq Position
  BY ListAssumption DEF Position
<1>2. CASE later = {}
  BY <1>2, ListAssumption DEF NextEnabled, None, Position
<1>3. CASE later # {}
  <2>1. \E q \in later : \A r \in later : q <= r
    <3> HIDE DEF later
    <3> QED
      BY <1>1, <1>3, Least
  <2>2. (CHOOSE q \in later : \A r \in later : q <= r) \in later
    BY <2>1
  <2> QED
    BY <1>1, <1>3, <2>2 DEF NextEnabled
<1> QED
  BY <1>2, <1>3

\* The calls a GO makes are calls.
LEMMA FireCallsType ==
  ASSUME TypeOK, NEW c \in Cue
  PROVE  FireCalls(c) \in [Cue -> Operations]
<1>1. show[c] \in CueDef
  BY DEF TypeOK
<1>2. show[c].action \in CommandActions
  BY <1>1 DEF CueDef
<1>3. CommandCall(show[c].action) \in Operations
  BY <1>2 DEF CommandCall, CommandActions
<1> QED
  BY <1>3 DEF FireCalls

\* A count moves by at most one, and stays within its bound.
LEMMA CountedType ==
  ASSUME NEW n \in 0..MaxCount
  PROVE  Counted(n) \in 0..MaxCount /\ Counted(n) > 0
BY BoundAssumption DEF Counted

\* Counting on both sides keeps the order of the counts.
LEMMA CountedMonotone ==
  ASSUME NEW m \in 0..MaxCount, NEW n \in 0..MaxCount, m <= n
  PROVE  Counted(m) <= Counted(n)
BY BoundAssumption DEF Counted

\* Chaining cues on keeps the counts typed.
LEMMA ChainedOnType ==
  ASSUME NEW set, NEW count \in [Cue -> 0..MaxCount]
  PROVE  ChainedOn(set, count) \in [Cue -> 0..MaxCount]
BY CountedType DEF ChainedOn

\* What a round of calls leaves is well typed.
LEMMA CallType ==
  ASSUME TypeOK, NEW ops \in [Cue -> Operations], NEW new \in Voices(ops)
  PROVE  /\ RtAfter(ops, new) \in [Cue -> Runtime]
         /\ EngAfter(ops, new) \in [Voice -> VoiceStates]
         /\ LoopsAfter(ops, new) \subseteq Voice
         /\ ChainsAfter(ops) \in [Cue -> 0..MaxCount]
         /\ GosAfter(ops) \in [Cue -> 0..MaxCount]
<1>1. ASSUME NEW c \in Cue
      PROVE  After(ops[c], rt[c], show[c], c \in decoded,
                   IF c \in Submitters(ops) THEN new[c] ELSE NoVoice) \in Runtime
  <2> DEFINE v == IF c \in Submitters(ops) THEN new[c] ELSE NoVoice
             here == c \in decoded
  <2>1. v \in Voice \cup {NoVoice} /\ here \in BOOLEAN
    BY DEF Voices
  <2>2. rt[c] \in Runtime /\ show[c] \in CueDef /\ ops[c] \in Operations
    BY DEF TypeOK
  <2>3. After(ops[c], rt[c], show[c], here, v) \in Runtime
    <3> HIDE DEF v, here, Operations
    <3> QED
      BY <2>1, <2>2, AfterType
  <2> QED
    BY <2>3
<1>2. RtAfter(ops, new) \in [Cue -> Runtime]
  BY <1>1 DEF RtAfter
<1>3. \A v \in Voice : \A op, r : EngineAfter(op, r, eng[v]) \in VoiceStates
  BY EngineAfterType DEF TypeOK
<1>4. EngAfter(ops, new) \in [Voice -> VoiceStates]
  BY <1>3 DEF EngAfter, TypeOK
<1>5. ChainsAfter(ops) \in [Cue -> 0..MaxCount]
  BY BoundAssumption DEF ChainsAfter, TypeOK
<1>6. GosAfter(ops) \in [Cue -> 0..MaxCount]
  BY CountedType, BoundAssumption DEF GosAfter, TypeOK
<1> QED
  BY <1>2, <1>4, <1>5, <1>6 DEF LoopsAfter

\* A chain that goes round again stays within its cap, and leaves otherwise.
LEMMA AgainType ==
  ASSUME TypeOK, NEW e \in [Voice -> VoiceStates], NEW done \in SUBSET Voice,
         Again(e, done) \/ Release(e, done)
  PROVE  /\ steps' \in 0..MaxChain /\ eng' \in [Voice -> VoiceStates]
         /\ lock' \in {"free", "command", "loop"}
         /\ pc' \in {"idle", "drained", "tick", "reap", "continue", "go"}
         /\ drained' \subseteq Voice /\ goDue' \in BOOLEAN
<1>1. Collect(e) \in [Voice -> VoiceStates]
  BY DEF Collect
<1>2. CASE Release(e, done)
  <2>1. steps' \in 0..MaxChain /\ lock' = "free" /\ goDue' = FALSE
    BY <1>2, BoundAssumption DEF Release
  <2>2. eng' = Collect(e) \/ eng' = e
    BY <1>2 DEF Release
  <2>3. pc' \in {pc, "idle"} /\ drained' \in {done, {}}
    BY <1>2 DEF Release
  <2> QED
    BY <1>1, <2>1, <2>2, <2>3 DEF TypeOK
<1>3. CASE steps < MaxChain /\ steps' = steps + 1 /\ eng' = e /\ drained' = done
             /\ UNCHANGED <<lock, goDue, pc>>
  BY <1>3, BoundAssumption DEF TypeOK
<1> QED
  BY <1>2, <1>3 DEF Again
---------------------------------------------------------------------------
\* Type correctness.

\* A round of calls, of a command or of the loop, keeps what it changes typed.
LEMMA CallKeepsType ==
  ASSUME TypeOK, NEW ops \in [Cue -> Operations], Call(ops)
  PROVE  /\ rt' \in [Cue -> Runtime] /\ eng' \in [Voice -> VoiceStates]
         /\ looping' \subseteq Voice /\ statusQ' \subseteq Voice
         /\ drained' \subseteq Voice /\ chains' \in [Cue -> 0..MaxCount] /\ gos' \in [Cue -> 0..MaxCount]
BY CallType DEF Call, TypeOK

\* Marking a cue as continued keeps the runtimes typed.
LEMMA MarkType ==
  ASSUME NEW set, NEW r \in [Cue -> Runtime]
  PROVE  Mark(set, r) \in [Cue -> Runtime]
<1>1. \A x \in Runtime : [x EXCEPT !.fired = TRUE] \in Runtime
  BY DEF Runtime
<1> QED
  BY <1>1 DEF Mark

\* Firing a cue keeps the state typed.
LEMMA FireKeepsType ==
  ASSUME TypeOK, NEW c \in Cue, Fire(c)
  PROVE  /\ rt' \in [Cue -> Runtime] /\ eng' \in [Voice -> VoiceStates]
         /\ looping' \subseteq Voice /\ statusQ' \subseteq Voice
         /\ chains' \in [Cue -> 0..MaxCount] /\ gos' \in [Cue -> 0..MaxCount]
         /\ playhead' \in Position /\ disabled' \subseteq Cue
         /\ steps' \in 0..MaxChain
         /\ lock' \in {"free", "command", "loop"}
         /\ pc' \in {"idle", "drained", "tick", "reap", "continue", "go"}
         /\ drained' \subseteq Voice /\ goDue' \in BOOLEAN
<1> DEFINE ops == FireCalls(c)
<1>1. PICK new \in Voices(ops) :
        LET r == RtAfter(ops, new)
            e == EngAfter(ops, new)
            done == drained \ Taken(new)
            chained == ~Fails(c) /\ ChainsNow(c, r[c].state)
            byAutoContinue == chained /\ show[c].mode = "continue"
        IN  /\ rt' = IF byAutoContinue THEN Mark({c}, r) ELSE r
            /\ looping' = LoopsAfter(ops, new) \ Released(c)
            /\ chains' = ChainedOn(IF byAutoContinue THEN {c} ELSE {}, ChainsAfter(ops))
            /\ gos' = GosAfter(ops)
            /\ playhead' = PlayheadAfter(c)
            /\ disabled' = DisabledAfter(c)
            /\ statusQ' = statusQ \ Taken(new)
            /\ IF chained THEN Again(e, done) ELSE Release(e, done)
  BY DEF Fire
<1> DEFINE r == RtAfter(ops, new)
           e == EngAfter(ops, new)
           done == drained \ Taken(new)
<1>2. ops \in [Cue -> Operations]
  BY FireCallsType
<1>3. /\ r \in [Cue -> Runtime] /\ e \in [Voice -> VoiceStates]
      /\ LoopsAfter(ops, new) \subseteq Voice /\ ChainsAfter(ops) \in [Cue -> 0..MaxCount]
      /\ GosAfter(ops) \in [Cue -> 0..MaxCount]
  BY <1>1, <1>2, CallType
<1>4. rt' \in [Cue -> Runtime]
  BY <1>1, <1>3, MarkType
<1>5. chains' \in [Cue -> 0..MaxCount] /\ gos' \in [Cue -> 0..MaxCount]
  BY <1>1, <1>3, ChainedOnType
<1>6. PlayheadAfter(c) \in Position
  <2>1. CASE show[c].kind = "command" /\ show[c].action = "goto" /\ CommandTargets(c) # {}
    <3>1. CommandTargets(c) \subseteq Cue
      BY DEF CommandTargets, TypeOK, CueDef
    <3>2. PlayheadAfter(c) \in CommandTargets(c)
      BY <2>1 DEF PlayheadAfter
    <3> QED
      BY <3>1, <3>2, ListAssumption DEF Position
  <2>2. CASE ~(show[c].kind = "command" /\ show[c].action = "goto" /\ CommandTargets(c) # {})
    BY <2>2, NextEnabledType, ListAssumption DEF PlayheadAfter, Position
  <2> QED
    BY <2>1, <2>2
<1>7. DisabledAfter(c) \subseteq Cue
  BY DEF DisabledAfter, CommandTargets, TypeOK, CueDef
<1>8. done \in SUBSET Voice
  BY DEF TypeOK
<1>9. Again(e, done) \/ Release(e, done)
  BY <1>1
<1> HIDE DEF ops, r, e, done
<1>10. /\ steps' \in 0..MaxChain /\ eng' \in [Voice -> VoiceStates]
       /\ lock' \in {"free", "command", "loop"}
       /\ pc' \in {"idle", "drained", "tick", "reap", "continue", "go"}
       /\ drained' \subseteq Voice /\ goDue' \in BOOLEAN
  BY <1>3, <1>8, <1>9, AgainType
<1>11. looping' \subseteq Voice /\ statusQ' \subseteq Voice
  BY <1>1, <1>3 DEF TypeOK
<1> QED
  BY <1>1, <1>4, <1>5, <1>6, <1>7, <1>10, <1>11
\* The bounds in the form the steps need them.
LEMMA Bounds == /\ 0 \in 0..MaxChain /\ 1 \in 0..MaxChain
                /\ 1 \in Position /\ Cue \subseteq Position
                /\ \A s \in Shows : s \in [Cue -> CueDef]
BY BoundAssumption, ListAssumption, ShowAssumption DEF Position

\* TypeOK says something of every variable that a step may change.
LEMMA TypeInductive == TypeOK /\ [Next]_vars => TypeOK'
<1> SUFFICES ASSUME TypeOK, [Next]_vars PROVE TypeOK'
  OBVIOUS
<1> HIDE DEF Operations
<1>1. CASE Go
  BY <1>1, Bounds DEF Go, StartGo, TypeOK
<1>2. CASE \E c \in Cue : GoCue(c)
  BY <1>2, Bounds DEF GoCue, StartGo, TypeOK
<1>3. CASE \E c \in Cue : SetPlayhead(c)
  BY <1>3, Bounds DEF SetPlayhead, TypeOK
<1>4. ASSUME NEW name, NEW ops \in [Cue -> Operations], Calls(name, ops)
      PROVE  TypeOK'
  BY <1>4, CallKeepsType DEF Calls, TypeOK
<1>5. CASE StopAll
  <2>1. Each({c \in Cue : Active(c)}, "stop") \in [Cue -> Operations]
    BY DEF Each, Operations
  <2> QED
    BY <1>4, <1>5, <2>1 DEF StopAll
<1>6. CASE \E c \in Cue : StopCue(c) \/ HardStopCue(c) \/ PauseCue(c) \/ ResumeCue(c)
  <2>1. \A c \in Cue : \A op \in Operations : Only(c, op) \in [Cue -> Operations]
    BY DEF Only, Operations
  <2>2. {"stop", "hard_stop", "pause", "resume"} \subseteq Operations
    BY DEF Operations
  <2> QED
    BY <1>4, <1>6, <2>1, <2>2 DEF StopCue, HardStopCue, PauseCue, ResumeCue
<1>7. CASE HardStopAll
  <2>1. Idle \in Runtime
    BY DEF Idle, Runtime
  <2> QED
    BY <1>7, <2>1, BoundAssumption DEF HardStopAll, TypeOK
<1>8. CASE GoStep
  <2>1. CASE playhead = None /\ Release(eng, drained)
             /\ UNCHANGED <<disabled, playhead, rt, looping, statusQ, chains, gos>>
    <3>1. eng \in [Voice -> VoiceStates] /\ drained \in SUBSET Voice
      BY DEF TypeOK
    <3> QED
      BY <1>8, <2>1, <3>1, AgainType DEF GoStep, TypeOK
  <2>2. CASE playhead \in disabled /\ playhead' = NextEnabled(playhead)
             /\ Again(eng, drained)
             /\ UNCHANGED <<disabled, rt, looping, statusQ, chains, gos>>
    <3>1. eng \in [Voice -> VoiceStates] /\ drained \in SUBSET Voice
      BY DEF TypeOK
    <3>2. playhead' \in Position
      BY <2>2, NextEnabledType DEF TypeOK
    <3> QED
      BY <1>8, <2>2, <3>1, <3>2, AgainType DEF GoStep, TypeOK
  <2>3. CASE playhead \in Cue \ disabled /\ Fire(playhead)
    BY <1>8, <2>3, FireKeepsType DEF GoStep, TypeOK
  <2> QED
    BY <1>8, <2>1, <2>2, <2>3 DEF GoStep
<1>9. CASE DrainStatus \/ SkipTick
  BY <1>9 DEF DrainStatus, SkipTick, OutsideTick, TypeOK
<1>10. ASSUME NEW set, NEW op \in Operations
       PROVE  Each(set, op) \in [Cue -> Operations]
  BY <1>10 DEF Each, Operations
<1>11. {"pause", "resume", "tick", "reset"} \subseteq Operations
  BY DEF Operations
<1>12. CASE LockWorkspace
  <2>1. PICK now \in FrozenNow :
          /\ frozen' = now
          /\ CASE now /\ ~frozen -> /\ Call(Each(GuardPauses, "pause"))
                                    /\ autoPaused' = autoPaused \cup GuardPauses
               [] ~now /\ frozen -> /\ Call(Each(GuardResumes, "resume"))
                                    /\ autoPaused' = {}
               [] now <=> frozen -> UNCHANGED <<rt, eng, looping, statusQ, drained,
                                                chains, gos, autoPaused>>
    BY <1>12 DEF LockWorkspace
  <2>2. now \in BOOLEAN /\ frozen \in BOOLEAN
    BY DEF FrozenNow, TypeOK
  <2>3. /\ rt' \in [Cue -> Runtime] /\ eng' \in [Voice -> VoiceStates]
        /\ looping' \subseteq Voice /\ statusQ' \subseteq Voice
        /\ drained' \subseteq Voice /\ chains' \in [Cue -> 0..MaxCount] /\ gos' \in [Cue -> 0..MaxCount]
        /\ autoPaused' \subseteq Cue
    <3>1. CASE now /\ ~frozen
      <4>1. Call(Each(GuardPauses, "pause")) /\ autoPaused' = autoPaused \cup GuardPauses
        BY <2>1, <3>1
      <4> QED
        BY <1>10, <1>11, <4>1, CallKeepsType DEF GuardPauses, TypeOK
    <3>2. CASE ~now /\ frozen
      <4>1. Call(Each(GuardResumes, "resume")) /\ autoPaused' = {}
        BY <2>1, <3>2
      <4> QED
        BY <1>10, <1>11, <4>1, CallKeepsType
    <3>3. CASE now <=> frozen
      <4>1. UNCHANGED <<rt, eng, looping, statusQ, drained, chains, gos, autoPaused>>
        BY <2>1, <3>3
      <4> QED
        BY <4>1 DEF TypeOK
    <3> QED
      BY <2>2, <3>1, <3>2, <3>3
  <2> QED
    BY <1>12, <2>1, <2>2, <2>3 DEF LockWorkspace, OutsideTick, TypeOK
<1>13. CASE TickCues
  BY <1>10, <1>11, <1>13, CallKeepsType DEF TickCues, OutsideTick, TypeOK
<1>14. CASE ReapCompleted
  <2>1. GoWanted \in BOOLEAN
    BY DEF GoWanted, TypeOK
  <2> QED
    BY <1>10, <1>11, <1>14, <2>1, CallKeepsType DEF ReapCompleted, OutsideTick, TypeOK
<1>15. CASE ContinueCues
  <2>1. rt' \in [Cue -> Runtime]
    BY <1>15, MarkType DEF ContinueCues, TypeOK
  <2>2. chains' \in [Cue -> 0..MaxCount] /\ gos' \in [Cue -> 0..MaxCount]
    BY <1>15, ChainedOnType DEF ContinueCues, TypeOK
  <2>3. eng \in [Voice -> VoiceStates] /\ drained \in SUBSET Voice
    BY DEF TypeOK
  <2>4. CASE Release(eng, drained)
    BY <1>15, <2>1, <2>2, <2>3, <2>4, AgainType DEF ContinueCues, OutsideTick, TypeOK
  <2>5. CASE pc' = "go" /\ steps' = 1 /\ goDue' = FALSE /\ UNCHANGED <<eng, lock, drained>>
    BY <1>15, <2>1, <2>2, <2>5, Bounds DEF ContinueCues, OutsideTick, TypeOK
  <2> QED
    BY <1>15, <2>4, <2>5 DEF ContinueCues
<1>16. CASE \E v \in Voice : VoiceEnds(v)
  BY <1>16 DEF VoiceEnds, TypeOK
<1>17. CASE \E c \in Cue : \E due \in Due : Elapse(c, due)
  <2>1. PICK c \in Cue, due \in Due : Elapse(c, due)
    BY <1>17
  <2>2. rt[c] \in Runtime
    BY DEF TypeOK
  <2>3. [rt[c] EXCEPT !.ripe = @ \cup {due}] \in Runtime
    BY <2>2 DEF Runtime
  <2>4. rt' \in [Cue -> Runtime]
    BY <2>1, <2>3 DEF Elapse, TypeOK
  <2> QED
    BY <2>1, <2>4 DEF Elapse, TypeOK
<1>18. CASE \E c \in Cue : FollowDue(c) \/ AcceptPreloadedAudio(c)
  BY <1>18 DEF FollowDue, AcceptPreloadedAudio, TypeOK
<1>19. CASE Device
  BY <1>19 DEF Device, TypeOK
<1>20. CASE UNCHANGED vars
  BY <1>20 DEF vars, TypeOK
<1> QED
  BY <1>1, <1>2, <1>3, <1>5, <1>6, <1>7, <1>8, <1>9, <1>12, <1>13, <1>14, <1>15,
     <1>16, <1>17, <1>18, <1>19, <1>20 DEF Next, EventLoop

\* Every reachable state is well typed: whatever the calls, no cue, voice or
\* pass of the loop leaves its states, and the chain never exceeds its cap.
THEOREM TypeCorrect == Spec => []TypeOK
<1>1. Init => TypeOK
  <2> SUFFICES ASSUME Init PROVE TypeOK
    OBVIOUS
  <2>1. Idle \in Runtime
    BY DEF Idle, Runtime
  <2>2. show \in [Cue -> CueDef]
    BY Bounds DEF Init
  <2>3. rt \in [Cue -> Runtime] /\ eng \in [Voice -> VoiceStates]
    BY <2>1 DEF Init
  <2>4. /\ chains \in [Cue -> 0..MaxCount] /\ gos \in [Cue -> 0..MaxCount]
        /\ follow \in [Cue -> {"none", "waiting", "due"}]
    BY BoundAssumption DEF Init
  <2>5. playhead \in Position /\ steps \in 0..MaxChain
    BY Bounds DEF Init
  <2> QED
    BY <2>2, <2>3, <2>4, <2>5 DEF Init, TypeOK
<1> QED
  BY <1>1, TypeInductive, PTL DEF Spec
---------------------------------------------------------------------------
(***************************************************************************)
(* Voice ownership and Auto-Continue.                                       *)
(*                                                                          *)
(* VoiceOwnership is not inductive: a GO that fails to start an Audio Cue   *)
(* rolls it back to Standby and leaves its voice alone, so one must know    *)
(* that a cue with a voice is decoded and cannot fail.  AutoContinueOnce    *)
(* needs the flag auto_continue_fired to be up whenever a GO was chained.   *)
(***************************************************************************)
Holding == {"running", "paused"}

OwnedIn(r) ==
  \A c \in Cue : r[c].voice # NoVoice =>
                   HasVoice(c) /\ c \in decoded /\ r[c].state \in Holding

ApartIn(r) ==
  \A c, d \in Cue : c # d /\ r[c].voice = r[d].voice => r[c].voice = NoVoice

\* A play that has chained has its flag up, which keeps the loop from chaining it
\* again; what runs has had a GO, so the loop's one chain of it is answered for.
Answered(x, n, g) ==
  n <= g /\ (n > 0 => x.fired) /\ (x.state = "running" => g > 0)

FlaggedIn(r, n, g) == \A c \in Cue : HasVoice(c) => Answered(r[c], n[c], g[c])

VoiceInv == OwnedIn(rt) /\ ApartIn(rt) /\ FlaggedIn(rt, chains, gos)

\* The loop ticks running cues only.
TicksRunning(ops) == \A c \in Cue : ops[c] = "tick" => Running(c)

\* A call leaves the cue its voice, takes it away or gives it the new one, and
\* never leaves one in the hands of a cue that is neither running nor paused.
LEMMA AfterVoice ==
  ASSUME NEW op \in Operations, NEW r \in Runtime, NEW d \in CueDef,
         NEW here \in BOOLEAN, NEW v \in Voice \cup {NoVoice},
         v # NoVoice => Submits(op, r, d, here),
         op = "tick" => r.state = "running",
         r.voice # NoVoice => d.kind \in Voiced /\ here /\ r.state \in Holding
  PROVE  LET x == After(op, r, d, here, v)
         IN  /\ x.voice \in {r.voice, v, NoVoice}
             /\ x.voice # NoVoice => d.kind \in Voiced /\ here /\ x.state \in Holding
<1>1. CASE d.kind = "wait"
  <2>1. r.voice = NoVoice
    BY <1>1 DEF Voiced
  <2> QED
    BY <1>1, <2>1 DEF After, Wait, WaitGo, WaitPause, Idle, Runtime
<1>2. CASE d.kind \in Kinds \ {"audio", "mic", "wait"}
  <2>1. r.voice = NoVoice
    BY <1>2 DEF Voiced
  <2>2. After(op, r, d, here, v) = Instant(op, r)
    BY <1>2 DEF After, Kinds, Memos, StopCues, CommandCues, Devamps, Osc, Midi, Script
  <2> QED
    BY <2>1, <2>2 DEF Instant, Idle, Runtime
<1>3. CASE d.kind = "audio"
  <2>1. v # NoVoice => here
    BY DEF Submits
  <2> DEFINE x == Audio(op, r, d, here, v)
  <2>2. CASE op = "go"
    BY <1>3, <2>1, <2>2 DEF After, Audio, AudioGo, StartAudioAction, Runtime, Holding, Voiced
  <2>3. CASE op = "preload"
    BY <1>3, <2>1, <2>3
       DEF After, Audio, AudioGo, AudioPause, StartAudioAction, Runtime, Holding, Voiced
  <2>4. CASE op \in {"pause", "resume"}
    BY <1>3, <2>4 DEF After, Audio, AudioPause, AudioResume, Runtime, Holding, Voiced
  <2>5. CASE op = "tick"
    BY <1>3, <2>1, <2>5 DEF After, Audio, AudioTick, StartAudioAction, Runtime, Holding, Voiced
  <2>6. CASE op \in {"stop", "hard_stop", "reset"}
    BY <1>3, <2>6 DEF After, Audio, Halted, Idle
  <2>7. CASE op = "none"
    BY <1>3, <2>7 DEF After, Audio
  <2> QED
    BY <2>2, <2>3, <2>4, <2>5, <2>6, <2>7
<1>4. CASE d.kind = "mic"
  <2>1. v # NoVoice => here
    BY DEF Submits
  <2>2. CASE op = "go"
    BY <1>4, <2>1, <2>2 DEF After, Mic, AudioGo, StartAudioAction, Runtime, Holding, Voiced
  <2>3. CASE op = "preload"
    BY <1>4, <2>1, <2>3
       DEF After, Mic, AudioGo, MicPause, StartAudioAction, Runtime, Holding, Voiced
  <2>4. CASE op \in {"pause", "resume"}
    BY <1>4, <2>4 DEF After, Mic, MicPause, Runtime, Holding, Voiced
  <2>5. CASE op = "tick"
    BY <1>4, <2>1, <2>5 DEF After, Mic, AudioTick, StartAudioAction, Runtime, Holding, Voiced
  <2>6. CASE op \in {"stop", "hard_stop", "reset"}
    BY <1>4, <2>6 DEF After, Mic, Idle
  <2>7. CASE op = "none"
    BY <1>4, <2>7 DEF After, Mic
  <2> QED
    BY <2>2, <2>3, <2>4, <2>5, <2>6, <2>7
<1> QED
  BY <1>1, <1>2, <1>3, <1>4 DEF CueDef, Kinds

\* A call on a cue with a voice that does not begin or end a play keeps its flag.
LEMMA AfterFlag ==
  ASSUME NEW op \in Operations, NEW r \in Runtime, NEW d \in CueDef,
         NEW here \in BOOLEAN, NEW v \in Voice \cup {NoVoice},
         d.kind \in Voiced,
         op \notin {"stop", "hard_stop", "reset"},
         op \in {"go", "preload"} => r.state = "running"
  PROVE  After(op, r, d, here, v).fired = r.fired
<1>1. CASE d.kind = "audio"
  <2>1. CASE op \in {"go", "preload"}
    BY <1>1, <2>1 DEF After, Audio, AudioGo, AudioPause, Runtime
  <2>2. CASE op \in {"pause", "resume", "tick", "none"}
    BY <1>1, <2>2
       DEF After, Audio, AudioPause, AudioResume, AudioTick, StartAudioAction, Runtime
  <2> QED
    BY <2>1, <2>2
<1>2. CASE d.kind = "mic"
  <2>1. CASE op \in {"go", "preload"}
    BY <1>2, <2>1 DEF After, Mic, AudioGo, MicPause, Runtime
  <2>2. CASE op \in {"pause", "resume", "tick", "none"}
    BY <1>2, <2>2 DEF After, Mic, MicPause, AudioTick, StartAudioAction, Runtime
  <2> QED
    BY <2>1, <2>2
<1> QED
  BY <1>1, <1>2 DEF Voiced

\* A cue with a voice runs after a call only if it ran before, or the call starts it.
LEMMA AfterState ==
  ASSUME NEW op \in Operations, NEW r \in Runtime, NEW d \in CueDef,
         NEW here \in BOOLEAN, NEW v \in Voice \cup {NoVoice},
         d.kind \in Voiced,
         After(op, r, d, here, v).state = "running"
  PROVE  /\ op \notin {"stop", "hard_stop", "reset"}
         /\ r.state = "running" \/ op \in {"go", "preload", "resume"}
<1>1. CASE d.kind = "audio"
  BY <1>1 DEF After, Audio, AudioPause, AudioTick, StartAudioAction, Halted, Idle,
              Operations, Runtime
<1>2. CASE d.kind = "mic"
  BY <1>2 DEF After, Mic, MicPause, AudioTick, StartAudioAction, Idle, Operations, Runtime
<1> QED
  BY <1>1, <1>2 DEF Voiced

\* A round of calls, with its distinct fresh voices, keeps the invariant.
LEMMA CallKeepsVoices ==
  ASSUME TypeOK, VoiceInv, NEW ops \in [Cue -> Operations], TicksRunning(ops),
         NEW new \in Voices(ops)
  PROVE  /\ OwnedIn(RtAfter(ops, new))
         /\ ApartIn(RtAfter(ops, new))
         /\ FlaggedIn(RtAfter(ops, new), ChainsAfter(ops), GosAfter(ops))
<1> DEFINE r == RtAfter(ops, new)
           V(c) == IF c \in Submitters(ops) THEN new[c] ELSE NoVoice
<1>1. ASSUME NEW c \in Cue
      PROVE  /\ r[c].voice \in {rt[c].voice, V(c), NoVoice}
             /\ r[c].voice # NoVoice =>
                  show[c].kind \in Voiced /\ c \in decoded /\ r[c].state \in Holding
             /\ HasVoice(c) => Answered(r[c], ChainsAfter(ops)[c], GosAfter(ops)[c])
  <2> DEFINE v == V(c)
             here == c \in decoded
  <2>1. v \in Voice \cup {NoVoice} /\ here \in BOOLEAN
    BY DEF Voices
  <2>2. rt[c] \in Runtime /\ show[c] \in CueDef /\ ops[c] \in Operations
    BY DEF TypeOK
  <2>3. v # NoVoice => Submits(ops[c], rt[c], show[c], here)
    BY DEF Submitters
  <2>4. ops[c] = "tick" => rt[c].state = "running"
    BY DEF TicksRunning, Running
  <2>5. rt[c].voice # NoVoice => show[c].kind \in Voiced /\ here /\ rt[c].state \in Holding
    BY DEF VoiceInv, OwnedIn, HasVoice
  <2>6. r[c] = After(ops[c], rt[c], show[c], here, v)
    BY DEF RtAfter
  <2> HIDE DEF v, here, r, Operations
  <2>7. r[c].voice \in {rt[c].voice, v, NoVoice}
        /\ (r[c].voice # NoVoice => show[c].kind \in Voiced /\ here /\ r[c].state \in Holding)
    BY <2>1, <2>2, <2>3, <2>4, <2>5, <2>6, AfterVoice
  <2>8. ASSUME HasVoice(c)
        PROVE  Answered(r[c], ChainsAfter(ops)[c], GosAfter(ops)[c])
    <3> DEFINE n == ChainsAfter(ops)[c]
               g == GosAfter(ops)[c]
    <3>1. /\ chains[c] \in 0..MaxCount /\ gos[c] \in 0..MaxCount
          /\ chains[c] <= gos[c] /\ (chains[c] > 0 => rt[c].fired)
          /\ rt[c].state = "running" => gos[c] > 0
      BY <2>8 DEF VoiceInv, FlaggedIn, Answered, TypeOK
    <3>2. CASE ops[c] \in {"stop", "hard_stop", "reset"}
      <4>1. n = 0 /\ g = 0
        BY <3>2 DEF ChainsAfter, GosAfter, Restarts
      <4>2. r[c].state # "running"
        BY <2>1, <2>2, <2>6, <2>8, <3>2, AfterState DEF HasVoice
      <4> QED
        BY <4>1, <4>2 DEF Answered
    <3>3. CASE Begins(ops[c], c)
      <4>1. n = 0 /\ g = 1
        BY <2>8, <3>3 DEF ChainsAfter, GosAfter, Restarts, Begins
      <4> QED
        BY <4>1 DEF Answered
    <3>4. CASE ops[c] \notin {"stop", "hard_stop", "reset"} /\ ~Begins(ops[c], c)
      <4>1. n = chains[c]
        BY <3>4 DEF ChainsAfter, Restarts
      <4>2. ops[c] \in {"go", "preload"} => rt[c].state = "running"
        BY <3>4 DEF Begins, Running
      <4>3. r[c].fired = rt[c].fired
        BY <2>1, <2>2, <2>6, <2>8, <3>4, <4>2, AfterFlag DEF HasVoice
      <4>4. /\ g \in {gos[c], Counted(gos[c])}
            /\ ops[c] \in {"go", "preload", "resume"} => g > 0
        <5>1. Counted(gos[c]) > 0
          BY <3>1, CountedType
        <5>2. CASE ops[c] \in {"go", "preload"} \/ (ops[c] = "resume" /\ gos[c] = 0)
          BY <2>8, <3>4, <5>1, <5>2 DEF GosAfter
        <5>3. CASE ~(ops[c] \in {"go", "preload"} \/ (ops[c] = "resume" /\ gos[c] = 0))
          BY <2>8, <3>1, <3>4, <5>3 DEF GosAfter
        <5> QED
          BY <5>2, <5>3
      <4>5. gos[c] <= Counted(gos[c]) /\ Counted(gos[c]) \in 0..MaxCount
        BY <3>1, BoundAssumption DEF Counted
      <4>6. n <= g
        BY <3>1, <4>1, <4>4, <4>5, BoundAssumption
      <4>7. r[c].state = "running" => g > 0
        <5>1. r[c].state = "running" =>
                rt[c].state = "running" \/ ops[c] \in {"go", "preload", "resume"}
          BY <2>1, <2>2, <2>6, <2>8, AfterState DEF HasVoice
        <5>2. rt[c].state = "running" => g > 0
          BY <3>1, <4>4, <4>5, BoundAssumption
        <5> QED
          BY <4>4, <5>1, <5>2
      <4> QED
        BY <3>1, <4>1, <4>3, <4>6, <4>7 DEF Answered
    <3> QED
      BY <3>2, <3>3, <3>4
  <2> QED
    BY <2>7, <2>8 DEF v, here
<1>2. ASSUME NEW c \in Cue, NEW d \in Cue, c # d, r[c].voice = r[d].voice
      PROVE  r[c].voice = NoVoice
  <2> SUFFICES ASSUME r[c].voice # NoVoice PROVE FALSE
    OBVIOUS
  <2>1. r[c].voice \in {rt[c].voice, V(c)} /\ r[d].voice \in {rt[d].voice, V(d)}
    BY <1>1, <1>2
  <2>2. CASE r[c].voice = rt[c].voice /\ r[d].voice = rt[d].voice
    BY <1>2, <2>2 DEF VoiceInv, ApartIn
  <2>3. CASE r[c].voice = V(c) /\ r[d].voice = V(d)
    BY <1>2, <2>3 DEF Voices
  <2>4. CASE r[c].voice = V(c) /\ r[d].voice = rt[d].voice
    <3>1. c \in Submitters(ops) /\ new[c] \in Fresh(c)
      BY <2>4 DEF Voices
    <3> QED
      BY <1>2, <2>4, <3>1 DEF Fresh
  <2>5. CASE r[c].voice = rt[c].voice /\ r[d].voice = V(d)
    <3>1. d \in Submitters(ops) /\ new[d] \in Fresh(d)
      BY <1>2, <2>5 DEF Voices
    <3> QED
      BY <1>2, <2>5, <3>1 DEF Fresh
  <2> QED
    BY <2>1, <2>2, <2>3, <2>4, <2>5
<1> HIDE DEF r, V
<1> QED
  BY <1>1, <1>2 DEF OwnedIn, ApartIn, FlaggedIn, HasVoice, r
\* No call of a GO is a tick.
LEMMA FireTicksNothing ==
  ASSUME TypeOK, NEW c \in Cue
  PROVE  TicksRunning(FireCalls(c))
<1>1. show[c].action \in CommandActions
  BY DEF TypeOK, CueDef
<1>2. CommandCall(show[c].action) # "tick"
  BY <1>1 DEF CommandCall, CommandActions
<1> QED
  BY <1>2 DEF TicksRunning, FireCalls

\* Marking the cues whose Auto-Continue is counted keeps the invariant.
LEMMA MarkKeepsVoices ==
  ASSUME NEW set, NEW r \in [Cue -> Runtime], OwnedIn(r), ApartIn(r)
  PROVE  /\ OwnedIn(Mark(set, r)) /\ ApartIn(Mark(set, r))
         /\ \A c \in Cue : Mark(set, r)[c].state = r[c].state
         /\ \A c \in Cue : HasVoice(c) =>
              Mark(set, r)[c].fired = (c \in set \/ r[c].fired)
<1>1. ASSUME NEW c \in Cue
      PROVE  /\ Mark(set, r)[c].voice = r[c].voice
             /\ Mark(set, r)[c].state = r[c].state
             /\ HasVoice(c) => Mark(set, r)[c].fired = (c \in set \/ r[c].fired)
  <2>1. r[c] \in Runtime
    OBVIOUS
  <2> QED
    BY <2>1 DEF Mark, Runtime
<1> QED
  BY <1>1 DEF OwnedIn, ApartIn

\* The invariant speaks of show, decoded, rt and the two counts only.
LEMMA VoicesCarryOver ==
  ASSUME show' = show, decoded \subseteq decoded',
         OwnedIn(rt'), ApartIn(rt'), FlaggedIn(rt', chains', gos')
  PROVE  VoiceInv'
BY DEF VoiceInv, OwnedIn, ApartIn, FlaggedIn, HasVoice

\* Every step keeps the voices owned and apart, and the flags up.
LEMMA VoiceInductive == TypeOK /\ VoiceInv /\ [Next]_vars => VoiceInv'
<1> SUFFICES ASSUME TypeOK, VoiceInv, [Next]_vars PROVE VoiceInv'
  OBVIOUS
<1> HIDE DEF Operations
<1>1. ASSUME NEW ops \in [Cue -> Operations], TicksRunning(ops), Call(ops),
             UNCHANGED <<show, decoded>>
      PROVE  VoiceInv'
  BY <1>1, CallKeepsVoices, VoicesCarryOver DEF Call
<1>2. ASSUME UNCHANGED <<show, rt, chains, gos>>, decoded \subseteq decoded'
      PROVE  VoiceInv'
  BY <1>2, VoicesCarryOver DEF VoiceInv
<1>3. ASSUME NEW set, NEW op \in Operations, op = "tick" => \A c \in set : Running(c)
      PROVE  Each(set, op) \in [Cue -> Operations] /\ TicksRunning(Each(set, op))
  BY <1>3 DEF Each, TicksRunning, Operations
<1>4. CASE \/ Go \/ \E c \in Cue : GoCue(c) \/ SetPlayhead(c)
  BY <1>2, <1>4 DEF Go, GoCue, SetPlayhead, StartGo
<1>5. CASE StopAll
  BY <1>1, <1>3, <1>5 DEF StopAll, Calls, Operations
<1>6. CASE \E c \in Cue : StopCue(c) \/ HardStopCue(c) \/ PauseCue(c) \/ ResumeCue(c)
  <2>1. PICK c \in Cue, name \in CommandNames, op \in {"stop", "hard_stop", "pause", "resume"} :
          Calls(name, Only(c, op))
    BY <1>6 DEF StopCue, HardStopCue, PauseCue, ResumeCue, CommandNames
  <2>2. Only(c, op) \in [Cue -> Operations] /\ TicksRunning(Only(c, op))
    BY DEF Only, TicksRunning, Operations
  <2> QED
    BY <1>1, <2>1, <2>2 DEF Calls
<1>7. CASE HardStopAll
  BY <1>7 DEF HardStopAll, VoiceInv, OwnedIn, ApartIn, FlaggedIn, Answered, Idle
<1>8. CASE GoStep
  <2>1. CASE UNCHANGED <<rt, chains, gos>>
    BY <1>2, <1>8, <2>1 DEF GoStep
  <2>2. ASSUME NEW c \in Cue, Fire(c)
        PROVE  VoiceInv'
    <3> DEFINE ops == FireCalls(c)
    <3>1. PICK new \in Voices(ops), byAutoContinue \in BOOLEAN :
            /\ rt' = IF byAutoContinue THEN Mark({c}, RtAfter(ops, new))
                                       ELSE RtAfter(ops, new)
            /\ chains' = ChainedOn(IF byAutoContinue THEN {c} ELSE {}, ChainsAfter(ops))
            /\ gos' = GosAfter(ops)
      BY <2>2 DEF Fire
    <3> DEFINE r == RtAfter(ops, new)
               n == ChainsAfter(ops)
               g == GosAfter(ops)
    <3>2. /\ ops \in [Cue -> Operations] /\ TicksRunning(ops)
          /\ ops[c] = "go"
      BY FireCallsType, FireTicksNothing DEF FireCalls
    <3>3. /\ r \in [Cue -> Runtime]
          /\ n \in [Cue -> 0..MaxCount] /\ g \in [Cue -> 0..MaxCount]
      BY <3>2, CallType
    <3>4. OwnedIn(r) /\ ApartIn(r) /\ FlaggedIn(r, n, g)
      BY <3>2, CallKeepsVoices
    <3>5. HasVoice(c) => Counted(n[c]) <= g[c]
      <4> SUFFICES ASSUME HasVoice(c) PROVE Counted(n[c]) <= g[c]
        OBVIOUS
      <4>1. chains[c] \in 0..MaxCount /\ gos[c] \in 0..MaxCount /\ chains[c] <= gos[c]
        BY DEF VoiceInv, FlaggedIn, Answered, TypeOK
      <4>2. CASE Begins(ops[c], c)
        <5>1. n[c] = 0 /\ g[c] = 1
          BY <4>2 DEF ChainsAfter, GosAfter, Restarts, Begins
        <5> QED
          BY <5>1, BoundAssumption DEF Counted
      <4>3. CASE ~Begins(ops[c], c)
        <5>1. n[c] = chains[c] /\ g[c] = Counted(gos[c])
          BY <3>2, <4>3 DEF ChainsAfter, GosAfter, Restarts
        <5> QED
          BY <4>1, <5>1, CountedMonotone
      <4> QED
        BY <4>2, <4>3
    <3> HIDE DEF ops, r, n, g
    <3>6. OwnedIn(rt') /\ ApartIn(rt') /\ FlaggedIn(rt', chains', gos')
      <4>1. CASE byAutoContinue
        <5>1. rt' = Mark({c}, r)
          BY <3>1, <4>1 DEF r
        <5>2. gos' = g
          BY <3>1 DEF g
        <5>3. \A d \in Cue : HasVoice(d) =>
                chains'[d] = IF d = c THEN Counted(n[d]) ELSE n[d]
          BY <3>1, <4>1 DEF ChainedOn, n
        <5>4. OwnedIn(rt') /\ ApartIn(rt')
          BY <3>3, <3>4, <5>1, MarkKeepsVoices
        <5>5. ASSUME NEW d \in Cue, HasVoice(d)
              PROVE  Answered(rt'[d], chains'[d], gos'[d])
          <6>1. Answered(r[d], n[d], g[d])
            BY <3>4, <5>5 DEF FlaggedIn
          <6>2. /\ rt'[d].fired = (d = c \/ r[d].fired)
                /\ rt'[d].state = r[d].state
            BY <3>3, <3>4, <5>1, <5>5, MarkKeepsVoices
          <6>3. CASE d = c
            BY <3>5, <5>2, <5>3, <5>5, <6>1, <6>2, <6>3 DEF Answered
          <6>4. CASE d # c
            BY <5>2, <5>3, <5>5, <6>1, <6>2, <6>4 DEF Answered
          <6> QED
            BY <6>3, <6>4
        <5> QED
          BY <5>4, <5>5 DEF FlaggedIn
      <4>2. CASE ~byAutoContinue
        <5>1. rt' = r /\ gos' = g
          BY <3>1, <4>2 DEF r, g
        <5>2. \A d \in Cue : chains'[d] = n[d]
          BY <3>1, <4>2 DEF ChainedOn, n
        <5> QED
          BY <3>4, <5>1, <5>2 DEF FlaggedIn
      <4> QED
        BY <4>1, <4>2
    <3> QED
      BY <1>8, <3>6, VoicesCarryOver DEF GoStep
  <2> QED
    BY <1>8, <2>1, <2>2 DEF GoStep
<1>9. CASE DrainStatus \/ SkipTick
  BY <1>2, <1>9 DEF DrainStatus, SkipTick, OutsideTick
<1>10. CASE LockWorkspace
  <2>1. \/ Call(Each(GuardPauses, "pause"))
        \/ Call(Each(GuardResumes, "resume"))
        \/ UNCHANGED <<rt, chains, gos>>
    <3>1. PICK now \in FrozenNow :
            CASE now /\ ~frozen -> Call(Each(GuardPauses, "pause"))
              [] ~now /\ frozen -> Call(Each(GuardResumes, "resume"))
              [] now <=> frozen -> UNCHANGED <<rt, chains, gos>>
      BY <1>10 DEF LockWorkspace
    <3>2. now \in BOOLEAN /\ frozen \in BOOLEAN
      BY DEF FrozenNow, TypeOK
    <3> QED
      BY <3>1, <3>2
  <2>2. UNCHANGED <<show, decoded>>
    BY <1>10 DEF LockWorkspace, OutsideTick
  <2>3. {"pause", "resume"} \subseteq Operations
    BY DEF Operations
  <2> QED
    BY <1>1, <1>2, <1>3, <2>1, <2>2, <2>3
<1>11. CASE TickCues
  <2>1. "tick" \in Operations
    BY DEF Operations
  <2> QED
    BY <1>1, <1>3, <1>11, <2>1 DEF TickCues, OutsideTick
<1>12. CASE ReapCompleted
  <2>1. "reset" \in Operations
    BY DEF Operations
  <2> QED
    BY <1>1, <1>3, <1>12, <2>1 DEF ReapCompleted, OutsideTick
<1>13. CASE ContinueCues
  <2>1. rt' = Mark(AutoContinues, rt)
    BY <1>13 DEF ContinueCues
  <2>2. rt \in [Cue -> Runtime] /\ gos' = gos
    BY <1>13 DEF ContinueCues, TypeOK
  <2>3. \A c \in Cue : HasVoice(c) =>
          chains'[c] = IF c \in AutoContinues THEN Counted(chains[c]) ELSE chains[c]
    BY <1>13 DEF ContinueCues, ChainedOn
  <2>4. \A c \in AutoContinues : c \in Cue /\ ~rt[c].fired /\ rt[c].state = "running"
    BY DEF AutoContinues, Running
  <2>5. OwnedIn(rt') /\ ApartIn(rt')
    BY <2>1, <2>2, MarkKeepsVoices DEF VoiceInv
  <2>6. ASSUME NEW c \in Cue, HasVoice(c)
        PROVE  Answered(rt'[c], chains'[c], gos'[c])
    <3>1. /\ Answered(rt[c], chains[c], gos[c])
          /\ chains[c] \in 0..MaxCount /\ gos[c] \in 0..MaxCount
      BY <2>6 DEF VoiceInv, FlaggedIn, TypeOK
    <3>2. /\ rt'[c].fired = (c \in AutoContinues \/ rt[c].fired)
          /\ rt'[c].state = rt[c].state
      BY <2>1, <2>2, <2>6, MarkKeepsVoices DEF VoiceInv
    <3>3. CASE c \in AutoContinues
      <4>1. chains[c] = 0 /\ gos[c] > 0
        BY <2>4, <3>1, <3>3, BoundAssumption DEF Answered
      <4>2. chains'[c] = 1
        BY <2>3, <2>6, <3>3, <4>1, BoundAssumption DEF Counted
      <4>3. rt'[c].fired
        BY <3>2, <3>3
      <4>4. 1 <= gos'[c] /\ gos'[c] > 0
        BY <2>2, <3>1, <4>1, BoundAssumption
      <4> QED
        BY <4>2, <4>3, <4>4 DEF Answered
    <3>4. CASE c \notin AutoContinues
      <4>1. rt[c].fired => rt'[c].fired
        BY <3>2
      <4>2. chains'[c] = chains[c]
        BY <2>3, <2>6, <3>4
      <4>3. rt'[c].state = rt[c].state
        BY <3>2
      <4> QED
        BY <2>2, <3>1, <4>1, <4>2, <4>3 DEF Answered
    <3> QED
      BY <3>3, <3>4
  <2>7. FlaggedIn(rt', chains', gos')
    BY <2>6 DEF FlaggedIn
  <2> QED
    BY <1>13, <2>5, <2>7, VoicesCarryOver DEF ContinueCues, OutsideTick
<1>14. CASE \E c \in Cue : \E due \in Due : Elapse(c, due)
  <2>1. PICK c \in Cue, due \in Due : Elapse(c, due)
    BY <1>14
  <2>2. \A d \in Cue : /\ rt'[d].voice = rt[d].voice /\ rt'[d].state = rt[d].state
                       /\ rt'[d].fired = rt[d].fired
    BY <2>1 DEF Elapse, TypeOK, Runtime
  <2> QED
    BY <2>1, <2>2, VoicesCarryOver DEF Elapse, VoiceInv, OwnedIn, ApartIn, FlaggedIn, Answered
<1>15. CASE \/ \E v \in Voice : VoiceEnds(v)
            \/ \E c \in Cue : FollowDue(c) \/ AcceptPreloadedAudio(c)
            \/ Device
  BY <1>2, <1>15 DEF VoiceEnds, FollowDue, AcceptPreloadedAudio, Device
<1>16. CASE UNCHANGED vars
  BY <1>2, <1>16 DEF vars
<1> QED
  BY <1>4, <1>5, <1>6, <1>7, <1>8, <1>9, <1>10, <1>11, <1>12, <1>13, <1>14, <1>15,
     <1>16 DEF Next, EventLoop

\* The invariant holds throughout.
LEMMA VoiceCorrect == Spec => []VoiceInv
<1>1. Init => VoiceInv
  BY DEF Init, VoiceInv, OwnedIn, ApartIn, FlaggedIn, Answered, Idle
<1> QED
  BY <1>1, VoiceInductive, TypeCorrect, PTL DEF Spec

\* A voice has at most one owner, an Audio Cue that is running or paused: the
\* completion of a voice names one cue and Stop reaches what a cue plays.
THEOREM VoicesHaveOneOwner == Spec => []VoiceOwnership
<1>1. VoiceInv => VoiceOwnership
  BY DEF VoiceInv, OwnedIn, ApartIn, VoiceOwnership, Active, Holding
<1> QED
  BY <1>1, VoiceCorrect, PTL

\* In a play of an Audio or a Mic Cue Auto-Continue fires no more often than the cue was
\* given a GO, whether the transport fires it at once or the loop after the post-wait.
THEOREM ContinuesOnce == Spec => []AutoContinueOnce
<1>1. VoiceInv => AutoContinueOnce
  BY DEF VoiceInv, FlaggedIn, Answered, AutoContinueOnce
<1> QED
  BY <1>1, VoiceCorrect, PTL
---------------------------------------------------------------------------
(***************************************************************************)
(* The panic.  That nothing runs after it is not inductive: the loop may    *)
(* hold the workspace with a GO due, a chain may be in progress, or the     *)
(* freeze guard may have a cue to resume.  QuietInv excludes all three, and *)
(* LockInv says why a panic, which needs the lock, meets none of them.      *)
(***************************************************************************)
LockInv == /\ lock = "free" => steps = 0 /\ ~goDue
           /\ pc \in {"tick", "reap", "continue", "go"} => lock = "loop"

QuietInv == quiet => /\ rt = [c \in Cue |-> Idle]
                     /\ \A c \in Cue : follow[c] = "none"
                     /\ steps = 0 /\ ~goDue

\* The loop alone runs its passes, and whoever leaves ends its chain.
LEMMA LockInductive == TypeOK /\ LockInv /\ [Next]_vars => LockInv'
<1> SUFFICES ASSUME TypeOK, LockInv, [Next]_vars PROVE LockInv'
  OBVIOUS
<1>1. CASE UNCHANGED <<lock, steps, goDue, pc>>
  BY <1>1 DEF LockInv
<1>2. ASSUME NEW e, NEW done, lock # "free", Release(e, done)
      PROVE  LockInv'
  BY <1>2 DEF LockInv, Release, TypeOK
<1>3. ASSUME NEW e, NEW done, lock # "free", Again(e, done)
      PROVE  LockInv'
  BY <1>2, <1>3 DEF LockInv, Again
<1>4. CASE Go \/ \E c \in Cue : GoCue(c)
  BY <1>4 DEF Go, GoCue, StartGo, Command, LockInv
<1>5. CASE GoStep
  BY <1>2, <1>3, <1>5 DEF GoStep, Fire
<1>6. CASE DrainStatus \/ SkipTick \/ TickCues
  BY <1>6 DEF DrainStatus, SkipTick, TickCues, LockInv
<1>7. CASE LockWorkspace
  BY <1>7 DEF LockWorkspace, LockInv
<1>8. CASE ReapCompleted
  BY <1>8 DEF ReapCompleted, LockInv
<1>9. CASE ContinueCues
  <2>1. lock = "loop"
    BY <1>9 DEF ContinueCues, LockInv
  <2>2. CASE Release(eng, drained)
    BY <1>2, <2>1, <2>2
  <2>3. CASE pc' = "go" /\ UNCHANGED lock
    BY <2>1, <2>3 DEF LockInv
  <2> QED
    BY <1>9, <2>2, <2>3 DEF ContinueCues
<1> QED
  BY <1>1, <1>4, <1>5, <1>6, <1>7, <1>8, <1>9
     DEF Next, EventLoop, vars, SetPlayhead, StopAll, StopCue, HardStopCue, PauseCue,
         ResumeCue, Calls, HardStopAll, VoiceEnds, Elapse, FollowDue,
         AcceptPreloadedAudio, Device

\* When every cue is idle, a round of ticks or resets that names no cue does nothing.
LEMMA NoCallWhenIdle ==
  ASSUME TypeOK, rt = [c \in Cue |-> Idle], NEW op, Call(Each({}, op))
  PROVE  rt' = rt
<1>1. PICK new \in Voices(Each({}, op)) : rt' = RtAfter(Each({}, op), new)
  BY DEF Call
<1>2. ASSUME NEW c \in Cue, NEW here, NEW v
      PROVE  After("none", rt[c], show[c], here, v) = rt[c]
  BY DEF After, Audio, Mic, Wait, Instant, Memos, StopCues, CommandCues, Devamps, Osc, Midi,
         Script, TypeOK, CueDef, Kinds
<1>3. \A c \in Cue : Each({}, op)[c] = "none"
  BY DEF Each
<1>4. \A c \in Cue : rt'[c] = rt[c]
  BY <1>1, <1>2, <1>3 DEF RtAfter
<1> QED
  BY <1>1, <1>4 DEF RtAfter

\* Nothing but the operator, or a follow that waited, ends the quiet.
LEMMA QuietInductive == TypeOK /\ LockInv /\ QuietInv /\ [Next]_vars => QuietInv'
<1> SUFFICES ASSUME TypeOK, LockInv, QuietInv, [Next]_vars, quiet' PROVE QuietInv'
  BY DEF QuietInv
<1>1. CASE HardStopAll
  BY <1>1 DEF HardStopAll, Command, LockInv, QuietInv
<1>2. CASE \/ Go \/ \E c \in Cue : GoCue(c)
           \/ StopAll \/ \E c \in Cue : \/ StopCue(c) \/ HardStopCue(c)
                                        \/ PauseCue(c) \/ ResumeCue(c)
  BY <1>2 DEF Go, GoCue, StartGo, StopAll, StopCue, HardStopCue, PauseCue, ResumeCue, Calls
<1>3. CASE UNCHANGED <<quiet, rt, follow, steps, goDue>>
  BY <1>3 DEF QuietInv
<1> SUFFICES ASSUME quiet, quiet' = quiet PROVE QuietInv'
  BY <1>1, <1>2, <1>3
     DEF Next, EventLoop, SetPlayhead, GoStep, DrainStatus, SkipTick, LockWorkspace,
         TickCues, ReapCompleted, ContinueCues, OutsideTick, VoiceEnds, Elapse, FollowDue,
         AcceptPreloadedAudio, Device, vars
<1>4. /\ rt = [c \in Cue |-> Idle] /\ \A c \in Cue : follow[c] = "none"
      /\ steps = 0 /\ ~goDue
  BY DEF QuietInv
<1>5. \A c \in Cue : ~Running(c) /\ rt[c].state = "standby"
  BY <1>4 DEF Running, Idle
<1>6. CASE GoStep
  BY <1>4, <1>6 DEF GoStep
<1>7. CASE LockWorkspace
  <2>1. GuardPauses = {} /\ GuardResumes = {}
    BY <1>5 DEF GuardPauses, GuardResumes, TypeOK
  <2>2. rt' = rt
    <3>1. PICK now \in FrozenNow :
            CASE now /\ ~frozen -> Call(Each(GuardPauses, "pause"))
              [] ~now /\ frozen -> Call(Each(GuardResumes, "resume"))
              [] now <=> frozen -> rt' = rt
      BY <1>7 DEF LockWorkspace
    <3>2. now \in BOOLEAN /\ frozen \in BOOLEAN
      BY DEF FrozenNow, TypeOK
    <3>3. Call(Each({}, "pause")) \/ Call(Each({}, "resume")) \/ rt' = rt
      BY <2>1, <3>1, <3>2
    <3> QED
      BY <1>4, <3>3, NoCallWhenIdle
  <2>3. goDue' = FALSE /\ steps' = steps
    BY <1>4, <1>7 DEF LockWorkspace
  <2>4. \A c \in Cue : follow'[c] = "none"
    BY <1>4, <1>7 DEF LockWorkspace
  <2> QED
    BY <1>4, <2>2, <2>3, <2>4 DEF QuietInv
<1>8. CASE TickCues
  <2>1. {c \in Cue : Running(c)} = {}
    BY <1>5
  <2>2. rt' = rt
    BY <1>4, <1>8, <2>1, NoCallWhenIdle DEF TickCues
  <2> QED
    BY <1>4, <1>8, <2>2 DEF TickCues, QuietInv
<1>9. CASE ReapCompleted
  <2>1. Done = {}
    BY <1>5 DEF Done
  <2>2. rt' = rt
    BY <1>4, <1>9, <2>1, NoCallWhenIdle DEF ReapCompleted
  <2>3. goDue' = FALSE
    BY <1>4, <1>9, <2>1 DEF ReapCompleted, GoWanted
  <2>4. \A c \in Cue : follow'[c] = "none"
    BY <1>4, <1>9, <2>1 DEF ReapCompleted
  <2> QED
    BY <1>4, <1>9, <2>2, <2>3, <2>4 DEF ReapCompleted, QuietInv
<1>10. CASE ContinueCues
  <2>1. AutoContinues = {}
    BY <1>5 DEF AutoContinues
  <2>2. rt' = rt
    <3>1. rt' = Mark({}, rt)
      BY <1>10, <2>1 DEF ContinueCues
    <3> QED
      BY <3>1, <1>4 DEF Mark
  <2>3. Release(eng, drained)
    BY <1>4, <1>10, <2>1 DEF ContinueCues
  <2> QED
    BY <1>4, <1>10, <2>2, <2>3 DEF ContinueCues, Release, QuietInv
<1>11. CASE \E c \in Cue : \/ FollowDue(c)
                          \/ \E due \in Due : Elapse(c, due)
  BY <1>4, <1>5, <1>11 DEF FollowDue, Elapse
<1> QED
  BY <1>1, <1>2, <1>3, <1>6, <1>7, <1>8, <1>9, <1>10, <1>11
     DEF Next, EventLoop, SetPlayhead, DrainStatus, SkipTick, OutsideTick, VoiceEnds,
         AcceptPreloadedAudio, Device, vars

\* After a panic nothing runs until the operator, or an Auto-Follow that was
\* waiting when it came, starts something: whatever chain, tick, completion or
\* freeze the panic fell between.
THEOREM PanicStaysQuiet == Spec => []PanicHolds
<1>1. Init => LockInv /\ QuietInv
  BY DEF Init, LockInv, QuietInv
<1>2. QuietInv => PanicHolds
  BY DEF QuietInv, PanicHolds, Running, Idle
<1> QED
  BY <1>1, <1>2, LockInductive, QuietInductive, TypeCorrect, PTL DEF Spec
---------------------------------------------------------------------------
(***************************************************************************)
(* The reach of Stop All.                                                   *)
(*                                                                          *)
(* A cue leaves an endless voice that plays only by a call that silences    *)
(* it.  For that the engine and the cue must agree: a voice somebody owns   *)
(* is not fading out, a paused cue's voice does not play, and the           *)
(* completion of an endless voice is never waiting for the loop, which      *)
(* would reset its owner and leave the voice alone (HeldIn).  A cue without *)
(* a pre-wait never is in one (PreIn).  KeptIn is what is left to keep.     *)
(***************************************************************************)
Forgetful == \E c \in Cue : ForgetsVoices(c)

PreIn(r) == \A c \in Cue : r[c].pre => show[c].pre

HeldIn(r, e, l, q) ==
  \A c \in Cue : r[c].voice # NoVoice =>
    /\ e[r[c].voice] # "fading"
    /\ r[c].voice \in l => /\ show[c].length # "finite"
                           /\ r[c].voice \notin q
                           /\ r[c].state # "paused" \/ e[r[c].voice] # "playing"

KeptIn(r, e, l) == \A v \in l : e[v] = "playing" => \E c \in Cue : r[c].voice = v

ReachInv ==
  /\ PreIn(rt)
  /\ Forgetful \/ (/\ HeldIn(rt, eng, looping, statusQ \cup drained)
                   /\ KeptIn(rt, eng, looping))

\* The loop resets no cue whose voice loops on.
ResetsSpent(ops) == \A c \in Cue : ops[c] = "reset" => rt[c].voice \notin looping

\* A cue is in a pre-wait only if it was, or if it has one.
LEMMA AfterPre ==
  ASSUME NEW op \in Operations, NEW r \in Runtime, NEW d \in CueDef,
         NEW here \in BOOLEAN, NEW v \in Voice \cup {NoVoice}
  PROVE  After(op, r, d, here, v).pre => r.pre \/ d.pre
<1>1. CASE d.kind = "wait"
  BY <1>1 DEF After, Wait, WaitGo, WaitPause, Idle, Runtime
<1>2. CASE d.kind \in Kinds \ {"audio", "mic", "wait"}
  <2>1. After(op, r, d, here, v) = Instant(op, r)
    BY <1>2 DEF After, Kinds, Memos, StopCues, CommandCues, Devamps, Osc, Midi, Script
  <2> QED
    BY <2>1 DEF Instant, Idle, Runtime
<1>3. CASE d.kind = "audio"
  <2>1. CASE op \in {"go", "preload"}
    BY <1>3, <2>1 DEF After, Audio, AudioGo, AudioPause, StartAudioAction, Runtime
  <2>2. CASE op \in {"pause", "resume", "tick", "none"}
    BY <1>3, <2>2
       DEF After, Audio, AudioPause, AudioResume, AudioTick, StartAudioAction, Runtime
  <2>3. CASE op \in {"stop", "hard_stop", "reset"}
    BY <1>3, <2>3 DEF After, Audio, Halted, Idle
  <2> QED
    BY <2>1, <2>2, <2>3
<1>4. CASE d.kind = "mic"
  <2>1. CASE op \in {"go", "preload"}
    BY <1>4, <2>1 DEF After, Mic, AudioGo, MicPause, StartAudioAction, Runtime
  <2>2. CASE op \in {"pause", "resume", "tick", "none"}
    BY <1>4, <2>2 DEF After, Mic, MicPause, AudioTick, StartAudioAction, Runtime
  <2>3. CASE op \in {"stop", "hard_stop", "reset"}
    BY <1>4, <2>3 DEF After, Mic, Idle
  <2> QED
    BY <2>1, <2>2, <2>3
<1> QED
  BY <1>1, <1>2, <1>3, <1>4 DEF CueDef, Kinds

\* A call that submits a voice leaves the cue with it, paused by a Load only.
LEMMA AfterNew ==
  ASSUME NEW op \in Operations, NEW r \in Runtime, NEW d \in CueDef,
         NEW here \in BOOLEAN, NEW v \in Voice \cup {NoVoice},
         Submits(op, r, d, here), op = "tick" => r.state = "running"
  PROVE  /\ After(op, r, d, here, v).voice = v
         /\ After(op, r, d, here, v).state = "paused" => op = "preload"
<1>1. d.kind \in {"audio", "mic"} /\ here /\ op \in {"go", "preload", "tick"}
  BY DEF Submits, Voiced
<1>2. CASE op = "tick"
  BY <1>1, <1>2 DEF Submits, After, Audio, Mic, AudioTick, StartAudioAction, Runtime
<1>3. CASE op = "go"
  BY <1>1, <1>3 DEF Submits, After, Audio, Mic, AudioGo, StartAudioAction, Runtime
<1>4. CASE op = "preload"
  BY <1>1, <1>4
     DEF Submits, After, Audio, Mic, AudioGo, AudioPause, MicPause, StartAudioAction, Runtime
<1> QED
  BY <1>1, <1>2, <1>3, <1>4

\* A voice that fades has been stopped, and its cue has let go of it.
LEMMA AfterFading ==
  ASSUME NEW op \in Operations, NEW r \in Runtime, NEW d \in CueDef,
         NEW here \in BOOLEAN, NEW v \in Voice \cup {NoVoice}, NEW s \in VoiceStates,
         d.kind \in Voiced, s # "fading", EngineAfter(op, r, s) = "fading"
  PROVE  After(op, r, d, here, v).voice = NoVoice
<1>1. op = "stop"
  BY DEF EngineAfter
<1>2. Audio(op, r, d, here, v) = Idle /\ Mic(op, r, d, here, v) = Idle
  BY <1>1 DEF Audio, Mic, Halted
<1>3. Idle.voice = NoVoice
  BY DEF Idle
<1> QED
  BY <1>2, <1>3 DEF After, Voiced

\* A call after which the voice plays, a reset apart, starts no other and leaves the cue
\* its voice, not paused: any call that would let go of the voice has silenced it.
LEMMA AfterLoop ==
  ASSUME NEW op \in Operations, NEW r \in Runtime, NEW d \in CueDef,
         NEW here \in BOOLEAN, NEW v \in Voice \cup {NoVoice}, NEW s \in VoiceStates,
         d.kind \in Voiced, r.state \in Holding,
         ~r.pre, ~d.pre, op # "reset",
         r.state # "paused" \/ s # "playing",
         EngineAfter(op, r, s) = "playing"
  PROVE  /\ ~Submits(op, r, d, here)
         /\ After(op, r, d, here, v).voice = r.voice
         /\ After(op, r, d, here, v).state # "paused"
<1> DEFINE x == After(op, r, d, here, v)
<1>0. x = Audio(op, r, d, here, v) \/ x = Mic(op, r, d, here, v)
  <2>1. CASE d.kind = "audio"
    BY <2>1 DEF After
  <2>2. CASE d.kind = "mic"
    BY <2>2 DEF After
  <2> QED
    BY <2>1, <2>2 DEF Voiced
<1>1. op \in {"go", "preload", "tick", "none", "resume"}
  BY DEF EngineAfter
<1> HIDE DEF x
<1>2. CASE op = "resume"
  <2>1. Audio(op, r, d, here, v).voice = r.voice /\ Audio(op, r, d, here, v).state = "running"
    BY <1>2 DEF Audio, AudioResume, Runtime
  <2>2. Mic(op, r, d, here, v).voice = r.voice /\ Mic(op, r, d, here, v).state = "running"
    BY <1>2 DEF Mic, Runtime
  <2>3. ~Submits(op, r, d, here)
    BY <1>2 DEF Submits
  <2> QED
    BY <1>0, <2>1, <2>2, <2>3 DEF x
<1>3. CASE op # "resume"
  <2>1. s = "playing" /\ r.state = "running"
    BY <1>1, <1>3 DEF EngineAfter, Holding
  <2>2. op # "preload"
    BY <2>1 DEF EngineAfter
  <2>3. op \in {"go", "tick", "none"}
    BY <1>1, <1>3, <2>2
  <2>4. Audio(op, r, d, here, v) = r
    BY <2>1, <2>3 DEF Audio, AudioGo, AudioTick
  <2>5. Mic(op, r, d, here, v) = r
    BY <2>1, <2>3 DEF Mic, AudioGo, AudioTick
  <2>6. ~Submits(op, r, d, here)
    BY <2>1, <2>3 DEF Submits
  <2> QED
    BY <1>0, <2>1, <2>4, <2>5, <2>6 DEF x
<1> QED
  BY <1>2, <1>3

\* A round of calls that resets no cue whose voice loops keeps the invariant.
LEMMA CallKeepsReach ==
  ASSUME TypeOK, VoiceInv, ReachInv, NEW ops \in [Cue -> Operations],
         TicksRunning(ops), ResetsSpent(ops), NEW new \in Voices(ops)
  PROVE  LET r == RtAfter(ops, new)
             e == EngAfter(ops, new)
             l == LoopsAfter(ops, new)
         IN  /\ PreIn(r)
             /\ Forgetful \/ (/\ HeldIn(r, e, l, (statusQ \cup drained) \ Taken(new))
                              /\ KeptIn(r, e, l))
<1> DEFINE r == RtAfter(ops, new)
           e == EngAfter(ops, new)
           l == LoopsAfter(ops, new)
           q == statusQ \cup drained
           V(c) == IF c \in Submitters(ops) THEN new[c] ELSE NoVoice
<1>1. ASSUME NEW c \in Cue
      PROVE  /\ V(c) \in Voice \cup {NoVoice} /\ (c \in decoded) \in BOOLEAN
             /\ rt[c] \in Runtime /\ show[c] \in CueDef /\ ops[c] \in Operations
             /\ r[c] = After(ops[c], rt[c], show[c], c \in decoded, V(c))
             /\ V(c) # NoVoice => Submits(ops[c], rt[c], show[c], c \in decoded)
             /\ ops[c] = "tick" => rt[c].state = "running"
             /\ rt[c].voice # NoVoice => /\ show[c].kind \in Voiced /\ c \in decoded
                                         /\ rt[c].state \in Holding
             /\ rt[c].pre => show[c].pre
  <2>1. V(c) \in Voice \cup {NoVoice} /\ (c \in decoded) \in BOOLEAN
    BY DEF Voices
  <2>2. rt[c] \in Runtime /\ show[c] \in CueDef /\ ops[c] \in Operations
    BY DEF TypeOK
  <2>3. r[c] = After(ops[c], rt[c], show[c], c \in decoded, V(c))
    BY DEF RtAfter
  <2>4. V(c) # NoVoice => Submits(ops[c], rt[c], show[c], c \in decoded)
    BY DEF Submitters
  <2>5. ops[c] = "tick" => rt[c].state = "running"
    BY DEF TicksRunning, Running
  <2>6. rt[c].voice # NoVoice => /\ show[c].kind \in Voiced /\ c \in decoded
                                 /\ rt[c].state \in Holding
    BY DEF VoiceInv, OwnedIn, HasVoice
  <2>7. rt[c].pre => show[c].pre
    BY DEF ReachInv, PreIn
  <2> QED
    BY <2>1, <2>2, <2>3, <2>4, <2>5, <2>6, <2>7
<1>2. ASSUME NEW c \in Submitters(ops)
      PROVE  /\ c \in Cue /\ new[c] \in Voice /\ new[c] \in Fresh(c) /\ V(c) = new[c]
             /\ Submits(ops[c], rt[c], show[c], c \in decoded)
             /\ \A d \in Submitters(ops) : new[c] = new[d] => c = d
             /\ new[c] \in Taken(new)
  BY DEF Voices, Submitters, Taken
<1>3. ASSUME NEW v \in Voice, NEW c \in Submitters(ops), new[c] = v
      PROVE  /\ e[v] = IF ops[c] = "preload" THEN "paused" ELSE "playing"
             /\ v \in l <=> show[c].length # "finite"
  <2>1. \A d \in Submitters(ops) : new[d] = v <=> d = c
    BY <1>2, <1>3
  <2>2. e[v] = IF \E d \in Submitters(ops) : new[d] = v /\ ops[d] = "preload"
               THEN "paused" ELSE "playing"
    BY <2>1 DEF EngAfter
  <2>3. v \in l <=> \E d \in Submitters(ops) : new[d] = v /\ show[d].length # "finite"
    BY <2>1 DEF LoopsAfter
  <2> HIDE DEF e, l
  <2> QED
    BY <2>1, <2>2, <2>3
<1>4. ASSUME NEW v \in Voice, \A c \in Submitters(ops) : new[c] # v
      PROVE  v \in l <=> v \in looping
  BY <1>4 DEF LoopsAfter
<1>5. ASSUME NEW c \in Cue, rt[c].voice # NoVoice,
             \A d \in Submitters(ops) : new[d] # rt[c].voice
      PROVE  /\ rt[c].voice \in Voice
             /\ e[rt[c].voice] = EngineAfter(ops[c], rt[c], eng[rt[c].voice])
  <2> DEFINE v == rt[c].voice
             o == CHOOSE d \in Cue : rt[d].voice = v
  <2>1. v \in Voice
    BY <1>1, <1>5 DEF Runtime
  <2>2. v \in Owned
    BY DEF Owned
  <2>3. o \in Cue /\ rt[o].voice = v
    OBVIOUS
  <2>4. o = c
    BY <1>5, <2>3 DEF VoiceInv, ApartIn
  <2>5. e[v] = EngineAfter(ops[o], rt[o], eng[v])
    BY <1>5, <2>1, <2>2 DEF EngAfter
  <2> HIDE DEF e, o
  <2> QED
    BY <2>1, <2>4, <2>5
<1>6. ASSUME NEW v \in Voice, \A c \in Submitters(ops) : new[c] # v, v \notin Owned
      PROVE  e[v] = eng[v]
  BY <1>6 DEF EngAfter
<1> HIDE DEF r, e, l, V, Operations
<1>7. PreIn(r)
  <2>1. ASSUME NEW c \in Cue, r[c].pre PROVE show[c].pre
    <3>1. After(ops[c], rt[c], show[c], c \in decoded, V(c)).pre => rt[c].pre \/ show[c].pre
      BY <1>1, AfterPre
    <3> QED
      BY <1>1, <2>1, <3>1
  <2> QED
    BY <2>1 DEF PreIn
<1>8. SUFFICES ASSUME ~Forgetful
               PROVE  HeldIn(r, e, l, q \ Taken(new)) /\ KeptIn(r, e, l)
  BY <1>7 DEF r, e, l
<1>9. HeldIn(rt, eng, looping, q) /\ KeptIn(rt, eng, looping)
  BY <1>8 DEF ReachInv
<1>10. ASSUME NEW c \in Submitters(ops)
       PROVE  r[c].voice = new[c] /\ (r[c].state = "paused" => ops[c] = "preload")
  <2> DEFINE here == c \in decoded
  <2>1. c \in Cue /\ here \in BOOLEAN /\ V(c) = new[c]
    BY <1>2
  <2>2. /\ V(c) \in Voice \cup {NoVoice} /\ rt[c] \in Runtime /\ show[c] \in CueDef
        /\ ops[c] \in Operations /\ r[c] = After(ops[c], rt[c], show[c], here, V(c))
        /\ ops[c] = "tick" => rt[c].state = "running"
    BY <1>1, <2>1
  <2>3. Submits(ops[c], rt[c], show[c], here)
    BY <1>2
  <2> HIDE DEF here
  <2>4. /\ After(ops[c], rt[c], show[c], here, V(c)).voice = V(c)
        /\ After(ops[c], rt[c], show[c], here, V(c)).state = "paused" => ops[c] = "preload"
    BY <2>1, <2>2, <2>3, AfterNew
  <2> QED
    BY <2>1, <2>2, <2>4
\* An owned voice that plays after the round is with its owner, who is not paused.
<1>11. ASSUME NEW c \in Cue, rt[c].voice # NoVoice, rt[c].voice \in looping,
              \A d \in Submitters(ops) : new[d] # rt[c].voice,
              e[rt[c].voice] = "playing"
       PROVE  r[c].voice = rt[c].voice /\ r[c].state # "paused"
  <2>1. /\ show[c].length # "finite"
        /\ rt[c].state # "paused" \/ eng[rt[c].voice] # "playing"
    BY <1>9, <1>11 DEF HeldIn
  <2>2. show[c].kind \in Voiced /\ c \in decoded /\ rt[c].state \in Holding
    BY <1>1, <1>11
  <2>3. ~show[c].pre
    <3>1. show[c].length \in Lengths
      BY <1>1 DEF CueDef
    <3>2. ~ForgetsVoices(c)
      BY <1>8 DEF Forgetful
    <3> QED
      BY <2>1, <2>2, <3>1, <3>2 DEF ForgetsVoices, HasVoice, Lengths
  <2>4. ~rt[c].pre
    BY <1>1, <2>3
  <2>5. ops[c] # "reset"
    BY <1>11 DEF ResetsSpent
  <2>6. rt[c].voice \in Voice /\ EngineAfter(ops[c], rt[c], eng[rt[c].voice]) = "playing"
    BY <1>5, <1>11
  <2>7. eng[rt[c].voice] \in VoiceStates
    BY <2>6 DEF TypeOK
  <2>8. /\ After(ops[c], rt[c], show[c], c \in decoded, V(c)).voice = rt[c].voice
        /\ After(ops[c], rt[c], show[c], c \in decoded, V(c)).state # "paused"
    <3> DEFINE here == c \in decoded
               s == eng[rt[c].voice]
    <3>1. here \in BOOLEAN /\ s \in VoiceStates
      BY <2>2, <2>7
    <3>2. EngineAfter(ops[c], rt[c], s) = "playing" /\ (rt[c].state # "paused" \/ s # "playing")
      BY <2>1, <2>6
    <3>3. /\ V(c) \in Voice \cup {NoVoice} /\ rt[c] \in Runtime /\ show[c] \in CueDef
          /\ ops[c] \in Operations /\ ~rt[c].pre /\ ~show[c].pre /\ ops[c] # "reset"
          /\ show[c].kind \in Voiced /\ rt[c].state \in Holding
      BY <1>1, <2>2, <2>3, <2>4, <2>5
    <3> HIDE DEF here, s
    <3>4. /\ After(ops[c], rt[c], show[c], here, V(c)).voice = rt[c].voice
          /\ After(ops[c], rt[c], show[c], here, V(c)).state # "paused"
      BY <3>1, <3>2, <3>3, AfterLoop
    <3> QED
      BY <3>4 DEF here
  <2> QED
    BY <1>1, <2>8
<1>12. ASSUME NEW c \in Cue, r[c].voice # NoVoice
       PROVE  /\ e[r[c].voice] # "fading"
              /\ r[c].voice \in l => /\ show[c].length # "finite"
                                     /\ r[c].voice \notin q \ Taken(new)
                                     /\ r[c].state # "paused" \/ e[r[c].voice] # "playing"
  <2>1. CASE c \in Submitters(ops)
    <3>1. r[c].voice = new[c] /\ new[c] \in Voice /\ new[c] \in Taken(new)
      BY <1>2, <1>10, <2>1
    <3>2. /\ e[new[c]] = IF ops[c] = "preload" THEN "paused" ELSE "playing"
          /\ new[c] \in l <=> show[c].length # "finite"
      BY <1>3, <2>1, <3>1
    <3> QED
      BY <1>10, <2>1, <3>1, <3>2
  <2>2. CASE c \notin Submitters(ops)
    <3>1. V(c) = NoVoice
      BY <2>2 DEF V
    <3>2. r[c].voice = rt[c].voice
      <4> DEFINE here == c \in decoded
      <4>1. /\ NoVoice \in Voice \cup {NoVoice} /\ rt[c] \in Runtime /\ show[c] \in CueDef
            /\ ops[c] \in Operations /\ here \in BOOLEAN
            /\ r[c] = After(ops[c], rt[c], show[c], here, NoVoice)
            /\ ops[c] = "tick" => rt[c].state = "running"
            /\ rt[c].voice # NoVoice => /\ show[c].kind \in Voiced /\ here
                                        /\ rt[c].state \in Holding
        BY <1>1, <3>1
      <4> HIDE DEF here
      <4>2. After(ops[c], rt[c], show[c], here, NoVoice).voice \in {rt[c].voice, NoVoice}
        BY <4>1, AfterVoice
      <4> QED
        BY <1>12, <4>1, <4>2
    <3>3. rt[c].voice # NoVoice
      BY <1>12, <3>2
    <3>4. \A d \in Submitters(ops) : new[d] # rt[c].voice
      BY <1>2, <2>2 DEF Fresh
    <3>5. /\ rt[c].voice \in Voice
          /\ e[rt[c].voice] = EngineAfter(ops[c], rt[c], eng[rt[c].voice])
      BY <1>5, <3>3, <3>4
    <3>6. eng[rt[c].voice] \in VoiceStates /\ eng[rt[c].voice] # "fading"
      BY <1>9, <3>3, <3>5 DEF HeldIn, TypeOK
    <3>7. e[r[c].voice] # "fading"
      <4> DEFINE here == c \in decoded
                 s == eng[rt[c].voice]
      <4>1. show[c].kind \in Voiced /\ here \in BOOLEAN
        BY <1>1, <3>3
      <4>2. s \in VoiceStates /\ s # "fading"
        BY <3>6
      <4> HIDE DEF here, s
      <4>3. EngineAfter(ops[c], rt[c], s) = "fading"
              => After(ops[c], rt[c], show[c], here, V(c)).voice = NoVoice
        BY <1>1, <4>1, <4>2, AfterFading
      <4> QED
        BY <1>1, <1>12, <3>2, <3>5, <4>3 DEF here, s
    <3>8. r[c].voice \in l => r[c].voice \in looping
      BY <1>4, <3>2, <3>4, <3>5
    <3>9. ASSUME r[c].voice \in looping
          PROVE  /\ show[c].length # "finite" /\ r[c].voice \notin q
                 /\ r[c].state # "paused" \/ e[r[c].voice] # "playing"
      BY <1>9, <1>11, <3>2, <3>3, <3>4, <3>9 DEF HeldIn
    <3> QED
      BY <3>7, <3>8, <3>9
  <2> QED
    BY <2>1, <2>2
<1>13. ASSUME NEW v \in l, e[v] = "playing"
       PROVE  \E c \in Cue : r[c].voice = v
  <2>1. v \in Voice
    BY DEF l, LoopsAfter
  <2>2. CASE \E c \in Submitters(ops) : new[c] = v
    BY <1>2, <1>10, <2>2
  <2>3. CASE \A c \in Submitters(ops) : new[c] # v
    <3>1. v \in looping
      BY <1>4, <2>1, <2>3
    <3>2. CASE v \in Owned
      <4>1. PICK c \in Cue : rt[c].voice = v
        BY <3>2 DEF Owned
      <4>2. v # NoVoice
        BY <2>1, VoiceAssumption
      <4> QED
        BY <1>11, <1>13, <2>3, <3>1, <4>1, <4>2
    <3>3. CASE v \notin Owned
      <4>1. eng[v] = "playing"
        BY <1>6, <1>13, <2>1, <2>3, <3>3
      <4> QED
        BY <1>9, <3>1, <3>3, <4>1 DEF KeptIn, Owned
    <3> QED
      BY <3>2, <3>3
  <2> QED
    BY <2>2, <2>3
<1> HIDE DEF q
<1> QED
  BY <1>12, <1>13 DEF HeldIn, KeptIn

\* A cue that has been fired and marked is, for the invariant, the cue that was fired.
LEMMA MarkKeepsReach ==
  ASSUME NEW set, NEW r \in [Cue -> Runtime], NEW e, NEW l, NEW q
  PROVE  /\ PreIn(r) => PreIn(Mark(set, r))
         /\ HeldIn(r, e, l, q) => HeldIn(Mark(set, r), e, l, q)
         /\ KeptIn(r, e, l) => KeptIn(Mark(set, r), e, l)
<1>1. ASSUME NEW c \in Cue
      PROVE  /\ Mark(set, r)[c].voice = r[c].voice
             /\ Mark(set, r)[c].state = r[c].state
             /\ Mark(set, r)[c].pre = r[c].pre
  <2>1. r[c] \in Runtime
    OBVIOUS
  <2> QED
    BY <2>1 DEF Mark, Runtime
<1> HIDE DEF Mark
<1> QED
  BY <1>1 DEF PreIn, HeldIn, KeptIn

\* Endless voices that were released, completions that were forgotten and voices the loop
\* has collected take nothing from the invariant.
LEMMA ReachCarriesOver ==
  ASSUME TypeOK, show' = show, NEW r \in [Cue -> Runtime], NEW e \in [Voice -> VoiceStates],
         NEW l \in SUBSET Voice, NEW q,
         PreIn(r), Forgetful \/ (HeldIn(r, e, l, q) /\ KeptIn(r, e, l)),
         \A c \in Cue : /\ rt'[c].voice = r[c].voice /\ rt'[c].state = r[c].state
                        /\ rt'[c].pre = r[c].pre,
         eng' \in {e, Collect(e)}, looping' \subseteq l, statusQ' \cup drained' \subseteq q
  PROVE  ReachInv'
<1>1. PreIn(rt)'
  BY DEF PreIn
<1>2. CASE Forgetful
  <2>1. Forgetful'
    BY <1>2 DEF Forgetful, ForgetsVoices, HasVoice
  <2> QED
    BY <1>1, <2>1 DEF ReachInv
<1>3. CASE ~Forgetful
  <2>1. \A v \in Voice : eng'[v] \in {e[v], "free"}
    BY DEF Collect
  <2>2. HeldIn(r, e, l, q) /\ KeptIn(r, e, l)
    BY <1>3
  <2>3. HeldIn(rt, eng, looping, statusQ \cup drained)'
    <3>1. ASSUME NEW c \in Cue, rt'[c].voice # NoVoice
          PROVE  /\ eng'[rt'[c].voice] # "fading"
                 /\ rt'[c].voice \in looping' =>
                      /\ show'[c].length # "finite"
                      /\ rt'[c].voice \notin statusQ' \cup drained'
                      /\ rt'[c].state # "paused" \/ eng'[rt'[c].voice] # "playing"
      <4>1. r[c].voice \in Voice /\ rt'[c].voice = r[c].voice /\ rt'[c].state = r[c].state
        BY <3>1 DEF Runtime
      <4>2. eng'[r[c].voice] \in {e[r[c].voice], "free"}
        BY <2>1, <4>1
      <4>3. /\ e[r[c].voice] # "fading"
            /\ r[c].voice \in l => /\ show[c].length # "finite"
                                   /\ r[c].voice \notin q
                                   /\ r[c].state # "paused" \/ e[r[c].voice] # "playing"
        BY <2>2, <3>1, <4>1 DEF HeldIn
      <4> QED
        BY <4>1, <4>2, <4>3
    <3> QED
      BY <3>1 DEF HeldIn
  <2>4. KeptIn(rt, eng, looping)'
    <3>1. ASSUME NEW v \in looping', eng'[v] = "playing"
          PROVE  \E c \in Cue : rt'[c].voice = v
      <4>1. v \in l /\ v \in Voice
        BY <3>1
      <4>2. e[v] = "playing"
        BY <2>1, <3>1, <4>1
      <4> QED
        BY <2>2, <4>1, <4>2 DEF KeptIn
    <3> QED
      BY <3>1 DEF KeptIn
  <2> QED
    BY <1>1, <2>3, <2>4 DEF ReachInv
<1> QED
  BY <1>2, <1>3

\* Every step keeps the endless voices within reach.
LEMMA ReachInductive == TypeOK /\ VoiceInv /\ ReachInv /\ [Next]_vars => ReachInv'
<1> SUFFICES ASSUME TypeOK, VoiceInv, ReachInv, [Next]_vars PROVE ReachInv'
  OBVIOUS
<1> HIDE DEF Operations
<1>1. ASSUME NEW ops \in [Cue -> Operations], TicksRunning(ops), ResetsSpent(ops),
             Call(ops), show' = show
      PROVE  ReachInv'
  <2>1. PICK new \in Voices(ops) :
          /\ rt' = RtAfter(ops, new) /\ eng' = EngAfter(ops, new)
          /\ looping' = LoopsAfter(ops, new)
          /\ statusQ' = statusQ \ Taken(new) /\ drained' = drained \ Taken(new)
    BY <1>1 DEF Call
  <2> DEFINE r == RtAfter(ops, new)
             e == EngAfter(ops, new)
             l == LoopsAfter(ops, new)
             q == (statusQ \cup drained) \ Taken(new)
  <2>2. r \in [Cue -> Runtime] /\ e \in [Voice -> VoiceStates] /\ l \in SUBSET Voice
    BY <1>1, CallType
  <2>3. PreIn(r) /\ (Forgetful \/ (HeldIn(r, e, l, q) /\ KeptIn(r, e, l)))
    BY <1>1, CallKeepsReach
  <2>4. rt' = r /\ eng' = e /\ looping' = l /\ statusQ' \cup drained' \subseteq q
    BY <2>1
  <2> HIDE DEF r, e, l, q
  <2> QED
    BY <1>1, <2>2, <2>3, <2>4, ReachCarriesOver
<1>2. ASSUME UNCHANGED <<show, looping>>, NEW r \in [Cue -> Runtime], PreIn(r),
             HeldIn(rt, eng, looping, statusQ \cup drained)
               => HeldIn(r, eng, looping, statusQ \cup drained),
             KeptIn(rt, eng, looping) => KeptIn(r, eng, looping),
             \A c \in Cue : /\ rt'[c].voice = r[c].voice /\ rt'[c].state = r[c].state
                            /\ rt'[c].pre = r[c].pre,
             eng' \in {eng, Collect(eng)},
             statusQ' \cup drained' \subseteq statusQ \cup drained
      PROVE  ReachInv'
  <2> DEFINE q == statusQ \cup drained
  <2>1. eng \in [Voice -> VoiceStates] /\ looping \in SUBSET Voice
    BY DEF TypeOK
  <2>2. Forgetful \/ (HeldIn(r, eng, looping, q) /\ KeptIn(r, eng, looping))
    BY <1>2 DEF ReachInv
  <2>3. statusQ' \cup drained' \subseteq q /\ looping' \subseteq looping /\ show' = show
    BY <1>2
  <2> HIDE DEF q
  <2> QED
    BY <1>2, <2>1, <2>2, <2>3, ReachCarriesOver
<1>3. ASSUME UNCHANGED <<show, rt, looping>>, eng' \in {eng, Collect(eng)},
             statusQ' \cup drained' \subseteq statusQ \cup drained
      PROVE  ReachInv'
  <2>1. rt \in [Cue -> Runtime] /\ PreIn(rt)
    BY DEF TypeOK, ReachInv
  <2> QED
    BY <1>2, <1>3, <2>1
<1>4. ASSUME NEW set, NEW op \in Operations \ {"reset"},
             op = "tick" => \A c \in set : Running(c)
      PROVE  /\ Each(set, op) \in [Cue -> Operations] /\ TicksRunning(Each(set, op))
             /\ ResetsSpent(Each(set, op))
  BY <1>4 DEF Each, TicksRunning, ResetsSpent, Operations
<1>5. CASE \/ Go \/ Device
           \/ \E c \in Cue : \/ GoCue(c) \/ SetPlayhead(c) \/ FollowDue(c)
                             \/ AcceptPreloadedAudio(c)
  BY <1>3, <1>5 DEF Go, GoCue, SetPlayhead, StartGo, FollowDue, AcceptPreloadedAudio, Device
<1>6. CASE StopAll
  <2>1. "stop" \in Operations \ {"reset"}
    BY DEF Operations
  <2> QED
    BY <1>1, <1>4, <1>6, <2>1 DEF StopAll, Calls
<1>7. CASE \E c \in Cue : StopCue(c) \/ HardStopCue(c) \/ PauseCue(c) \/ ResumeCue(c)
  <2>1. PICK c \in Cue, name \in CommandNames, op \in {"stop", "hard_stop", "pause", "resume"} :
          Calls(name, Only(c, op))
    BY <1>7 DEF StopCue, HardStopCue, PauseCue, ResumeCue, CommandNames
  <2>2. /\ Only(c, op) \in [Cue -> Operations] /\ TicksRunning(Only(c, op))
        /\ ResetsSpent(Only(c, op))
    BY DEF Only, TicksRunning, ResetsSpent, Operations
  <2> QED
    BY <1>1, <2>1, <2>2 DEF Calls
<1>8. CASE HardStopAll
  <2>1. \A c \in Cue : rt'[c].voice = NoVoice /\ ~rt'[c].pre
    BY <1>8 DEF HardStopAll, Idle
  <2>2. \A v \in Voice : eng'[v] # "playing"
    BY <1>8 DEF HardStopAll
  <2>3. looping' \subseteq Voice
    BY <1>8 DEF HardStopAll, TypeOK
  <2> QED
    BY <2>1, <2>2, <2>3 DEF ReachInv, PreIn, HeldIn, KeptIn
<1>9. CASE GoStep
  <2>1. ASSUME Again(eng, drained) \/ Release(eng, drained),
               UNCHANGED <<rt, looping, statusQ>>
        PROVE  ReachInv'
    <3>1. eng' \in {eng, Collect(eng)} /\ drained' \subseteq drained
      BY <2>1 DEF Again, Release
    <3> QED
      BY <1>3, <1>9, <2>1, <3>1 DEF GoStep
  <2>2. ASSUME NEW c \in Cue, Fire(c)
        PROVE  ReachInv'
    <3> DEFINE ops == FireCalls(c)
    <3>1. PICK new \in Voices(ops), byAutoContinue \in BOOLEAN :
            /\ rt' = IF byAutoContinue THEN Mark({c}, RtAfter(ops, new))
                                       ELSE RtAfter(ops, new)
            /\ looping' = LoopsAfter(ops, new) \ Released(c)
            /\ statusQ' = statusQ \ Taken(new)
            /\ \/ Again(EngAfter(ops, new), drained \ Taken(new))
               \/ Release(EngAfter(ops, new), drained \ Taken(new))
      BY <2>2 DEF Fire
    <3> DEFINE r0 == RtAfter(ops, new)
               e == EngAfter(ops, new)
               l == LoopsAfter(ops, new)
               q == (statusQ \cup drained) \ Taken(new)
               done == drained \ Taken(new)
               r == IF byAutoContinue THEN Mark({c}, r0) ELSE r0
    <3>2. ops \in [Cue -> Operations] /\ TicksRunning(ops)
      BY FireCallsType, FireTicksNothing
    <3>3. ResetsSpent(ops)
      <4>1. show[c].action \in CommandActions
        BY DEF TypeOK, CueDef
      <4>2. CommandCall(show[c].action) # "reset"
        BY <4>1 DEF CommandCall, CommandActions
      <4> QED
        BY <4>2 DEF ResetsSpent, FireCalls
    <3>4. r0 \in [Cue -> Runtime] /\ e \in [Voice -> VoiceStates] /\ l \in SUBSET Voice
      BY <3>2, CallType
    <3>5. PreIn(r0) /\ (Forgetful \/ (HeldIn(r0, e, l, q) /\ KeptIn(r0, e, l)))
      BY <3>2, <3>3, CallKeepsReach
    <3>6. rt' = r /\ looping' \subseteq l /\ show' = show
      BY <1>9, <3>1 DEF GoStep
    <3>7. eng' \in {e, Collect(e)} /\ drained' \subseteq done
      <4>1. Again(e, done) \/ Release(e, done)
        BY <3>1
      <4> HIDE DEF e, done
      <4> QED
        BY <4>1 DEF Again, Release
    <3>8. statusQ' \cup drained' \subseteq q
      BY <3>1, <3>7
    <3> HIDE DEF ops, r0, e, l, q, done
    <3>9. /\ r \in [Cue -> Runtime] /\ PreIn(r)
          /\ Forgetful \/ (HeldIn(r, e, l, q) /\ KeptIn(r, e, l))
      <4>1. CASE byAutoContinue
        <5>1. r = Mark({c}, r0)
          BY <4>1
        <5> HIDE DEF r
        <5> QED
          BY <3>4, <3>5, <5>1, MarkType, MarkKeepsReach
      <4>2. CASE ~byAutoContinue
        BY <3>4, <3>5, <4>2
      <4> QED
        BY <4>1, <4>2
    <3> HIDE DEF r
    <3> QED
      BY <3>4, <3>6, <3>7, <3>8, <3>9, ReachCarriesOver
  <2> QED
    BY <1>9, <2>1, <2>2 DEF GoStep
<1>10. CASE DrainStatus \/ SkipTick
  BY <1>3, <1>10 DEF DrainStatus, SkipTick, OutsideTick
<1>11. CASE LockWorkspace
  <2>1. \/ Call(Each(GuardPauses, "pause"))
        \/ Call(Each(GuardResumes, "resume"))
        \/ UNCHANGED <<rt, eng, looping, statusQ, drained>>
    <3>1. PICK now \in FrozenNow :
            CASE now /\ ~frozen -> Call(Each(GuardPauses, "pause"))
              [] ~now /\ frozen -> Call(Each(GuardResumes, "resume"))
              [] now <=> frozen -> UNCHANGED <<rt, eng, looping, statusQ, drained>>
      BY <1>11 DEF LockWorkspace
    <3>2. now \in BOOLEAN /\ frozen \in BOOLEAN
      BY DEF FrozenNow, TypeOK
    <3> QED
      BY <3>1, <3>2
  <2>2. show' = show
    BY <1>11 DEF LockWorkspace, OutsideTick
  <2>3. {"pause", "resume"} \subseteq Operations \ {"reset"}
    BY DEF Operations
  <2> QED
    BY <1>1, <1>3, <1>4, <2>1, <2>2, <2>3
<1>12. CASE TickCues
  <2>1. "tick" \in Operations \ {"reset"}
    BY DEF Operations
  <2> QED
    BY <1>1, <1>4, <1>12, <2>1 DEF TickCues, OutsideTick
\* What completes has no voice that loops: its completion is not in the ring, and it has
\* no end for a clock to reach.
<1>13. CASE ReapCompleted
  <2> DEFINE ops == Each(Done, "reset")
  <2>1. ops \in [Cue -> Operations] /\ TicksRunning(ops)
    BY DEF Each, TicksRunning, Operations
  <2>2. CASE ~Forgetful
    <3>1. ASSUME NEW c \in Done, rt[c].voice \in looping
          PROVE  FALSE
      <4>1. c \in Cue /\ (VoiceDone(c) \/ TimeDone(c))
        BY <3>1 DEF Done
      <4>2. rt[c].voice # NoVoice
        BY <3>1, VoiceAssumption DEF TypeOK
      <4>3. show[c].length # "finite" /\ rt[c].voice \notin drained
        BY <2>2, <3>1, <4>1, <4>2 DEF ReachInv, HeldIn
      <4>4. HasVoice(c)
        BY <4>1, <4>2 DEF VoiceInv, OwnedIn
      <4>5. show[c].length = "loop"
        <5>1. show[c].length \in Lengths /\ ~ForgetsVoices(c)
          BY <2>2, <4>1 DEF TypeOK, CueDef, Forgetful
        <5> QED
          BY <4>3, <4>4, <5>1 DEF ForgetsVoices, Lengths
      <4>6. ~TimeDone(c)
        BY <4>4, <4>5 DEF TimeDone, HasVoice, Voiced
      <4> QED
        BY <4>1, <4>3, <4>6 DEF VoiceDone
    <3>2. ResetsSpent(ops)
      BY <3>1 DEF ResetsSpent, Each
    <3> QED
      BY <1>1, <1>13, <2>1, <3>2 DEF ReapCompleted, OutsideTick
  <2>3. CASE Forgetful
    <3>1. Forgetful'
      BY <1>13, <2>3 DEF ReapCompleted, OutsideTick, Forgetful, ForgetsVoices, HasVoice
    <3>2. \A c \in Cue : rt'[c].pre => rt[c].pre \/ show[c].pre
      <4>1. PICK new \in Voices(ops) : rt' = RtAfter(ops, new)
        BY <1>13 DEF ReapCompleted, Call
      <4>2. ASSUME NEW c \in Cue PROVE rt'[c].pre => rt[c].pre \/ show[c].pre
        <5> DEFINE v == IF c \in Submitters(ops) THEN new[c] ELSE NoVoice
                   here == c \in decoded
        <5>1. rt'[c] = After(ops[c], rt[c], show[c], here, v)
          BY <4>1 DEF RtAfter
        <5>2. /\ ops[c] \in Operations /\ rt[c] \in Runtime /\ show[c] \in CueDef
              /\ here \in BOOLEAN /\ v \in Voice \cup {NoVoice}
          BY <2>1 DEF TypeOK, Voices
        <5> HIDE DEF ops, v, here
        <5> QED
          BY <5>1, <5>2, AfterPre
      <4> QED
        BY <4>2
    <3>3. PreIn(rt)'
      BY <1>13, <3>2 DEF ReapCompleted, OutsideTick, ReachInv, PreIn
    <3> QED
      BY <3>1, <3>3 DEF ReachInv
  <2> QED
    BY <2>2, <2>3
<1>14. CASE ContinueCues
  <2> DEFINE r == Mark(AutoContinues, rt)
  <2>1. rt \in [Cue -> Runtime]
    BY DEF TypeOK
  <2>2. r \in [Cue -> Runtime] /\ rt' = r
    BY <1>14, <2>1, MarkType DEF ContinueCues
  <2>3. /\ PreIn(r)
        /\ HeldIn(rt, eng, looping, statusQ \cup drained)
             => HeldIn(r, eng, looping, statusQ \cup drained)
        /\ KeptIn(rt, eng, looping) => KeptIn(r, eng, looping)
    BY <2>1, MarkKeepsReach DEF ReachInv
  <2>4. eng' \in {eng, Collect(eng)} /\ drained' \subseteq drained
    BY <1>14 DEF ContinueCues, Release
  <2>5. UNCHANGED <<show, looping, statusQ>>
    BY <1>14 DEF ContinueCues, OutsideTick
  <2> HIDE DEF r
  <2> QED
    BY <1>2, <2>2, <2>3, <2>4, <2>5
<1>15. CASE \E c \in Cue : \E due \in Due : Elapse(c, due)
  <2>1. PICK c \in Cue, due \in Due : Elapse(c, due)
    BY <1>15
  <2>2. \A d \in Cue : /\ rt'[d].voice = rt[d].voice /\ rt'[d].state = rt[d].state
                       /\ rt'[d].pre = rt[d].pre
    BY <2>1 DEF Elapse, TypeOK, Runtime
  <2>3. rt \in [Cue -> Runtime] /\ PreIn(rt)
    BY DEF TypeOK, ReachInv
  <2> QED
    BY <1>2, <2>1, <2>2, <2>3 DEF Elapse
<1>16. CASE \E v \in Voice : VoiceEnds(v)
  <2>1. PICK v \in Voice : VoiceEnds(v)
    BY <1>16
  <2>2. /\ UNCHANGED <<show, rt, looping, drained>> /\ statusQ' = statusQ \cup {v}
        /\ eng' = [eng EXCEPT ![v] = "stopped"]
        /\ v \in looping => eng[v] = "fading"
    BY <2>1 DEF VoiceEnds, Audible
  <2>3. PreIn(rt)'
    BY <2>2 DEF ReachInv, PreIn
  <2>4. CASE Forgetful
    BY <2>2, <2>3, <2>4 DEF ReachInv, Forgetful, ForgetsVoices, HasVoice
  <2>5. CASE ~Forgetful
    <3>1. HeldIn(rt, eng, looping, statusQ \cup drained) /\ KeptIn(rt, eng, looping)
      BY <2>5 DEF ReachInv
    <3>2. \A w \in Voice : eng'[w] = IF w = v THEN "stopped" ELSE eng[w]
      BY <2>2 DEF TypeOK
    <3>3. \A c \in Cue : rt[c].voice \in Voice \cup {NoVoice}
      BY DEF TypeOK, Runtime
    <3>4. HeldIn(rt, eng, looping, statusQ \cup drained)'
      BY <2>2, <3>1, <3>2, <3>3 DEF HeldIn
    <3>5. KeptIn(rt, eng, looping)'
      BY <2>2, <3>1, <3>2 DEF KeptIn, TypeOK
    <3> QED
      BY <2>3, <3>4, <3>5 DEF ReachInv
  <2> QED
    BY <2>4, <2>5
<1>17. CASE UNCHANGED vars
  BY <1>3, <1>17 DEF vars
<1> QED
  BY <1>5, <1>6, <1>7, <1>8, <1>9, <1>10, <1>11, <1>12, <1>13, <1>14, <1>15, <1>16, <1>17
     DEF Next, EventLoop

\* Unless a cue of the show may forget its voice (a pre-wait before an endless cue, or a
\* vamp), no endless voice that plays is ever out of the reach of Stop All, whatever GO,
\* load, pause, resume, freeze, completion or panic it goes through.
THEOREM EndlessWithinReach == Spec => []LoopReachable
<1>1. Init => ReachInv
  BY DEF Init, ReachInv, PreIn, HeldIn, KeptIn, Idle
<1>2. TypeOK /\ VoiceInv /\ ReachInv => LoopReachable
  <2> SUFFICES ASSUME TypeOK, VoiceInv, ReachInv, NEW v \in looping, eng[v] = "playing", ~Forgetful
               PROVE  \E c \in Cue : Active(c) /\ rt[c].voice = v
    BY DEF LoopReachable, Forgetful
  <2>1. PICK c \in Cue : rt[c].voice = v
    BY DEF ReachInv, KeptIn
  <2>2. v # NoVoice
    BY VoiceAssumption DEF TypeOK
  <2> QED
    BY <2>1, <2>2 DEF VoiceInv, OwnedIn, Holding, Active
<1> QED
  BY <1>1, <1>2, ReachInductive, VoiceCorrect, TypeCorrect, PTL DEF Spec
============================================================================
