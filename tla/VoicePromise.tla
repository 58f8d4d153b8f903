---------------------------- MODULE VoicePromise ----------------------------
(***************************************************************************)
(* What the audio engine promises of each voice it is given: nothing        *)
(* happens to it but what was asked, in the order it was asked, its own     *)
(* end, and its removal once it has stopped.  Streams, rings, callbacks and *)
(* snapshots are not seen; only whether the voice went to the main output,  *)
(* where it stays until it has stopped, or to another device, which may     *)
(* close.  What is not promised is that a request is served: it may be      *)
(* forgotten.                                                               *)
(***************************************************************************)
EXTENDS Sequences

CONSTANT Voice

VARIABLE promise      \* for each voice, how it sounds and what was asked of it

Asked  == {"play", "resume", "pause", "stop", "fade", "stopall"}
Sounds == {"free", "playing", "fading", "paused", "stopped", "gone"}

TypeOK == promise \in [Voice -> [sound: Sounds, asked: Seq(Asked),
                               route: {"none", "main", "other"}]]

Init == promise = [v \in Voice |-> [sound |-> "free", asked |-> <<>>, route |-> "none"]]

Pooled(p) == p.sound \notin {"free", "gone"}

\* The voice p where it was, with another sound or other requests.
Turned(p, sound, asked) == [sound |-> sound, asked |-> asked, route |-> p.route]

\* A voice begins playing, or paused; a panic older than it may still reach it.
Submit(p, q) ==
  /\ p.sound = "free" /\ q.sound \in {"playing", "paused"} /\ q.route # "none"
  /\ \A i \in DOMAIN q.asked : q.asked[i] = "stopall"

Ask(p, q) ==
  Pooled(p) /\ \E op \in Asked : q = Turned(p, p.sound, Append(p.asked, op))

\* The oldest request is served.
Served(op, sound) ==
  CASE op \in {"play", "resume"}       -> "playing"
    [] op = "pause"                    -> "paused"
    [] op \in {"stop", "stopall"}      -> "stopped"
    [] op = "fade" /\ sound = "paused" -> "stopped"
    [] op = "fade" /\ sound # "paused" -> "fading"

Serve(p, q) ==
  /\ Pooled(p) /\ p.asked # <<>>
  /\ q = Turned(p, Served(Head(p.asked), p.sound), Tail(p.asked))

\* The oldest request, or with its ring every request, is forgotten.
Forget(p, q) ==
  /\ Pooled(p) /\ p.asked # <<>>
  /\ \E rest \in {Tail(p.asked), <<>>} : q = Turned(p, p.sound, rest)

End(p, q) == p.sound \in {"playing", "fading"} /\ q = Turned(p, "stopped", p.asked)

\* A stopped voice is collected; a device that closes takes its voices with it.
Gone == [sound |-> "gone", asked |-> <<>>, route |-> "none"]
Collect(p, q) == p.sound = "stopped" /\ q = Gone
Close(p, q)   == p.route = "other" /\ q = Gone

Step(p, q) == Submit(p, q) \/ Ask(p, q) \/ Serve(p, q) \/ Forget(p, q)
                \/ End(p, q) \/ Collect(p, q) \/ Close(p, q)

\* One step of the engine may move several voices, each as it is promised.
Next == /\ DOMAIN promise' = Voice
        /\ \A v \in Voice : promise'[v] = promise[v] \/ Step(promise[v], promise'[v])

Spec == Init /\ [][Next]_promise
============================================================================
