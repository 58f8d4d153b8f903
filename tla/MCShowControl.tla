--------------------------- MODULE MCShowControl ---------------------------
(***************************************************************************)
(* Shows and properties for model-checking ShowControl.                     *)
(***************************************************************************)
EXTENDS ShowControl, TLC

List == 1..N

Plain == [kind |-> "memo", mode |-> "none", pre |-> FALSE, post |-> FALSE,
          length |-> "finite", media |-> "ready",
          action |-> "start", hard |-> FALSE, targets |-> {}]

AudioCue  == [Plain EXCEPT !.kind = "audio"]
LoopCue   == [AudioCue EXCEPT !.length = "loop"]
MicCue    == [LoopCue EXCEPT !.kind = "mic"]
VampCue   == [AudioCue EXCEPT !.length = "vamp"]
OscCue    == [Plain EXCEPT !.kind = "osc"]
MidiCue   == [Plain EXCEPT !.kind = "midi"]
ScriptCue == [Plain EXCEPT !.kind = "script"]
WaitCue   == [Plain EXCEPT !.kind = "wait"]
StopCueOf(set, hard)     == [Plain EXCEPT !.kind = "stop", !.targets = set, !.hard = hard]
CommandCueOf(act, set)   == [Plain EXCEPT !.kind = "command", !.action = act, !.targets = set]
DevampCueOf(set)         == [Plain EXCEPT !.kind = "devamp", !.targets = set]

Continue(c)     == [c EXCEPT !.mode = "continue"]
ContinueLate(c) == [c EXCEPT !.mode = "continue", !.post = TRUE]
Follow(c)       == [c EXCEPT !.mode = "follow"]
FollowLate(c)   == [c EXCEPT !.mode = "follow", !.post = TRUE]
PreWait(c)      == [c EXCEPT !.pre = TRUE]

Show3(a, b, c) == (1 :> a) @@ (2 :> b) @@ (3 :> c)

TransportShows ==
  { Show3(ContinueLate(LoopCue), Follow(AudioCue), StopCueOf({}, FALSE)),
    Show3(PreWait(ContinueLate(VampCue)), CommandCueOf("load", {1}), DevampCueOf({1})),
    Show3(Continue(AudioCue), Continue(CommandCueOf("goto", {1})), OscCue),
    Show3(FollowLate(AudioCue), CommandCueOf("start", {1}), CommandCueOf("reset", {1})),
    Show3(Continue(MicCue), Plain, CommandCueOf("load", {1})),
    Show3(PreWait(ContinueLate(MicCue)), [MicCue EXCEPT !.media = "absent"],
          CommandCueOf("load", {1})) }

Show2(a, b) == (1 :> a) @@ (2 :> b)

LiveShows ==
  { Show2(Continue([AudioCue EXCEPT !.media = "loading"]),
          Continue(CommandCueOf("goto", {1}))),
    Show2(FollowLate(AudioCue), MidiCue),
    Show2(PreWait(AudioCue), Continue(CommandCueOf("disarm", {1}))),
    Show2(Follow(WaitCue), ScriptCue) }

VoiceSymmetry == Permutations(Voice)
============================================================================
