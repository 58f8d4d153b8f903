---------------------------- MODULE MCGroupCue ----------------------------
(***************************************************************************)
(* Groups for model-checking GroupCue.                                      *)
(***************************************************************************)
EXTENDS GroupCue, TLC

List == 1..N

Memo == [kind |-> "memo", mode |-> "none", pre |-> FALSE, post |-> FALSE,
         length |-> "finite", media |-> "ready",
         action |-> "start", hard |-> FALSE, targets |-> {}]

Audio1       == [Memo EXCEPT !.kind = "audio"]
Looped       == [Audio1 EXCEPT !.length = "loop"]
Missing      == [Audio1 EXCEPT !.media = "absent"]
Wait1        == [Memo EXCEPT !.kind = "wait"]
Continue(c)  == [c EXCEPT !.mode = "continue"]
Follow(c)    == [c EXCEPT !.mode = "follow"]
PreWait(c)   == [c EXCEPT !.pre = TRUE]
PostWait(c)  == [c EXCEPT !.post = TRUE]

GroupOf(mode, a, b, c) ==
  [mode |-> mode, loop |-> FALSE, pre |-> FALSE, kids |-> (1 :> a) @@ (2 :> b) @@ (3 :> c)]

Endless(g) == [g EXCEPT !.loop = TRUE]
Delayed(g) == [g EXCEPT !.pre = TRUE]

MixedGroups ==
  { GroupOf("simultaneous", PreWait(Audio1), Wait1, Missing),
    Delayed(GroupOf("sequential", Follow(Audio1), PreWait(Continue(Audio1)), Memo)),
    GroupOf("sequential", PostWait(Continue(Wait1)), Follow(Missing), Memo),
    GroupOf("playlist", Audio1, Missing, Audio1),
    Endless(GroupOf("playlist", Memo, Looped, Audio1)),
    GroupOf("random", Missing, Looped, Looped) }
===========================================================================
