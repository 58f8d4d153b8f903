--------------------------- MODULE MCCueEditing ---------------------------
(***************************************************************************)
(* Lists for model-checking CueEditing: a decoded cue, and a group that     *)
(* holds a cue with no file yet; one identifier is left for a new cue.   *)
(***************************************************************************)
EXTENDS CueEditing

CONSTANTS A, B

Start1 ==
  [image |-> [kids |-> (Root :> <<1, 2>>) @@ (2 :> <<3>>) @@ [c \in Cue |-> <<>>],
              file |-> (1 :> A) @@ [c \in Cue |-> NoFile],
              samples |-> (1 :> A) @@ [c \in Cue |-> NoFile],
              playhead |-> 1],
   kind  |-> (1 :> "audio") @@ (2 :> "group") @@ (3 :> "audio")
             @@ [c \in Cue |-> "unused"]]

OneGroup == {Start1}
===========================================================================
