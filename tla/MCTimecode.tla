------------------------------ MODULE MCTimecode ------------------------------
(***************************************************************************)
(* An instance of Timecode for TLC.                                         *)
(***************************************************************************)
EXTENDS Timecode

OneTrig == { [c \in {"late"} |-> 1] }
=============================================================================
