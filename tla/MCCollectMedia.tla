---------------------------- MODULE MCCollectMedia ----------------------------
EXTENDS CollectMedia
\* Names that differ by case, and one that looks like a numbered one; outside the
\* project, and where the project keeps its audio.
X0 == [stem |-> "x", numbers |-> <<>>]
X1 == [stem |-> "x", numbers |-> <<1>>]
XX == [stem |-> "X", numbers |-> <<>>]
MCPlaces == {<<"usb", X0>>, <<"disk", X0>>, <<"disk", XX>>, <<"audio", X0>>,
             <<"audio", X1>>, <<"video", X0>>}
MCCues == [kind : {"audio"}, at : MCPlaces \ {<<"video", X0>>}]
          \cup [kind : {"video"}, at : {<<"usb", X0>>, <<"video", X0>>}]
MCCollected == UNION { [1..n -> MCCues] : n \in 2..3 }
\* No two files of a folder whose names differ by case alone.
MCFiles == { s \in SUBSET MCPlaces : ~({<<"disk", X0>>, <<"disk", XX>>} \subseteq s) }
MCSub == [k \in {"audio", "video"} |-> k]
MCFold == [s \in {"x", "X"} |-> "x"]
=============================================================================
