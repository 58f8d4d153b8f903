------------------------------ MODULE MCCrossfade ------------------------------
EXTENDS Crossfade

\* Three pictures, the third on another output.  One Fade dissolves the first (and what
\* is on the other output) into the second, which takes a while to start; the other,
\* after a pre-wait of its own, darkens the second and stops it.
MCFade == <<"f", "g">>
MCPicture == {"a", "b", "c"}
MCPlan == [x \in {"f", "g"} |->
  IF x = "f" THEN [targets |-> {"a", "c"}, into |-> "b", waits |-> FALSE, stops |-> FALSE]
  ELSE [targets |-> {"b"}, into |-> Nobody, waits |-> TRUE, stops |-> TRUE]]
MCScreen == [p \in MCPicture |-> IF p = "c" THEN "side" ELSE "main"]
=============================================================================
