---------------------------- MODULE MCLighting ----------------------------
EXTENDS Lighting

\* A dimmer, and a head with a pan of two slots below its dimmer.
Rig == {"par", "head"}
MCLayout == [f \in Rig |->
  IF f = "par" THEN <<[kind |-> "dim", offset |-> 0, width |-> 1]>>
  ELSE <<[kind |-> "pan", offset |-> 0, width |-> 2], [kind |-> "dim", offset |-> 2, width |-> 1]>>]
Wash == [g \in {"wash"} |-> <<"par", "head">>]
At2(par, head) == [f \in Rig |-> IF f = "par" THEN par ELSE head]
\* Side by side; and the dimmer of the head past the end of the universe.
MCRigs == {[patch |-> At2(1, 2), output |-> "sacn"], [patch |-> At2(1, 3), output |-> "nowhere"]}
Pan    == [dur |-> 2, targets |-> <<[of |-> "fixture", fixture |-> "head", param |-> 1, value |-> Full]>>]
Bright == [dur |-> 1, targets |-> <<[of |-> "group", group |-> "wash", kind |-> "dim", value |-> Full]>>]
MCCue  == {"pan", "bright"}
Looks  == [c \in MCCue |-> IF c = "pan" THEN Pan ELSE Bright]
=============================================================================
