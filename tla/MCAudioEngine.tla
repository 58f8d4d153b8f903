-------------------------- MODULE MCAudioEngine --------------------------
(***************************************************************************)
(* AudioEngine for TLC: the trials of its behaviours.                       *)
(***************************************************************************)
EXTENDS AudioEngine, TLC

\* Files and the microphone, and a vamping slice, on a second device that may be
\* lost; and a file on the main output while the chosen device and the other come
\* and go.
Operating == [ring |-> 2, plans |-> [Voice -> {"file", "live"}], calls |-> 2,
              calling |-> {"fade", "stop", "resume"}, start |-> {Devices},
              losses |-> 1, unstable |-> {"aux"}, patched |-> Voice]
Vamping   == [Operating EXCEPT !.plans = [Voice -> {"vamp"}],
                               !.calling = {"fade", "devamp", "devampstop", "seek"}]
Unplugging == [ring |-> 1, plans |-> [Voice -> {"file"}], calls |-> 1, calling |-> {"fade"},
               start |-> {Devices, {}}, losses |-> 2, unstable |-> Devices, patched |-> {}]
EngineTrials == {Operating, Vamping, Unplugging}
============================================================================
