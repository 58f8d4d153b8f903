---------------------------- MODULE MCMidiFile ----------------------------
(***************************************************************************)
(* MIDI files and scores for MidiFile, and what its parser must compute.      *)
(***************************************************************************)
EXTENDS MidiFile, TLC

Msg(does, key, vel) == [does |-> does, key |-> key, vel |-> vel, val |-> 0]
Ctl(does, val)      == [does |-> does, key |-> "no", vel |-> 0, val |-> val]
After(delta, msg)   == [delta |-> delta, msg |-> msg]
End(delta)          == After(delta, Ctl("end", 0))

\* A chord over a pedal, in two tracks; a file of two sequences.
Song == [format |-> "parallel", timing |-> "metrical", tracks |->
  << <<After(1, Msg("on", "e", 9)), End(1)>>,
     <<After(0, Ctl("pedal", 1)), After(0, Msg("on", "c", 9)), After(2, Msg("on", "c", 0)), End(0)>> >>]
Jingle == [format |-> "sequential", timing |-> "smpte", tracks |->
  << <<After(0, Msg("on", "c", 9)), End(1)>>, <<After(1, Msg("off", "c", 0)), End(0)>> >>]

MCScore == [f \in {"song", "jingle"} |-> IF f = "song" THEN Song ELSE Jingle]

MCCues == {[file |-> "song", preWait |-> 0], [file |-> "jingle", preWait |-> 1]}

\* Every pair of tracks of two events and an end.
Notes  == {Msg("on", "c", 9), Ctl("tempo", 2), Ctl("tempo", 3)}
Tracks == {<<After(d, m), After(e, n), End(1)>> : d \in 0..1, m \in Notes, e \in 0..1, n \in Notes}
Scores == {[format |-> f, timing |-> g, tracks |-> <<a, b>>] :
             f \in {"parallel", "sequential"}, g \in {"metrical", "smpte"}, a \in Tracks, b \in Tracks}

---------------------------------------------------------------------------
\* The moment of a tick by its definition: every tick before it lasts as long as the
\* last tempo set at or before that tick says.

TickOf(track, i) == FoldLeft(LAMBDA sum, e : sum + e.delta, 0, SubSeq(track, 1, i))

TempoAt(tracks, tick) ==
  LET set == {<<TickOf(tracks[t], i), t, i>> : t \in DOMAIN tracks, i \in 1..3}
      by  == {p \in set : p[1] <= tick /\ tracks[p[2]][p[3]].msg.does = "tempo"}
      Later2(p, q) == \/ p[1] > q[1]
                      \/ p[1] = q[1] /\ (p[2] > q[2] \/ (p[2] = q[2] /\ p[3] >= q[3]))
  IN  IF by = {} THEN DefaultTempo
      ELSE LET last == CHOOSE p \in by : \A q \in by : Later2(p, q)
           IN  tracks[last[2]][last[3]].msg.val

TimeOf(tracks, timing, tick) ==
  IF timing = "smpte" THEN tick
  ELSE FoldLeft(LAMBDA sum, u : sum + TempoAt(tracks, u - 1), 0, [u \in 1..tick |-> u])

LengthOf(tracks, timing) ==
  LET ends == {TickOf(tracks[t], 3) : t \in DOMAIN tracks}
  IN  TimeOf(tracks, timing, CHOOSE n \in ends : \A k \in ends : k <= n)

\* When the i-th event of track t is due.
DueOf(s, t, i) ==
  IF s.format = "parallel" THEN TimeOf(s.tracks, s.timing, TickOf(s.tracks[t], i))
  ELSE TimeOf(<<s.tracks[t]>>, s.timing, TickOf(s.tracks[t], i))
       + (IF t = 1 THEN 0 ELSE LengthOf(<<s.tracks[1]>>, s.timing))

ScoreRight(s) ==
  LET notes == {<<t, i>> : t \in 1..2, i \in 1..2}
      sent  == {n \in notes : Transmitted(s.tracks[n[1]][n[2]].msg)}
      p     == Parse(s)
  IN  /\ Len(p.events) = Cardinality(sent)
      /\ \A at \in {DueOf(s, n[1], n[2]) : n \in sent} \cup {e.at : e \in ToSet(p.events)} :
           Cardinality({n \in sent : DueOf(s, n[1], n[2]) = at})
             = Cardinality({k \in DOMAIN p.events : p.events[k].at = at})
      /\ \A k \in 1..Len(p.events) - 1 : p.events[k].at <= p.events[k + 1].at
      /\ p.duration = IF s.format = "parallel" THEN LengthOf(s.tracks, s.timing)
                      ELSE LengthOf(<<s.tracks[1]>>, s.timing) + LengthOf(<<s.tracks[2]>>, s.timing)

ScoresRight == \A s \in Scores : ScoreRight(s)

\* The tempo map (midi_file.rs:5-11), of whatever score a cue on standby is given:
\* every event is due when the ticks before it are over, each as long as the tempo of
\* its moment, whatever track sets it; events are in the order of time, and the
\* length has the silent tail.  Notes are alike here: what is compared is how many are due
\* when.  (With the types of the state.)
TempoMapKept == TypeOK /\ (cue.state = "Standby" => ScoresRight)
============================================================================
