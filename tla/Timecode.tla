------------------------------- MODULE Timecode -------------------------------
(***************************************************************************)
(* Timecode from end to end: a Timecode Cue and the threads that generate    *)
(* for it, the wire, the receiver's threads, the event loop that              *)
(* follows the position, re-arms the triggers of a list and fires the cues    *)
(* it crossed, and the MIDI triggers that fire on the same path.              *)
(*                                                                          *)
(* A position is a frame of the day and wraps at Day; MTC sends it in Pieces  *)
(* nibbles of base Base (8 of base 16 in the code), LTC in one.  The loop      *)
(* tries the workspace's lock three times in a tick; whether a command has it  *)
(* is open each time.  Bounds: Day, QueueMax reports between two ticks, two    *)
(* generating and two receiving threads, MaxEvents edits, settings changed and *)
(* messages lost.                                                              *)
(***************************************************************************)
EXTENDS Naturals, Sequences, SequencesExt

CONSTANTS Cue,               \* the cues of the list that follows
          Day, Base, Pieces, Step,   \* frames, the nibbles of one, frames a group takes
          Sources,           \* of "mtc", "ltc"
          Starts,            \* start frames of the Timecode Cue
          Trigs, Keyed,      \* triggers: functions from Cue; the cues bound to one key
          QueueMax, MaxEvents
Frames == 0..(Day - 1)
\* What a one stands for in each place of a position.
Weight[k \in 0..Pieces] == IF k = 0 THEN 1 ELSE Base * Weight[k - 1]
None == Weight[Pieces]    \* no frame
ASSUME TimecodeAssumption ==
  /\ Base \in Nat \ {0} /\ Pieces \in Nat \ {0} /\ Day \in Nat \ {0} /\ Day <= None
  /\ Starts \subseteq Frames /\ Keyed \subseteq Cue /\ Sources \subseteq {"mtc", "ltc"}
  /\ Trigs \subseteq [Cue -> Frames \cup {None}] /\ Step \in 1..Day

Two == {1, 2}
Places == 0..(Pieces - 1)
VARIABLES
  source, cue,       \* the Timecode Cue: standby, waiting or running
  active, gen,       \* active_gen; the generating threads
  tc, ears, rx,      \* the receiver: on, changing, off; its threads alive; each one's state
  queue,             \* TcEvents for the loop
  listening, keys,   \* the MIDI listener, and the cues its key is pressed for
  prev, mark,        \* prev_tc_frame, tc_last_triggered_frame
  on, trig, there,   \* tc_config.enabled, tc_triggers, the cues that exist
  loop, fire, bykey, \* the loop between its locks, and tc_fire in two parts
  events,            \* bound
  done, excused, pressed, spoilt, misread   \* history, see the properties
sender   == <<cue, active, gen>>
receiver == <<tc, ears, rx>>
midi     == <<listening, keys, pressed, spoilt>>
list     == <<on, trig, there, mark>>
looping  == <<prev, loop, fire, bykey>>
account  == <<done, excused>>
vars == <<source, sender, receiver, queue, midi, list, looping, events, account, misread>>

Happens  == events < MaxEvents /\ events' = events + 1     \* one of the bounded things
NoThread == [live |-> FALSE, frame |-> 0, next |-> 0]
Fresh   == [nibbles |-> [k \in Places |-> 0], count |-> 0, run |-> 0]
                                             \* run: history
Init ==
  /\ source \in Sources /\ cue = "standby" /\ active = 0 /\ gen = [g \in Two |-> NoThread]
  /\ tc = "on" /\ ears = {1} /\ rx = [e \in Two |-> Fresh]
  /\ queue = <<>> /\ listening = TRUE /\ keys = {} /\ prev = None /\ mark = 0
  /\ on = TRUE /\ trig \in Trigs /\ there = Cue /\ loop = "idle" /\ fire = {} /\ bykey = {}
  /\ events = 0 /\ done = {} /\ excused = {} /\ pressed = {} /\ spoilt = {}
  /\ misread = {}

---------------------------------------------------------------------------
(***************************************************************************)
(* The Timecode Cue.  Dropping a generator raises the flag its thread looks   *)
(* at before every message: it sends no more.                                 *)
(***************************************************************************)
\* Mutant of Dropped: the handle is let go, the flag is not raised.
DroppedQuietly == gen
Dropped == IF active = 0 THEN gen ELSE [gen EXCEPT ![active] = NoThread]
\* start_action: the new thread begins with a full frame.  Without a MIDI port, a feed or
\* a voice the cue runs and nothing is sent.
StartAction ==
  /\ cue' = "running"
  /\ \/ \E f \in Starts : LET g == IF gen[1].live THEN 2 ELSE 1 IN
          /\ ~gen[g].live /\ active' = g
          /\ gen' = [gen EXCEPT ![g] = [live |-> TRUE, frame |-> f,
                                        next |-> IF source = "mtc" THEN Pieces ELSE 0]]
     \/ UNCHANGED <<active, gen>>
elsewhere == UNCHANGED <<source, receiver, queue, midi, list, looping, events, account, misread>>
Go      == cue = "standby" /\ StartAction /\ elsewhere
GoWaits == cue = "standby" /\ cue' = "waiting" /\ UNCHANGED <<active, gen>> /\ elsewhere
Starting == cue = "waiting" /\ StartAction /\ elsewhere
\* stop, hard_stop, the reset at the end frame, the rebuild of an inspector edit.  The
\* engine may refuse to stop the voice of LTC: nothing is sent, and the cue runs on.  (A
\* reset does not ask: it forgets the voice, which stays in the engine's pool with a feed
\* that has nothing.  The voice is not modelled.)
Silence ==
  /\ cue # "standby" /\ gen' = Dropped /\ active' = 0 /\ elsewhere
  /\ cue' = "standby" \/ (source = "ltc" /\ active # 0 /\ cue' = cue)

---------------------------------------------------------------------------
(***************************************************************************)
(* The receiver's side of a message.                                         *)
(***************************************************************************)
Nibble(frame, k) == (frame \div Weight[k]) % Base
Assembled(r, k) == k = Pieces - 1 \/ r.count + 1 >= Pieces
Join(nibbles) ==
  LET top[k \in 0..Pieces] ==     \* what the k highest places make
        IF k = 0 THEN 0 ELSE top[k - 1] * Base + nibbles[Pieces - k]
  IN  top[Pieces]
\* The pieces of one frame that came one after the other: history.
Run(r, k) == IF k = 0 THEN 1 ELSE IF r.run = k THEN k + 1 ELSE 0
\* push_quarter_frame, push_full_frame; a frame of LTC comes whole.
WithPiece(r, frame, k) == [r.nibbles EXCEPT ![k] = Nibble(frame, k)]
QuarterFrame(r, frame, k) ==
  [nibbles |-> WithPiece(r, frame, k), count |-> IF Assembled(r, k) THEN 0 ELSE r.count + 1,
   run |-> Run(r, k)]
FullFrame(r) == [nibbles |-> r.nibbles, count |-> Pieces, run |-> 0]
BrokenOff(r) == [r EXCEPT !.run = 0]

\* What a thread r has made of a message, and the position it reports, if it does.
Heard(r, frame, k) ==
  IF source = "ltc" THEN r ELSE IF k = Pieces THEN FullFrame(r) ELSE QuarterFrame(r, frame, k)
Reported(r, frame, k) ==
  IF source = "ltc" \/ k = Pieces THEN {frame}
  ELSE IF Assembled(r, k) THEN {Join(WithPiece(r, frame, k))} ELSE {}
Misread(r, frame, k) ==
  /\ source = "mtc" /\ k < Pieces /\ Run(r, k) = Pieces
  /\ Reported(r, frame, k) # {frame}

\* The callbacks of the threads that hear a message; each may lose it, and comes to
\* nothing while the receiver shuts down.  Of what two threads report of one message the
\* loop looks at the last.
Listening == IF tc = "on" THEN ears ELSE {}
Deliver(frame, k, hearing) ==
  LET said == UNION { Reported(rx[e], frame, k) : e \in hearing } IN
  /\ IF hearing = Listening THEN UNCHANGED events ELSE Happens
  /\ rx' = [e \in Two |-> IF e \in hearing THEN Heard(rx[e], frame, k) ELSE BrokenOff(rx[e])]
  /\ \/ said = {} /\ UNCHANGED queue
     \/ \E latest \in said : queue' = Append(queue, latest)
  /\ misread' = misread \cup { f \in {frame} : \E e \in hearing : Misread(rx[e], frame, k) }

\* A generating thread and its next message.
Advanced(t) ==
  IF t.next = Pieces THEN [t EXCEPT !.next = 0]
  ELSE IF source = "ltc" \/ t.next = Pieces - 1 THEN [t EXCEPT !.next = 0, !.frame = (@ + Step) % Day]
  ELSE [t EXCEPT !.next = @ + 1]
Send(g) ==
  /\ gen[g].live /\ Len(queue) < QueueMax
  /\ \E hearing \in SUBSET Listening : Deliver(gen[g].frame, gen[g].next, hearing)
  /\ gen' = [gen EXCEPT ![g] = Advanced(gen[g])]
  /\ UNCHANGED <<source, cue, active, tc, ears, midi, list, looping, account>>
SendMtc(g) == source = "mtc" /\ Send(g)
SendLtc(g) == source = "ltc" /\ Send(g)

---------------------------------------------------------------------------
(***************************************************************************)
(* set_tc_config: reconfigure raises the flag, sleeps, lowers it and starts a  *)
(* thread with nothing assembled.  A thread looks at the flag no more often    *)
(* than that: one that missed it hears on beside the new one.  What is enabled *)
(* again after an end is a new receiver, which the loop does not hear.         *)
(***************************************************************************)
Configure(to) ==
  tc' = to /\ UNCHANGED <<source, sender, queue, midi, list, looping, account, misread>>
Reconfigure  == tc = "on" /\ Happens /\ UNCHANGED <<ears, rx>> /\ Configure("changing")
Reconfigured ==
  /\ tc = "changing" /\ UNCHANGED events /\ Configure("on")
  /\ \E late \in SUBSET ears :
       /\ late # Two /\ ears' = late \cup {IF 1 \in late THEN 2 ELSE 1}
       /\ rx' = [e \in Two |-> IF e \in late THEN rx[e] ELSE Fresh]
Disable      == tc = "on" /\ Happens /\ UNCHANGED <<ears, rx>> /\ Configure("off")

---------------------------------------------------------------------------
(***************************************************************************)
(* Edits of the list: a trigger set or cleared, following switched, a cue     *)
(* deleted, the show opened anew.                                             *)
(***************************************************************************)
Past(c, f) == trig[c] # None /\ f # None /\ trig[c] <= f
Editing ==
  /\ Happens
  /\ UNCHANGED <<source, sender, receiver, queue, listening, keys, prev, loop, misread>>
same == UNCHANGED <<fire, bykey, pressed, spoilt>>
\* An edit of a cue about to fire comes to the same as one right after it fired.
SetTrigger(c) ==
  /\ c \notin fire /\ Editing /\ same
  /\ \E f \in Frames \cup {None} : trig' = [trig EXCEPT ![c] = f]
  /\ done' = done \ {c} /\ excused' = excused \cup {c} /\ UNCHANGED <<on, there, mark>>
SetEnabled ==
  /\ Editing /\ same /\ on' = ~on
  /\ excused' = excused \cup { c \in Cue : Past(c, prev) \/ Past(c, mark) }
  /\ UNCHANGED <<trig, there, mark, done>>
RemoveCue(c) == Editing /\ same /\ there' = there \ {c} /\ UNCHANGED <<on, trig, mark, account>>
\* What was about to fire is of a list that is no more.
Reopen ==
  /\ Editing /\ fire' = {} /\ bykey' = {} /\ pressed' = keys /\ spoilt' = {}
  /\ mark' = 0 /\ done' = {} /\ excused' = { c \in Cue : Past(c, prev) }
  /\ UNCHANGED <<on, trig, there>>

\* The MIDI listener's callback, and its replacement.
Press ==
  /\ listening /\ keys # Keyed
  /\ keys' = Keyed /\ pressed' = pressed \cup Keyed /\ spoilt' = spoilt \ Keyed
  /\ UNCHANGED <<source, sender, receiver, queue, listening, list, looping, events>>
  /\ UNCHANGED <<account, misread>>
SetListener ==
  /\ Happens /\ listening' \in BOOLEAN /\ keys' = {} /\ spoilt' = spoilt \cup keys
  /\ UNCHANGED <<source, sender, receiver, queue, pressed, list, looping, account, misread>>

---------------------------------------------------------------------------
(***************************************************************************)
(* The event loop.  Sections 0 and 0b of a tick: what has come is drained     *)
(* whatever becomes of the locks.                                             *)
(***************************************************************************)
Latest == Last(queue)
\* Mutant of Moved: only forwards.
MovedOn == queue # <<>> /\ (prev = None \/ Latest > prev)
Moved == queue # <<>> /\ (prev = None \/ Latest # prev)
JumpedBack == queue # <<>> /\ prev # None /\ Latest < prev
Armed == IF JumpedBack THEN Latest ELSE mark
\* tc_triggers_crossed.  Mutant of Crossed: what lies behind the mark is crossed again.
CrossedAgain == { c \in Cue : Moved /\ Past(c, Latest) }
Crossed == { c \in Cue : Moved /\ Past(c, Latest) /\ trig[c] > Armed }
\* midi_triggers_matching, and the cues that are there still.
Taken(free) == IF free THEN keys \cap there ELSE {}

\* What the tick owes its cues: see CrossedAreAccounted.
Unseen(free) ==
  IF ~on \/ ~Moved THEN {}
  ELSE IF free THEN IF JumpedBack THEN { c \in Cue : trig[c] = Latest } ELSE {}
  ELSE { c \in Cue : Past(c, Latest) \/ JumpedBack }
Rearmed(free) ==
  IF on /\ free /\ JumpedBack THEN { c \in Cue : trig[c] # None /\ trig[c] > Latest } ELSE {}

Drain(free, freekeys) ==
  /\ loop = "idle" /\ loop' = "fire" /\ queue' = <<>>
  /\ prev' = IF queue = <<>> THEN prev ELSE Latest
  /\ IF Moved /\ free /\ on
     THEN /\ mark' = IF Crossed = {} THEN Armed ELSE Latest
          /\ fire' = Crossed \cap there
     ELSE mark' = mark /\ fire' = {}
  /\ keys' = {} /\ bykey' = Taken(freekeys)
  /\ spoilt' = IF freekeys THEN spoilt ELSE spoilt \cup keys
  /\ done' = IF queue = <<>> THEN done ELSE { c \in done : Past(c, Latest) }
  /\ excused' = (excused \ Rearmed(free)) \cup Unseen(free)
  /\ UNCHANGED <<source, sender, receiver, listening, pressed, on, trig, there, events, misread>>

\* Step 3, where a tick ends if a command has the workspace, and step 9b.
GivesUp ==
  /\ loop = "fire" /\ loop' = "idle" /\ fire' = {} /\ bykey' = {}
  /\ excused' = excused \cup fire /\ spoilt' = spoilt \cup bykey
  /\ UNCHANGED <<source, sender, receiver, queue, listening, keys, pressed, list, prev, events, done, misread>>
Fires ==
  /\ loop = "fire" /\ loop' = "idle" /\ fire' = {} /\ bykey' = {}
  /\ done' = done \cup (fire \cap there) /\ excused' = excused \ fire
  /\ pressed' = pressed \ bykey /\ spoilt' = spoilt \ bykey
  /\ UNCHANGED <<source, sender, receiver, queue, listening, keys, list, prev, events, misread>>

---------------------------------------------------------------------------
Next ==
  \/ Go \/ GoWaits \/ Starting \/ Silence
  \/ \E g \in Two : SendMtc(g) \/ SendLtc(g)
  \/ Reconfigure \/ Reconfigured \/ Disable
  \/ SetEnabled \/ Reopen \/ SetListener \/ Press
  \/ \E c \in Cue : SetTrigger(c) \/ RemoveCue(c)
  \/ \E free, freekeys \in BOOLEAN : Drain(free, freekeys)
  \/ GivesUp \/ Fires
Spec == Init /\ [][Next]_vars

\* The threads and the loop run; a command that has the workspace is not there at the very
\* same moments for ever: the wraps of the day, the crossings and the firings are met by a
\* free workspace again and again.
Fairness ==
  /\ \A g \in Two : WF_vars(Send(g))
  /\ WF_vars(\E free, freekeys \in BOOLEAN : Drain(free, freekeys)) /\ WF_vars(GivesUp \/ Fires)
  /\ SF_vars(JumpedBack /\ Drain(TRUE, TRUE)) /\ SF_vars(fire # {} /\ Fires)
  /\ \A c \in Cue : SF_vars(c \in Crossed /\ Drain(TRUE, TRUE))
FairSpec == Init /\ [][Next]_vars /\ Fairness

---------------------------------------------------------------------------
\* Types.
TypeOK ==
  /\ cue \in {"standby", "waiting", "running"} /\ active \in 0..2 /\ tc \in {"on", "changing", "off"}
  /\ \A g \in Two : gen[g].frame \in Frames /\ gen[g].next \in 0..Pieces
  /\ \A e \in Two : rx[e].count \in 0..Pieces /\ rx[e].run \in 0..Pieces
  /\ ears \in (SUBSET Two) \ {{}}
  /\ \A i \in DOMAIN queue : queue[i] \in 0..(None - 1)
  /\ fire \cup bykey \subseteq Cue /\ mark \in 0..(None - 1)

\* The one thread that sends is that of the running cue: however a cue ends, no generator
\* is left behind that would send for ever.
GeneratorOwned ==
  \A g \in Two : gen[g].live => g = active /\ cue = "running"

\* Whatever was lost, cut short or mixed up before, a frame of which every piece came to
\* a thread in order is read by it as it was sent.
GroupsAreRead == misread = {}

\* No cue is fired again by its trigger unless the loop has seen the timecode before it
\* in between: rewinds that are seen late, lost locks, a receiving thread that outlives a
\* change of settings and reports beside its successor, and frames read wrongly included.
FiresOnce == fire \cap done = {}

\* A trigger that the loop can cross: it fires what lies in (mark, position], and the mark
\* is 0 for a list that has seen nothing.  So the first frame of the day never fires (the
\* doc of the mark, cue_list.rs:167-171, says that at 0 every trigger is still armed).
CanFire(c) == trig[c] \in Frames \ {0}

\* With the list following, a cue whose trigger lies behind the position has been fired,
\* or there is a reason: a command had the workspace when the position moved, when it
\* jumped back or when the cue was to be fired; the jump landed on the trigger; the
\* trigger, the following or the show was changed with the position beyond it; or the
\* trigger is at 00:00:00:00, which is never fired.
CrossedAreAccounted ==
  loop = "idle" /\ on =>
    \A c \in there : CanFire(c) /\ Past(c, prev) => c \in done \cup excused

\* A key that was pressed is waiting, has fired its cue, or met a workspace that was held
\* or a listener that was replaced.
KeysAnswered ==
  loop = "idle" => pressed \cap there \subseteq keys \cup spoilt

\* While a Timecode Cue runs on, sends and is heard, a cue of a list that follows fires
\* in every round of the day again, unless its trigger is at 00:00:00:00: no rewind is
\* missed for good.
RoundsFire ==
  \A c \in Cue :
    <>[](cue = "running" /\ active # 0 /\ tc = "on" /\ on /\ c \in there /\ CanFire(c))
      => []<>(c \in done) /\ []<>(c \notin done)

\* Timecode is sent by its cue alone and read as it was sent, and no key is lost.
TimecodeSafety == TypeOK /\ GeneratorOwned /\ GroupsAreRead /\ KeysAnswered

\* The triggers of a list that follows fire once in a round, and none after the first frame
\* of the day is passed over without a reason.
TriggersKept == FiresOnce /\ CrossedAreAccounted
=============================================================================
