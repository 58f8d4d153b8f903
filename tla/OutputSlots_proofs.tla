------------------------- MODULE OutputSlots_proofs -------------------------
(***************************************************************************)
(* Proofs about OutputSlots, for every number of cues, outputs, slots,      *)
(* loads and calls: no picture stays on an output that no cue owns, and no  *)
(* cue runs whose picture or sound nobody shows; a picture is not behind    *)
(* the curtain; no text is left on an output when its cue is at rest, and   *)
(* a text that is up is the only one there.                                 *)
(*                                                                          *)
(* The invariant has four parts: the types; PictureInv, that a load is of   *)
(* one cue and one slot from its number to the message that ends it,        *)
(* whichever thread is half way through a task; CurtainIsUp; and TextInv.   *)
(* Most steps do little to a part.  Such steps have a name (Quiet, Keeps)   *)
(* and one lemma, and only the others are argued conjunct by conjunct.      *)
(***************************************************************************)
EXTENDS OutputSlots, WellFoundedInduction, TLAPS

\* Types: those of TypeOK, by name, with all of a player; one that is busy has a file.
Cues == [state: {"standby", "running", "paused"}, voice: Voice \cup {None}, waits: BOOLEAN,
         preloaded: BOOLEAN]
Contents == [voice: Voice \cup {None}, audio: BOOLEAN, reveal: BOOLEAN, deadline: BOOLEAN,
             preloaded: BOOLEAN, unload: BOOLEAN, stopAtEnd: BOOLEAN,
             light: {"dark", "rising", "lit", "falling"}]
Tasks == [do: {"nothing", "stop", "reveal", "unload"}, voice: Voice \cup {None}, audio: BOOLEAN]
Players == [file: Voice \cup {None}, at: {"idle", "opening", "open"}, paused: BOOLEAN,
            held: BOOLEAN, events: Seq(Events)]
Sounds == {"none", "paused", "playing", "stopped", "gone"}
Presences == {"none", "opening", "live", "dropped", "closing"}
Messages == [kind: {"completed", "withdrawn", "error"}, voice: Voice]
Layers(texts) == [curtain: {"open", "closed"}, surface: Surfaces, dummy: BOOLEAN, timer: BOOLEAN,
                  text: SUBSET (texts \cup {"label"}), pattern: BOOLEAN]
Pasts(texts) == [failed: SUBSET Voice, cut: SUBSET Voice, raised: SUBSET Voice,
                 adrift: SUBSET Voice, unheard: SUBSET Voice, refused: SUBSET Voice,
                 covered: SUBSET texts, left: SUBSET (texts \cup {"label"}), shut: SUBSET Output]
Typed ==
  /\ cue \in [Cue -> Cues] /\ slot \in [Slot -> Contents] /\ hand \in [Slot -> [Thread -> Tasks]]
  /\ mpv \in [Slot -> Players] /\ \A s \in Slot : mpv[s].at # "idle" => mpv[s].file # None
  /\ sound \in [Voice -> Sounds] /\ output \in [Output -> Presences] /\ config \in SUBSET Extra
  /\ status \in SUBSET Messages /\ next \in 1..(LastVoice + 1) /\ calls \in 0..trial.calls
  /\ overlay \in [Output -> Layers(Texts)] /\ label \in SUBSET Output /\ past \in Pasts(Texts)
  /\ trial \in Trials

\* The voices in use have been handed out, and each is of one load: of one cue at most and
\* of one slot at most.
Numbered ==
  /\ \A c \in Cue : cue[c].voice < next
  /\ \A s \in Slot : slot[s].voice < next
  /\ \A s \in Slot, t \in Thread : hand[s][t].voice < next
  /\ \A m \in status : m.voice < next
Single ==
  /\ \A c, d \in Cue : cue[c].voice = cue[d].voice /\ cue[c].voice # None => c = d
  /\ \A s, r \in Slot : slot[s].voice = slot[r].voice /\ slot[s].voice # None => s = r
  /\ \A c \in Texts : cue[c].voice = None

\* What has ended, or is about to be reported to have, is on no slot any more, and an
\* error that is reported is on record.
Settled ==
  /\ \A m \in status, s \in Slot : slot[s].voice # m.voice
  /\ \A s, r \in Slot, t \in Thread :
       hand[r][t].do = "unload" /\ slot[s].voice # None => slot[s].voice # hand[r][t].voice
  /\ \A m \in status : m.kind = "error" => m.voice \in past.failed

\* An output that is not there has nothing on its slots.
Vacated == \A s \in Slot : output[OutputOf(s)] \in {"none", "opening"} => slot[s].voice = None

\* A slot that is being stopped is nobody's any more and has no sound, and one that is
\* held back is of a cue that is preloaded.
Disowned == \A s \in Slot, c \in Cue :
  slot[s].unload /\ slot[s].voice # None => cue[c].voice # slot[s].voice
Hushed == \A s \in Slot : slot[s].unload => ~slot[s].audio
HeldBack == \A s \in Slot, c \in Cue :
  slot[s].preloaded /\ slot[s].voice # None /\ Registered(OutputOf(s))
    /\ cue[c].voice = slot[s].voice => cue[c].preloaded

\* A reveal under way that finds its load still there finds it with its sound; an unload
\* under way stops the sound there is.
RevealFits == \A s \in Slot, t \in Thread :
  hand[s][t].do = "reveal" /\ hand[s][t].audio /\ hand[s][t].voice # None
    /\ slot[s].voice = hand[s][t].voice /\ ~slot[s].unload
  => slot[s].audio /\ ~slot[s].preloaded
UnloadFits == \A s \in Slot, t \in Thread :
  hand[s][t].do = "unload" /\ hand[s][t].voice # None /\ sound[hand[s][t].voice] = "playing"
    /\ hand[s][t].voice \notin past.raised
  => hand[s][t].audio

\* Every cue with a voice is accounted for, whether it runs or not.
Accounted ==
  \A c \in Cue : cue[c].voice # None =>
    LET v == cue[c].voice IN
    \/ \E s \in Slot : slot[s].voice = v
    \/ \E m \in status : m.voice = v
    \/ \E s \in Slot, t \in Thread : hand[s][t].do = "unload" /\ hand[s][t].voice = v
    \/ v \in past.failed \cup past.unheard

\* An overlay shows one text, of a Text Cue on the output that cue is for.
OneText ==
  \A o \in Output, what \in Texts \cup {"label"} :
    what \in overlay[o].text => /\ overlay[o].text = {what}
                                /\ what # "label" => trial.plan[what].to = o

\* The text of a cue that is not at rest is seen where it is shown, a cue that runs shows it.
ShownIsSeen ==
  \A c \in Texts :
    cue[c].state # "standby" /\ ~cue[c].waits /\ c \notin past.covered =>
      LET o == overlay[trial.plan[c].to] IN
      /\ o.text = {c} => /\ output[trial.plan[c].to] = "live" /\ o.curtain = "open"
                         /\ o.surface # "none" \/ o.dummy \/ o.pattern
      /\ cue[c].state = "running" => o.text = {c}

PictureInv ==
  /\ Numbered /\ Single /\ Settled /\ Vacated /\ Disowned /\ Hushed /\ HeldBack /\ RevealFits
  /\ UnloadFits /\ Accounted /\ PictureIsOwned /\ SoundHasPicture
TextInv == OneText /\ ShownIsSeen /\ NoTextLeft
SlotsInv == Typed /\ PictureInv /\ CurtainIsUp /\ TextInv

---------------------------------------------------------------------------
\* A nonempty set of naturals has a least element.
LEMMA Least ==
  ASSUME NEW T \in SUBSET Nat, T # {}
  PROVE  \E x \in T : \A y \in T : x <= y
<1> DEFINE R == {p \in Nat \X Nat : p[1] < p[2]}
<1>1. R = OpToRel(<, Nat)
  BY DEF OpToRel
<1>2. IsWellFoundedOn(R, Nat)
  BY <1>1, NatLessThanWellFounded
<1>3. \E x \in T : \A y \in T : ~(<<y, x>> \in R)
  <2> HIDE DEF R
  <2> QED
    BY <1>2, WFMin
<1>4. \A x, y \in Nat : <<y, x>> \in R <=> y < x
  OBVIOUS
<1>5. \A x, y \in Nat : ~(y < x) => x <= y
  OBVIOUS
<1> QED
  <2> HIDE DEF R
  <2> QED
    BY <1>3, <1>4, <1>5

\* What is not known to be a voice is 0, and the main output is always there to be used.
LEMMA Constants ==
  /\ SlotsPer \in Nat \ {0} /\ LastVoice \in Nat \ {0} /\ None = 0 /\ None \notin Voice
  /\ Voice \subseteq Nat /\ MainOutput \in Output /\ Extra \subseteq Output
  /\ "label" \notin Cue /\ Texts \subseteq Cue
  /\ \A s \in Slot : s = <<s[1], s[2]>> /\ OutputOf(s) \in Output
BY SlotsAssumption DEF None, Voice, Output, Texts, Slot, OutputOf

\* The types used here are those that the runs check, and more.
LEMMA TypesAgree == Typed => TypeOK
<1> SUFFICES ASSUME Typed PROVE TypeOK
  OBVIOUS
<1>1. \A s \in Slot : /\ mpv[s].file \in Voice \cup {None} /\ mpv[s].at \in {"idle", "opening", "open"}
                      /\ mpv[s].events \in Seq(Events)
  BY DEF Typed, Players
<1> QED
  BY <1>1 DEF Typed, TypeOK, Cues, Contents, Tasks, Sounds, Presences, Messages, Layers, Pasts

\* A load gets a slot of its output.
LEMMA AcquiredIs ==
  ASSUME slot \in [Slot -> Contents], NEW o \in Output
  PROVE  Acquired(o) \in Slot /\ OutputOf(Acquired(o)) = o
<1>1. 1..SlotsPer \subseteq Nat /\ 1 \in 1..SlotsPer
  BY Constants
<1>2. CASE Vacant(o) # {}
  <2>1. Vacant(o) \in SUBSET Nat /\ Vacant(o) \subseteq 1..SlotsPer
    BY <1>1 DEF Vacant
  <2>2. Min(Vacant(o)) \in Vacant(o)
    BY <1>2, <2>1, Least DEF Min
  <2> QED
    BY <1>2, <2>1, <2>2 DEF Acquired, OutputOf, Slot
<1>3. CASE Vacant(o) = {}
  <2> DEFINE T == {slot[<<o, i>>].voice : i \in 1..SlotsPer}
  <2>1. \A i \in 1..SlotsPer : slot[<<o, i>>].voice \in Nat
    <3>1. \A i \in 1..SlotsPer : <<o, i>> \in Slot
      BY DEF Slot
    <3>2. \A s \in Slot : slot[s].voice \in Voice \cup {None}
      BY DEF Contents
    <3> QED
      BY <3>1, <3>2, Constants
  <2>2. T \in SUBSET Nat /\ T # {}
    BY <1>1, <2>1
  <2>3. PICK x \in T : \A y \in T : x <= y
    <3> HIDE DEF T
    <3> QED
      BY <2>2, Least
  <2>4. \E i \in 1..SlotsPer : \A j \in 1..SlotsPer : slot[<<o, i>>].voice <= slot[<<o, j>>].voice
    BY <2>3
  <2>5. Oldest(o) \in 1..SlotsPer
    BY <2>4 DEF Oldest
  <2> QED
    BY <1>3, <2>5 DEF Acquired, OutputOf, Slot
<1> QED
  BY <1>2, <1>3

\* What a call does to an overlay keeps its type.
LEMMA LayersTyped ==
  ASSUME NEW T, NEW o \in Layers(T), NEW b \in BOOLEAN, NEW what \in T \cup {"label"}
  PROVE  /\ TimerSet(o, b) \in Layers(T) /\ TextShown(o, what) \in Layers(T)
         /\ TextCleared(o, b) \in Layers(T) /\ PatternShown(o) \in Layers(T)
         /\ PatternCleared(o) \in Layers(T) /\ Panicked(o) \in Layers(T) /\ Dark \in Layers(T)
<1> USE DEF Layers, Surfaces
<1>1. \A r \in Layers(T) : WithSurface(r) \in Layers(T) /\ Released(r) \in Layers(T)
  BY DEF WithSurface, Released
<1>2. TimerSet(o, b) \in Layers(T)
  <2>1. [o EXCEPT !.timer = TRUE] \in Layers(T) /\ [o EXCEPT !.timer = FALSE] \in Layers(T)
    OBVIOUS
  <2> HIDE DEF Layers
  <2> QED
    BY <1>1, <2>1 DEF TimerSet
<1>3. TextShown(o, what) \in Layers(T)
  BY <1>1 DEF TextShown
<1>4. TextCleared(o, b) \in Layers(T)
  BY <1>1 DEF TextCleared
<1>5. PatternShown(o) \in Layers(T) /\ Panicked(o) \in Layers(T) /\ Dark \in Layers(T)
  BY DEF PatternShown, Panicked, Dark
<1>6. PatternCleared(o) \in Layers(T)
  <2> DEFINE r == [o EXCEPT !.pattern = FALSE, !.surface = "none"]
             q == IF Active(r) THEN WithSurface(r) ELSE r
  <2>1. r \in Layers(T)
    OBVIOUS
  <2>2. q \in Layers(T)
    <3> HIDE DEF r, Layers
    <3> QED
      BY <1>1, <2>1
  <2>3. PatternCleared(o) = [q EXCEPT !.curtain = "closed"]
    BY DEF PatternCleared
  <2> HIDE DEF q
  <2> QED
    BY <2>2, <2>3
<1> QED
  BY <1>2, <1>3, <1>4, <1>5, <1>6

\* The show of a behaviour.
LEMMA PlanIs ==
  ASSUME Typed
  PROVE  /\ \A c \in Cue : /\ trial.plan[c].kind \in {"video", "image", "camera", "text"}
                           /\ trial.plan[c].to \in Output /\ trial.plan[c].held \in BOOLEAN
                           /\ trial.plan[c].sound \in BOOLEAN /\ trial.plan[c].waits \in BOOLEAN
                           /\ trial.plan[c].sound => trial.plan[c].kind = "video"
         /\ trial.extras \in SUBSET Extra /\ trial.calls \in Nat
<1>1. trial \in Trials
  BY DEF Typed
<1>2. trial.plan \in [Cue -> Plans] /\ trial.extras \in SUBSET Extra /\ trial.calls \in Nat
      /\ \A c \in Cue : trial.plan[c].sound => trial.plan[c].kind = "video"
  BY <1>1, SlotsAssumption
<1>3. \A c \in Cue : trial.plan[c] \in Plans
  BY <1>2
<1> QED
  BY <1>2, <1>3 DEF Plans

\* What the stage is made of, and what loading and stopping do to it.
StageTyped ==
  /\ slot \in [Slot -> Contents] /\ mpv \in [Slot -> Players]
  /\ \A s \in Slot : mpv[s].at # "idle" => mpv[s].file # None
  /\ sound \in [Voice -> Sounds] /\ output \in [Output -> Presences]
  /\ status \in SUBSET Messages /\ past \in Pasts(Texts)
  /\ overlay \in [Output -> Layers(Texts)]

\* What a call does to a sound leaves it a sound.
LEMMA SoundTyped ==
  ASSUME sound \in [Voice -> Sounds], NEW v, NEW b \in BOOLEAN
  PROVE  /\ SoundOff(v, b) \in [Voice -> Sounds] /\ SoundOn(v, b) \in [Voice -> Sounds]
         /\ SoundHeld(v, b) \in [Voice -> Sounds]
BY DEF SoundOff, SoundOn, SoundHeld, Sounds

\* What is reported is a message.
LEMMA ReportsTyped ==
  ASSUME NEW v \in Voice \cup {None}, NEW k \in {"completed", "withdrawn", "error"}
  PROVE  Reports(k, v) \in SUBSET Messages /\ Withdrawn(v) \in SUBSET Messages
BY DEF Reports, Withdrawn, Messages

\* The content of a load.
LEMMA ContentIs ==
  ASSUME Typed, NEW c \in Cue, NEW v \in Voice, NEW preload \in BOOLEAN
  PROVE  LET r == Content(c, v, preload) IN
         /\ r \in Contents /\ r.voice = v /\ r.unload = FALSE
         /\ r.audio = (trial.plan[c].kind = "video" /\ trial.plan[c].sound)
         /\ r.preloaded = (preload /\ trial.plan[c].kind \in {"video", "image"})
<1>1. /\ trial.plan[c].kind \in {"video", "image", "camera", "text"}
      /\ trial.plan[c].sound \in BOOLEAN
  BY PlanIs
<1>2. IdleSlot \in Contents
  BY DEF IdleSlot, Contents
<1>3. CASE trial.plan[c].kind = "video"
  <2>1. Content(c, v, preload) = VideoContent(c, v, preload)
    BY <1>3 DEF Content
  <2> QED
    BY <1>1, <1>3, <2>1 DEF VideoContent, IdleSlot, Contents
<1>4. CASE trial.plan[c].kind = "image"
  <2>1. Content(c, v, preload) = ImageContent(v, preload)
    BY <1>4 DEF Content
  <2> QED
    BY <1>1, <1>4, <2>1 DEF ImageContent, IdleSlot, Contents
<1>5. CASE trial.plan[c].kind \in {"camera", "text"}
  <2>1. Content(c, v, preload) = CameraContent(v)
    BY <1>5 DEF Content
  <2> QED
    BY <1>1, <1>5, <2>1 DEF CameraContent, IdleSlot, Contents
<1> QED
  BY <1>1, <1>3, <1>4, <1>5

\* A load that reaches its output, in terms of the slot it takes and what it puts there.
Loads(c, preload, over, s, r) ==
  /\ OutputOf(s) = trial.plan[c].to /\ output[OutputOf(s)] = "live" /\ output' = output
  /\ next \in Voice /\ r.voice = next /\ r.unload = FALSE
  /\ r.audio = (trial.plan[c].kind = "video" /\ trial.plan[c].sound)
  /\ r.preloaded = (preload /\ trial.plan[c].kind \in {"video", "image"})
  /\ slot' = [slot EXCEPT ![s] = r]
  /\ sound' = Submitted(c, SoundOff(slot[s].voice, slot[s].audio /\ slot[s].voice # None))
  /\ status' = status \cup Withdrawn(slot[s].voice)
  /\ overlay' = [over EXCEPT ![OutputOf(s)].curtain = "open"]
  /\ \E refuses \in BOOLEAN :
       /\ mpv' = IF refuses THEN Refusing(s, r.reveal)
                 ELSE Loading(s, next, r.reveal, trial.plan[c].held)
       /\ past' = [past EXCEPT !.adrift = @ \cup ({cue[c].voice} \ {None}),
                               !.shut = @ \ {OutputOf(s)},
                               !.refused = IF refuses THEN @ \cup {next} ELSE @]

\* A load that finds its slot fills it with one of the contents below.
LEMMA ShowContentIs ==
  ASSUME Typed, NEW c \in Cue, NEW preload \in BOOLEAN, NEW over,
         next <= LastVoice, ShowContent(c, preload, over)
  PROVE  \E s \in Slot, r \in Contents : Loads(c, preload, over, s, r)
<1> DEFINE o == trial.plan[c].to
           s == Acquired(o)
           r == Content(c, next, preload)
<1>1. o \in Output
  BY PlanIs
<1>2. s \in Slot /\ OutputOf(s) = o
  BY <1>1, AcquiredIs DEF Typed
<1>3. next \in Voice
  BY DEF Typed, Voice
<1>4. /\ r \in Contents /\ r.voice = next /\ r.unload = FALSE
      /\ r.audio = (trial.plan[c].kind = "video" /\ trial.plan[c].sound)
      /\ r.preloaded = (preload /\ trial.plan[c].kind \in {"video", "image"})
  BY <1>3, ContentIs
<1>5. /\ output[o] = "live" /\ output' = output /\ slot' = [slot EXCEPT ![s] = r]
      /\ sound' = Submitted(c, SoundOff(slot[s].voice, slot[s].audio /\ slot[s].voice # None))
      /\ status' = status \cup Withdrawn(slot[s].voice)
      /\ overlay' = [over EXCEPT ![o].curtain = "open"]
  BY Zenon DEF ShowContent
<1>6. \E refuses \in BOOLEAN :
        /\ mpv' = IF refuses THEN Refusing(s, r.reveal)
                  ELSE Loading(s, next, r.reveal, trial.plan[c].held)
        /\ past' = [past EXCEPT !.adrift = @ \cup ({cue[c].voice} \ {None}), !.shut = @ \ {o},
                                !.refused = IF refuses THEN @ \cup {next} ELSE @]
  <2>1. CanRefuse \subseteq BOOLEAN
    BY DEF CanRefuse
  <2>2. PICK refuses \in CanRefuse :
          /\ mpv' = IF refuses THEN Refusing(s, r.reveal)
                    ELSE Loading(s, next, r.reveal, trial.plan[c].held)
          /\ past' = [past EXCEPT !.adrift = @ \cup ({cue[c].voice} \ {None}), !.shut = @ \ {o},
                                  !.refused = IF refuses THEN @ \cup {next} ELSE @]
    BY Zenon DEF ShowContent
  <2> HIDE DEF o, s, r
  <2> QED
    BY <2>1, <2>2, Zenon
<1>7. Loads(c, preload, over, s, r)
  BY <1>2, <1>3, <1>4, <1>5, <1>6, Zenon DEF Loads
<1> HIDE DEF o, s, r
<1> QED
  BY <1>2, <1>4, <1>7

\* A load keeps the stage typed, and takes the next voice.
LEMMA LoadTyped ==
  ASSUME Typed, NEW c \in Cue, NEW preload \in BOOLEAN, NEW over \in [Output -> Layers(Texts)],
         trial' = trial, next <= LastVoice, ShowContent(c, preload, over)
  PROVE  StageTyped' /\ next \in Voice
<1>1. PICK s \in Slot, r \in Contents : Loads(c, preload, over, s, r)
  BY ShowContentIs
<1> USE DEF Loads
<1>2. Texts' = Texts
  BY DEF Texts, IsKind
<1>3. slot[s].voice \in Voice \cup {None} /\ slot[s].audio \in BOOLEAN
  BY DEF Typed, Contents
<1>4. slot' \in [Slot -> Contents]
  BY <1>1 DEF Typed
<1>5. mpv' \in [Slot -> Players] /\ \A x \in Slot : mpv'[x].at # "idle" => mpv'[x].file # None
  <2>1. r.reveal \in BOOLEAN /\ trial.plan[c].held \in BOOLEAN
    BY PlanIs DEF Contents
  <2>2. next # None
    BY <1>1, Constants
  <2> DEFINE p == [mpv[s] EXCEPT !.file = next, !.at = "opening", !.paused = r.reveal,
                                 !.held = trial.plan[c].held]
  <2>3. mpv[s] \in Players
    BY DEF Typed
  <2> DEFINE q == [mpv[s] EXCEPT !.paused = r.reveal]
  <2>4. p \in Players /\ p.file = next /\ q \in Players /\ q.file = mpv[s].file
        /\ q.at = mpv[s].at
    BY <1>1, <2>1, <2>3 DEF Players
  <2>5. mpv' = [mpv EXCEPT ![s] = p] \/ mpv' = [mpv EXCEPT ![s] = q]
    BY <1>1 DEF Typed, Loading, Refusing
  <2> HIDE DEF p, q
  <2> QED
    BY <2>2, <2>4, <2>5 DEF Typed
<1>6. sound' \in [Voice -> Sounds]
  <2>1. SoundOff(slot[s].voice, slot[s].audio /\ slot[s].voice # None) \in [Voice -> Sounds]
    BY <1>3, SoundTyped DEF Typed
  <2> QED
    BY <1>1, <2>1 DEF Submitted, Sounds
<1>7. status' \in SUBSET Messages
  BY <1>1, <1>3, ReportsTyped DEF Typed
<1>8. overlay' \in [Output -> Layers(Texts)]
  <2>1. [over[OutputOf(s)] EXCEPT !.curtain = "open"] \in Layers(Texts)
    BY Constants DEF Layers
  <2> QED
    BY <1>1, <2>1
<1>9. past' \in Pasts(Texts)
  <2>1. cue[c].voice \in Voice \cup {None}
    BY DEF Typed, Cues
  <2> DEFINE a == past.adrift \cup ({cue[c].voice} \ {None})
             h == past.shut \ {OutputOf(s)}
  <2>2. a \in SUBSET Voice /\ h \in SUBSET Output
    BY <2>1 DEF Typed, Pasts
  <2>3. PICK f \in SUBSET Voice : past' = [past EXCEPT !.adrift = a, !.shut = h, !.refused = f]
    <3>1. past.refused \in SUBSET Voice /\ past.refused \cup {next} \in SUBSET Voice
      BY <1>1 DEF Typed, Pasts
    <3> QED
      BY <1>1, <3>1
  <2> HIDE DEF a, h
  <2> QED
    BY <2>2, <2>3 DEF Typed, Pasts
<1> QED
  BY <1>1, <1>2, <1>4, <1>5, <1>6, <1>7, <1>8, <1>9 DEF StageTyped, Typed

---------------------------------------------------------------------------
\* What a GO, the end of a pre-wait and the Load Cue of a camera come to.
Begins(c, cues, over) ==
  \/ trial.plan[c].kind \in {"video", "image"} /\ ShowPreloaded(c, cues, over)
  \/ WaitFirst(c, cues, over)
  \/ trial.plan[c].kind # "text" /\ StartOrReset(c, cues, over)
  \/ trial.plan[c].kind = "text" /\ StartText(c, cues, over)

\* A GO begins its cue, after the Text Cues that it stops for it are at rest.
LEMMA GoBegins ==
  ASSUME NEW c \in Cue, Go(c)
  PROVE  /\ cue[c].state # "running" /\ UNCHANGED <<hand, config, calls, trial, label>>
         /\ \E S \in StoppedByGo(c) : Begins(c, Rested(S), TextsOff(S))
<1>1. PICK S \in StoppedByGo(c) :
        LET cues == Rested(S)  over == TextsOff(S)
        IN  VideoGo(c, cues, over) \/ ImageGo(c, cues, over) \/ CameraGo(c, cues, over)
              \/ TextGo(c, cues, over)
  BY DEF Go
<1>2. Begins(c, Rested(S), TextsOff(S))
  BY <1>1 DEF Begins, VideoGo, ImageGo, CameraGo, TextGo, IsKind
<1> QED
  BY <1>2 DEF Go

\* A pre-wait that is over begins its cue, and nothing else.
LEMMA WaitBegins ==
  ASSUME NEW c \in Cue, PreWaitOver(c)
  PROVE  /\ cue[c].state = "running" /\ cue[c].waits
         /\ UNCHANGED <<hand, config, calls, trial, label>>
         /\ Begins(c, cue, overlay)
BY DEF PreWaitOver, VideoTick, ImageTick, CameraTick, TextTick, Begins, IsKind

\* So does a Load Cue on a camera, whose preload is a GO.
LEMMA CameraBegins ==
  ASSUME NEW c \in Cue, LoadCamera(c)
  PROVE  /\ Call("preload") /\ cue[c].state # "running" /\ UNCHANGED <<hand, config, label>>
         /\ Begins(c, cue, overlay)
BY DEF LoadCamera, CameraGo, Begins, IsKind

\* The overlays once the texts of S are cleared.
LEMMA TextsOffTyped ==
  ASSUME Typed, NEW S
  PROVE  TextsOff(S) \in [Output -> Layers(Texts)]
<1>1. \A o \in Output : Busy(o) \in BOOLEAN
  BY DEF Busy
<1>2. \A o \in Output : TextCleared(overlay[o], Busy(o)) \in Layers(Texts)
  <2>1. "label" \in Texts \cup {"label"}
    OBVIOUS
  <2> QED
    BY <1>1, <2>1, LayersTyped DEF Typed
<1> QED
  BY <1>2 DEF TextsOff, Typed

\* Cues put to rest are cues.
LEMMA RestedTyped ==
  ASSUME Typed, NEW S
  PROVE  Rested(S) \in [Cue -> Cues]
BY DEF Rested, Standby, Typed, Cues

\* A load that the output refuses leaves outputs that are typed.
LEMMA RefusedTyped ==
  ASSUME Typed, NEW o \in Output, Refused(o)
  PROVE  output' \in [Output -> Presences]
BY DEF Refused, Typed, Presences

\* A preloaded cue that is shown, and a paused one that goes on, keep the slots typed.
LEMMA ShowAgainTyped ==
  ASSUME Typed, NEW c \in Cue, ShowAgain(c)
  PROVE  /\ slot' \in [Slot -> Contents] /\ mpv' \in [Slot -> Players]
         /\ \A s \in Slot : mpv'[s].at # "idle" => mpv'[s].file # None
         /\ sound' \in [Voice -> Sounds]
<1> DEFINE v == cue[c].voice
           S == SlotsOf(v)
           waiting == { s \in S : cue[c].preloaded /\ slot[s].preloaded }
           audio == \E s \in S : slot[s].audio
<1>1. /\ slot' = [s \in Slot |->
                IF s \in waiting
                THEN [slot[s] EXCEPT !.reveal = FALSE, !.preloaded = FALSE, !.light = "rising"]
                ELSE slot[s]]
      /\ \/ /\ mpv' = [s \in Slot |-> IF s \in S THEN [mpv[s] EXCEPT !.paused = FALSE] ELSE mpv[s]]
            /\ sound' = SoundOn(v, audio)
         \/ UNCHANGED <<mpv, sound>>
  BY DEF ShowAgain
<1>2. audio \in BOOLEAN
  OBVIOUS
<1> HIDE DEF waiting, S, audio, v
<1>3. slot' \in [Slot -> Contents]
  <2>1. \A s \in Slot : [slot[s] EXCEPT !.reveal = FALSE, !.preloaded = FALSE, !.light = "rising"]
                         \in Contents
    BY DEF Typed, Contents
  <2> QED
    BY <1>1, <2>1 DEF Typed
<1>4. sound' \in [Voice -> Sounds]
  <2>1. sound \in [Voice -> Sounds]
    BY DEF Typed
  <2>2. SoundOn(v, audio) \in [Voice -> Sounds]
    BY <1>2, <2>1, SoundTyped
  <2>3. sound' = SoundOn(v, audio) \/ sound' = sound
    BY <1>1
  <2> QED
    BY <2>1, <2>2, <2>3
<1>5. mpv' \in [Slot -> Players] /\ \A s \in Slot : mpv'[s].at # "idle" => mpv'[s].file # None
  <2>1. \A s \in Slot : LET p == [mpv[s] EXCEPT !.paused = FALSE]
                        IN  p \in Players /\ p.at = mpv[s].at /\ p.file = mpv[s].file
    BY DEF Typed, Players
  <2>2. \/ mpv' = [s \in Slot |-> IF s \in S THEN [mpv[s] EXCEPT !.paused = FALSE] ELSE mpv[s]]
        \/ mpv' = mpv
    BY <1>1
  <2> QED
    BY <2>1, <2>2 DEF Typed
<1> QED
  BY <1>3, <1>4, <1>5

\* A text that is put up.
LEMMA TextUpTyped ==
  ASSUME Typed, NEW c \in Texts, NEW over \in [Output -> Layers(Texts)], trial' = trial,
         TextUp(c, over)
  PROVE  StageTyped' /\ next' = next
<1> DEFINE o == trial.plan[c].to
<1>1. Texts' = Texts /\ c \in Cue /\ o \in Output
  BY Constants, PlanIs DEF Texts, IsKind
<1>2. overlay' \in [Output -> Layers(Texts)]
  <2>1. TextShown(over[o], c) \in Layers(Texts)
    <3>1. over[o] \in Layers(Texts) /\ TRUE \in BOOLEAN
      BY <1>1
    <3> QED
      BY <3>1, LayersTyped
  <2> QED
    BY <2>1 DEF TextUp
<1>3. past' \in Pasts(Texts)
  <2>1. past \in Pasts(Texts) /\ "label" \notin Texts
    BY Constants DEF Typed
  <2>2. \/ past' = [past EXCEPT !.covered = (@ \cup (over[o].text \cap Texts)) \ {c},
                                !.left = @ \ {c}, !.shut = @ \ {o}]
        \/ past' = [past EXCEPT !.covered = @ \cup {c}]
    BY DEF TextUp
  <2>3. CASE past' = [past EXCEPT !.covered = (@ \cup (over[o].text \cap Texts)) \ {c},
                                !.left = @ \ {c}, !.shut = @ \ {o}]
    <3>1. /\ (past.covered \cup (over[o].text \cap Texts)) \ {c} \in SUBSET Texts
          /\ past.left \ {c} \in SUBSET (Texts \cup {"label"}) /\ past.shut \ {o} \in SUBSET Output
      BY <2>1 DEF Pasts
    <3> QED
      BY <2>1, <2>3, <3>1 DEF Pasts
  <2>4. CASE past' = [past EXCEPT !.covered = @ \cup {c}]
    BY <2>1, <2>4 DEF Pasts
  <2> QED
    BY <2>2, <2>3, <2>4
<1>4. output' \in [Output -> Presences]
  BY <1>1, RefusedTyped DEF TextUp, Typed
<1> QED
  BY <1>1, <1>2, <1>3, <1>4 DEF TextUp, StageTyped, Typed

\* Beginning a cue keeps everything typed.
LEMMA BeginsTyped ==
  ASSUME Typed, NEW c \in Cue, NEW cues \in [Cue -> Cues], NEW over \in [Output -> Layers(Texts)],
         trial' = trial, Begins(c, cues, over)
  PROVE  StageTyped' /\ cue' \in [Cue -> Cues] /\ next' \in 1..(LastVoice + 1)
<1>0. /\ \A v \in Voice \cup {None} : Playing(v) \in Cues
      /\ cue[c].voice \in Voice \cup {None} /\ next \in Nat /\ Texts' = Texts
  BY DEF Playing, Cues, Typed, Texts, IsKind
<1>1. CASE ShowPreloaded(c, cues, over)
  <2>1. cue' \in [Cue -> Cues] /\ next' = next
    BY <1>0, <1>1 DEF ShowPreloaded
  <2>2. overlay' = over /\ UNCHANGED <<output, status, past>> /\ ShowAgain(c)
    BY <1>1 DEF ShowPreloaded
  <2>3. /\ slot' \in [Slot -> Contents] /\ mpv' \in [Slot -> Players]
        /\ \A s \in Slot : mpv'[s].at # "idle" => mpv'[s].file # None
        /\ sound' \in [Voice -> Sounds]
    BY <2>2, ShowAgainTyped
  <2> QED
    BY <1>0, <2>1, <2>2, <2>3 DEF StageTyped, Typed
<1>2. CASE WaitFirst(c, cues, over)
  <2>1. cue' = [cues EXCEPT ![c] = [cues[c] EXCEPT !.state = "running", !.waits = TRUE]]
    BY <1>2 DEF WaitFirst
  <2>2. [cues[c] EXCEPT !.state = "running", !.waits = TRUE] \in Cues
    BY DEF Cues
  <2>3. cue' \in [Cue -> Cues]
    BY <2>1, <2>2
  <2> QED
    BY <1>0, <1>2, <2>3 DEF WaitFirst, StageTyped, Typed
<1>3. CASE StartOrReset(c, cues, over)
  <2>1. PICK ok \in BOOLEAN :
          /\ Start(c, FALSE, ok, over)
          /\ cue' = [cues EXCEPT ![c] = IF ok THEN Playing(next)
                                  ELSE [@ EXCEPT !.state = "standby", !.waits = FALSE]]
    BY <1>3 DEF StartOrReset
  <2>2. next <= LastVoice /\ next' = next + 1 /\ next \in Voice
    BY <2>1 DEF Start, Typed, Voice
  <2>3. cue' \in [Cue -> Cues]
    <3>1. Playing(next) \in Cues
      BY <1>0, <2>2
    <3>2. [cues[c] EXCEPT !.state = "standby", !.waits = FALSE] \in Cues
      BY DEF Cues
    <3> QED
      BY <2>1, <3>1, <3>2
  <2>4. next' \in 1..(LastVoice + 1)
    BY <2>2, Constants DEF Typed
  <2>5. CASE ok
    <3>1. ShowContent(c, FALSE, over)
      BY <2>1, <2>5 DEF Start
    <3> QED
      BY <2>2, <2>3, <2>4, <3>1, LoadTyped
  <2>6. CASE ~ok
    <3>1. OutputFor(c, over)
      BY <2>1, <2>6 DEF Start
    <3>2. output' \in [Output -> Presences]
      BY <3>1, PlanIs, RefusedTyped DEF OutputFor
    <3>3. sound' \in [Voice -> Sounds]
      BY <3>1 DEF OutputFor, Submitted, Typed, Sounds
    <3> QED
      BY <1>0, <2>3, <2>4, <3>1, <3>2, <3>3 DEF OutputFor, StageTyped, Typed
  <2> QED
    BY <2>5, <2>6
<1>4. CASE trial.plan[c].kind = "text" /\ StartText(c, cues, over)
  <2>1. c \in Texts
    BY <1>4 DEF Texts, IsKind
  <2>2. cue' \in [Cue -> Cues]
    BY <1>0, <1>4 DEF StartText
  <2>3. TextUp(c, over)
    BY <1>4 DEF StartText
  <2> QED
    BY <2>1, <2>2, <2>3, TextUpTyped DEF Typed
<1> QED
  BY <1>1, <1>2, <1>3, <1>4 DEF Begins

---------------------------------------------------------------------------
\* The rest of the state, for the steps that touch only the stage.
DeskTyped ==
  /\ cue \in [Cue -> Cues] /\ hand \in [Slot -> [Thread -> Tasks]] /\ config \in SUBSET Extra
  /\ next \in 1..(LastVoice + 1) /\ calls \in 0..trial.calls /\ label \in SUBSET Output
  /\ trial \in Trials

\* Typed is what the stage and the desk keep, now ...
LEMMA TwoParts == Typed <=> StageTyped /\ DeskTyped
BY DEF Typed, StageTyped, DeskTyped

\* ... and after a step.
LEMMA TwoPartsNext == StageTyped' /\ DeskTyped' => Typed'
BY DEF Typed, StageTyped, DeskTyped

\* A call is one of those that the trial still has.
LEMMA CallTyped ==
  ASSUME Typed, NEW op, Call(op)
  PROVE  trial' = trial /\ calls' \in 0..trial'.calls
BY PlanIs DEF Call, Typed

\* A GO, a pre-wait that is over, a Load Cue.
LEMMA GoTyped ==
  ASSUME Typed, NEW c \in Cue, Go(c) \/ PreWaitOver(c) \/ LoadCamera(c)
  PROVE  Typed'
<1>1. \E cues \in [Cue -> Cues], over \in [Output -> Layers(Texts)] : Begins(c, cues, over)
  <2>1. CASE Go(c)
    BY <2>1, GoBegins, RestedTyped, TextsOffTyped
  <2>2. CASE PreWaitOver(c)
    BY <2>2, WaitBegins DEF Typed
  <2>3. CASE LoadCamera(c)
    BY <2>3, CameraBegins DEF Typed
  <2> QED
    BY <2>1, <2>2, <2>3
<1>2. /\ UNCHANGED <<hand, config, trial, label>> /\ calls' \in 0..trial'.calls
  <2>1. CASE Go(c) \/ PreWaitOver(c)
    BY <2>1, GoBegins, WaitBegins DEF Typed
  <2>2. CASE LoadCamera(c)
    BY <2>2, CameraBegins, CallTyped
  <2> QED
    BY <2>1, <2>2
<1>3. StageTyped' /\ cue' \in [Cue -> Cues] /\ next' \in 1..(LastVoice + 1)
  BY <1>1, <1>2, BeginsTyped
<1> QED
  BY <1>2, <1>3, TwoPartsNext DEF DeskTyped, Typed

\* A Load Cue on a Video, Image or Camera Cue.
LEMMA PreloadTyped ==
  ASSUME Typed, NEW c \in Cue, Preload(c)
  PROVE  Typed'
<1>1. trial' = trial /\ calls' \in 0..trial'.calls /\ UNCHANGED <<hand, config, label>>
  BY CallTyped DEF Preload
<1>2. PICK ok \in BOOLEAN :
       /\ Start(c, TRUE, ok, overlay)
       /\ IF ok THEN Set(c, [state |-> "paused", voice |-> next, waits |-> FALSE,
                             preloaded |-> TRUE])
          ELSE UNCHANGED cue
  BY DEF Preload
<1>3. next <= LastVoice /\ next' = next + 1 /\ next \in Voice /\ next' \in 1..(LastVoice + 1)
  BY <1>2, Constants DEF Start, Typed, Voice
<1>4. cue' \in [Cue -> Cues]
  <2>1. [state |-> "paused", voice |-> next, waits |-> FALSE, preloaded |-> TRUE] \in Cues
    BY <1>3 DEF Cues
  <2> QED
    BY <1>2, <2>1 DEF Set, Typed
<1>5. overlay \in [Output -> Layers(Texts)]
  BY DEF Typed
<1>6. StageTyped'
  <2>1. CASE ok
    <3>1. ShowContent(c, TRUE, overlay)
      BY <1>2, <2>1 DEF Start
    <3> QED
      BY <1>1, <1>3, <1>5, <3>1, LoadTyped
  <2>2. CASE ~ok
    <3>1. OutputFor(c, overlay)
      BY <1>2, <2>2 DEF Start
    <3>2. output' \in [Output -> Presences]
      BY <3>1, PlanIs, RefusedTyped DEF OutputFor
    <3>3. sound' \in [Voice -> Sounds]
      BY <3>1 DEF OutputFor, Submitted, Typed, Sounds
    <3>4. Texts' = Texts
      BY <1>1 DEF Texts, IsKind
    <3> QED
      BY <3>1, <3>2, <3>3, <3>4 DEF OutputFor, StageTyped, Typed
  <2> QED
    BY <2>1, <2>2
<1> QED
  BY <1>1, <1>3, <1>4, <1>6, TwoPartsNext DEF DeskTyped, Typed

\* A Load Cue on a Text Cue.
LEMMA LoadTextTyped ==
  ASSUME Typed, NEW c \in Cue, LoadText(c)
  PROVE  Typed'
<1>1. trial' = trial /\ calls' \in 0..trial'.calls /\ UNCHANGED <<hand, config, label>>
  BY CallTyped DEF LoadText
<1>2. cue' \in [Cue -> Cues]
  <2> DEFINE r == [cue[c] EXCEPT !.state = "paused",
                           !.waits = IF cue[c].state = "running" THEN @ ELSE trial.plan[c].waits]
  <2>1. r \in Cues
    BY PlanIs DEF Typed, Cues
  <2>2. cue' = [cue EXCEPT ![c] = r]
    BY DEF LoadText, Set
  <2> HIDE DEF r
  <2> QED
    BY <2>1, <2>2 DEF Typed
<1>3. Texts' = Texts /\ c \in Texts
  BY <1>1 DEF Texts, IsKind, LoadText
<1>4. CASE UNCHANGED <<slot, mpv, sound, output, overlay, status, next, past>>
  BY <1>1, <1>2, <1>3, <1>4, TwoPartsNext DEF StageTyped, DeskTyped, Typed
<1>5. CASE TextUp(c, overlay)
  <2>1. StageTyped' /\ next' = next
    BY <1>1, <1>3, <1>5, TextUpTyped DEF Typed
  <2> QED
    BY <1>1, <1>2, <2>1, TwoPartsNext DEF DeskTyped, Typed
<1> QED
  BY <1>4, <1>5 DEF LoadText

\* A stop, on a picture or on a text.
LEMMA StopTyped ==
  ASSUME Typed, NEW c \in Cue, Stop(c)
  PROVE  Typed'
<1>1. trial' = trial /\ calls' \in 0..trial'.calls /\ UNCHANGED <<hand, output, label, config, status, next>>
      /\ Texts' = Texts
  BY CallTyped DEF Stop, Texts, IsKind
<1>2. Standby \in Cues
  BY DEF Standby, Cues
<1>3. CASE \E fade \in BOOLEAN : LetGo(c, fade)
  <2>1. PICK fade \in BOOLEAN : LetGo(c, fade)
    BY <1>3
  <2>2. cue' \in [Cue -> Cues] /\ UNCHANGED <<mpv, overlay, past>>
    BY <1>2, <2>1 DEF LetGo, Set, Typed
  <2>3. Stopping(SlotsOf(cue[c].voice), cue[c].voice, fade)
    BY <2>1 DEF LetGo
  <2>4. \A s \in Slot : FadingOut(slot[s], fade) \in Contents
    BY DEF FadingOut, Typed, Contents
  <2>5. slot' \in [Slot -> Contents]
    BY <2>3, <2>4 DEF Stopping, Typed
  <2>6. sound' \in [Voice -> Sounds]
    <3>1. SoundOff(cue[c].voice, TRUE) \in [Voice -> Sounds]
      BY SoundTyped DEF Typed
    <3> QED
      BY <2>3, <3>1 DEF Stopping, Typed
  <2> QED
    BY <1>1, <2>2, <2>5, <2>6, TwoPartsNext DEF StageTyped, DeskTyped, Typed
<1>4. CASE TextStop(c)
  <2>1. cue' \in [Cue -> Cues] /\ UNCHANGED <<slot, mpv, sound>>
    BY <1>2, <1>4 DEF TextStop, Set, Typed
  <2>2. overlay' \in [Output -> Layers(Texts)]
    BY <1>4, TextsOffTyped DEF TextStop
  <2>3. past' \in Pasts(Texts)
    BY <1>4 DEF TextStop, Typed, Pasts
  <2> QED
    BY <1>1, <2>1, <2>2, <2>3, TwoPartsNext DEF StageTyped, DeskTyped, Typed
<1> QED
  BY <1>3, <1>4 DEF Stop, VideoStop, ImageStop, CameraStop

\* A pause.
LEMMA PauseTyped ==
  ASSUME Typed, NEW c \in Cue, Pause(c)
  PROVE  Typed'
<1>1. trial' = trial /\ calls' \in 0..trial'.calls /\ Texts' = Texts
      /\ UNCHANGED <<slot, hand, output, above, config, status, next, past>>
  BY CallTyped DEF Pause, Texts, IsKind
<1>2. cue' \in [Cue -> Cues]
  <2>1. [cue[c] EXCEPT !.state = "paused"] \in Cues
    BY DEF Typed, Cues
  <2> QED
    BY <2>1 DEF Pause, Set, Typed
<1>3. CASE PauseVideo(c)
  <2> DEFINE S == SlotsOf(cue[c].voice)
             b == \E s \in S : slot[s].audio
  <2>1. /\ mpv' = [s \in Slot |-> IF s \in S THEN [mpv[s] EXCEPT !.paused = TRUE] ELSE mpv[s]]
        /\ sound' = SoundHeld(cue[c].voice, b) /\ b \in BOOLEAN
    BY <1>3 DEF PauseVideo
  <2> HIDE DEF S, b
  <2>2. \A s \in Slot : LET p == [mpv[s] EXCEPT !.paused = TRUE]
                        IN  p \in Players /\ p.at = mpv[s].at /\ p.file = mpv[s].file
    BY DEF Typed, Players
  <2>3. mpv' \in [Slot -> Players] /\ \A s \in Slot : mpv'[s].at # "idle" => mpv'[s].file # None
    BY <2>1, <2>2 DEF Typed
  <2>4. sound' \in [Voice -> Sounds]
    BY <2>1, SoundTyped DEF Typed
  <2> QED
    BY <1>1, <1>2, <2>3, <2>4, TwoPartsNext DEF StageTyped, DeskTyped, Typed, above
<1>4. CASE PauseStill(c)
  <2>1. UNCHANGED <<mpv, sound>>
    BY <1>4 DEF PauseStill
  <2> QED
    BY <1>1, <1>2, <2>1, TwoPartsNext DEF StageTyped, DeskTyped, Typed, above
<1> QED
  BY <1>3, <1>4 DEF Pause

\* A resume, which may have to load again.
LEMMA ResumeTyped ==
  ASSUME Typed, NEW c \in Cue, Resume(c)
  PROVE  Typed'
<1>1. trial' = trial /\ calls' \in 0..trial'.calls /\ Texts' = Texts
      /\ UNCHANGED <<hand, output, above, config, status, next>>
  BY CallTyped DEF Resume, Texts, IsKind
<1>2. cue' \in [Cue -> Cues]
  <2>1. [cue[c] EXCEPT !.state = "running", !.preloaded = FALSE] \in Cues
    BY DEF Typed, Cues
  <2> QED
    BY <2>1 DEF Resume, Set, Typed
<1>3. past' \in Pasts(Texts)
  <2>1. IsKind(c, "text") => c \in Texts
    BY DEF Texts
  <2> DEFINE x == IF IsKind(c, "text") /\ ~Shown(c) THEN past.covered \cup {c} ELSE past.covered
  <2>2. past' = [past EXCEPT !.covered = x]
    BY DEF Resume
  <2>3. x \in SUBSET Texts
    BY <2>1 DEF Typed, Pasts
  <2> HIDE DEF x
  <2> QED
    BY <2>2, <2>3 DEF Typed, Pasts
<1>4. /\ slot' \in [Slot -> Contents] /\ mpv' \in [Slot -> Players]
      /\ \A s \in Slot : mpv'[s].at # "idle" => mpv'[s].file # None
      /\ sound' \in [Voice -> Sounds]
  <2>1. CASE ShowAgain(c)
    BY <2>1, ShowAgainTyped
  <2>2. CASE UNCHANGED <<slot, mpv, sound>>
    BY <2>2 DEF Typed
  <2> QED
    BY <2>1, <2>2 DEF Resume, ResumeVideo, ResumeImage, ResumeText
<1> QED
  BY <1>1, <1>2, <1>3, <1>4, TwoPartsNext DEF StageTyped, DeskTyped, Typed, above

\* Emptied slots, and their players.
LEMMA EmptiedTyped ==
  ASSUME Typed, NEW S \in SUBSET Slot
  PROVE  /\ Unloaded(S) \in [Slot -> Contents]
         /\ LET m == [s \in Slot |-> IF s \in S THEN [mpv[s] EXCEPT !.file = None, !.at = "idle"]
                                     ELSE mpv[s]]
            IN  m \in [Slot -> Players] /\ \A s \in Slot : m[s].at # "idle" => m[s].file # None
<1>1. IdleSlot \in Contents
  BY DEF IdleSlot, Contents
<1>2. \A s \in Slot : LET p == [mpv[s] EXCEPT !.file = None, !.at = "idle"]
                      IN  p \in Players /\ p.at = "idle"
  BY DEF Typed, Players
<1> QED
  BY <1>1, <1>2 DEF Unloaded, Typed

\* A hard unload of any slots.
LEMMA HardUnloadTyped ==
  ASSUME Typed, NEW S \in SUBSET Slot, HardUnload(S)
  PROVE  /\ slot' \in [Slot -> Contents] /\ mpv' \in [Slot -> Players]
         /\ \A s \in Slot : mpv'[s].at # "idle" => mpv'[s].file # None
         /\ sound' \in [Voice -> Sounds] /\ status' \in SUBSET Messages
<1>1. slot' = Unloaded(S)
      /\ mpv' = [s \in Slot |-> IF s \in S THEN [mpv[s] EXCEPT !.file = None, !.at = "idle"]
                                ELSE mpv[s]]
  BY DEF HardUnload
<1>2. sound' \in [Voice -> Sounds]
  BY DEF HardUnload, Typed, Sounds
<1>3. \A s \in S : Withdrawn(slot[s].voice) \in SUBSET Messages
  <2>1. \A s \in S : slot[s].voice \in Voice \cup {None}
    BY DEF Typed, Contents
  <2> QED
    BY <2>1, ReportsTyped
<1>4. status' \in SUBSET Messages
  <2>1. status' = status \cup UNION { Withdrawn(slot[s].voice) : s \in S }
    BY DEF HardUnload
  <2> QED
    BY <1>3, <2>1 DEF Typed
<1> QED
  BY <1>1, <1>2, <1>4, EmptiedTyped

\* A devamp, and the fade before the natural end.
LEMMA DevampTyped ==
  ASSUME Typed, NEW c \in Cue, Devamp(c) \/ FadeAtEnd(c)
  PROVE  Typed'
<1>1. trial' = trial /\ calls' \in 0..trial'.calls /\ Texts' = Texts
      /\ UNCHANGED <<cue, hand, mpv, sound, output, above, config, status, next, past>>
  BY CallTyped DEF Devamp, FadeAtEnd, Texts, IsKind
<1>2. \A s \in Slot : /\ [slot[s] EXCEPT !.stopAtEnd = TRUE] \in Contents
                      /\ [slot[s] EXCEPT !.light = "falling"] \in Contents
  BY DEF Typed, Contents
<1>3. slot' \in [Slot -> Contents]
  BY <1>2 DEF Devamp, FadeAtEnd, Typed
<1> QED
  BY <1>1, <1>3, TwoPartsNext DEF StageTyped, DeskTyped, Typed, above

\* A panic.
LEMMA PanicTyped ==
  ASSUME Typed, Panic
  PROVE  Typed'
<1>1. trial' = trial /\ calls' \in 0..trial'.calls /\ Texts' = Texts
      /\ UNCHANGED <<hand, output, label, config, status, next, past>>
  BY CallTyped DEF Panic, Texts, IsKind
<1> DEFINE S == { s \in Slot : Registered(OutputOf(s)) }
           off == TextsOff({ c \in Texts : cue[c].state # "standby" })
<1>2. slot' = Unloaded(S)
      /\ mpv' = [s \in Slot |-> IF s \in S THEN [mpv[s] EXCEPT !.file = None, !.at = "idle"]
                                ELSE mpv[s]]
  BY DEF Panic
<1>3. slot' \in [Slot -> Contents] /\ mpv' \in [Slot -> Players]
      /\ \A s \in Slot : mpv'[s].at # "idle" => mpv'[s].file # None
  <2>1. S \in SUBSET Slot
    OBVIOUS
  <2> HIDE DEF S
  <2> QED
    BY <1>2, <2>1, EmptiedTyped
<1>4. sound' \in [Voice -> Sounds]
  BY DEF Panic, Typed, Sounds
<1>5. overlay' \in [Output -> Layers(Texts)]
  <2>1. off \in [Output -> Layers(Texts)]
    BY TextsOffTyped
  <2>2. overlay' = [o \in Output |-> IF output[o] = "live" THEN Panicked(off[o]) ELSE off[o]]
    BY DEF Panic
  <2> HIDE DEF off
  <2>3. \A o \in Output : Panicked(off[o]) \in Layers(Texts)
    <3>1. TRUE \in BOOLEAN /\ "label" \in Texts \cup {"label"}
      OBVIOUS
    <3> QED
      BY <2>1, <3>1, LayersTyped
  <2> QED
    BY <2>1, <2>2, <2>3
<1>6. cue' \in [Cue -> Cues]
  BY DEF Panic, Standby, Cues
<1> QED
  BY <1>1, <1>3, <1>4, <1>5, <1>6, TwoPartsNext DEF StageTyped, DeskTyped, Typed

\* What is covered by what takes an overlay.
LEMMA HiddenTyped ==
  ASSUME Typed, NEW S
  PROVE  /\ Hidden(S) \in SUBSET Texts
         /\ past.left \in SUBSET (Texts \cup {"label"}) /\ Superseded(S) \in SUBSET (Texts \cup {"label"})
<1>1. /\ past.covered \in SUBSET Texts /\ past.left \in SUBSET (Texts \cup {"label"})
  BY DEF Typed, Pasts
<1>2. Hidden(S) \in SUBSET Texts
  <2> DEFINE u == UNION { overlay[o].text : o \in S }
  <2>1. Hidden(S) = past.covered \cup (u \cap Texts)
    BY DEF Hidden
  <2> HIDE DEF u
  <2> QED
    BY <1>1, <2>1
<1>3. Superseded(S) \in SUBSET (Texts \cup {"label"})
  BY <1>1 DEF Superseded
<1> QED
  BY <1>1, <1>2, <1>3

\* A test pattern put up.
LEMMA PatternTyped ==
  ASSUME Typed, NEW o \in Output, TestPattern(o)
  PROVE  Typed'
<1>1. trial' = trial /\ calls' \in 0..trial'.calls /\ Texts' = Texts
      /\ UNCHANGED <<cue, hand, output, label, config, next>>
  BY CallTyped DEF TestPattern, Texts, IsKind
<1>2. /\ slot' \in [Slot -> Contents] /\ mpv' \in [Slot -> Players]
      /\ \A s \in Slot : mpv'[s].at # "idle" => mpv'[s].file # None
      /\ sound' \in [Voice -> Sounds] /\ status' \in SUBSET Messages
  BY HardUnloadTyped DEF TestPattern
<1>3. PatternShown(overlay[o]) \in Layers(Texts)
  <2>1. TRUE \in BOOLEAN /\ "label" \in Texts \cup {"label"}
    OBVIOUS
  <2> QED
    BY <2>1, LayersTyped DEF Typed
<1>4. overlay' \in [Output -> Layers(Texts)] /\ past' \in Pasts(Texts)
  BY <1>3 DEF TestPattern, Shows, Typed, Pasts
<1> QED
  BY <1>1, <1>2, <1>4, TwoPartsNext DEF StageTyped, DeskTyped, Typed

\* Test patterns taken down.
LEMMA ClearTyped ==
  ASSUME Typed, NEW S \in SUBSET Output, ClearTestPattern(S)
  PROVE  Typed'
<1>1. trial' = trial /\ calls' \in 0..trial'.calls /\ Texts' = Texts
      /\ UNCHANGED <<cue, slot, hand, mpv, sound, output, label, config, status, next>>
  BY CallTyped DEF ClearTestPattern, Texts, IsKind
<1>2. \A o \in Output : PatternCleared(overlay[o]) \in Layers(Texts)
  <2>1. TRUE \in BOOLEAN /\ "label" \in Texts \cup {"label"}
    OBVIOUS
  <2> QED
    BY <2>1, LayersTyped DEF Typed
<1>3. overlay' \in [Output -> Layers(Texts)]
  BY <1>2 DEF ClearTestPattern, Typed
<1>4. past' \in Pasts(Texts)
  <2> DEFINE h == Hidden(S)
             x == { o \in S : Busy(o) }
  <2>1. past' = [past EXCEPT !.covered = h, !.shut = @ \cup x]
    BY DEF ClearTestPattern
  <2>2. h \in SUBSET Texts /\ x \in SUBSET Output
    BY HiddenTyped
  <2> HIDE DEF h, x
  <2> QED
    BY <2>1, <2>2 DEF Typed, Pasts
<1> QED
  BY <1>1, <1>3, <1>4, TwoPartsNext DEF StageTyped, DeskTyped, Typed

\* The timer on the outputs.
LEMMA TimerTyped ==
  ASSUME Typed, NEW on \in BOOLEAN, SetOutputTimer(on)
  PROVE  Typed'
<1>1. UNCHANGED <<cue, slot, hand, mpv, sound, output, label, config, status, next, calls,
                 trial, past>> /\ Texts' = Texts
  BY DEF SetOutputTimer, Texts, IsKind
<1>2. overlay' \in [Output -> Layers(Texts)]
  <2>1. "label" \in Texts \cup {"label"}
    OBVIOUS
  <2>2. TimerSet(overlay[MainOutput], on) \in Layers(Texts)
    BY <2>1, Constants, LayersTyped DEF Typed
  <2> QED
    BY <2>2 DEF SetOutputTimer, Shows, Typed
<1> QED
  BY <1>1, <1>2, TwoPartsNext DEF StageTyped, DeskTyped, Typed

\* An output identified, and the label taken down.
LEMMA IdentifyTyped ==
  ASSUME Typed, NEW o \in Output, Identify(o) \/ EndIdentify(o)
  PROVE  Typed'
<1>1. /\ trial' = trial /\ calls' \in 0..trial'.calls /\ Texts' = Texts
      /\ UNCHANGED <<cue, slot, hand, mpv, sound, config, status, next>>
  <2>1. CASE Identify(o)
    BY <2>1, CallTyped DEF Identify, Texts, IsKind
  <2>2. CASE EndIdentify(o)
    BY <2>2 DEF EndIdentify, Texts, IsKind, Typed
  <2> QED
    BY <2>1, <2>2
<1>2. label' \in SUBSET Output
  BY DEF Identify, EndIdentify
<1>3. output' \in [Output -> Presences]
  BY RefusedTyped DEF Identify, EndIdentify, Typed
<1>4. overlay' \in [Output -> Layers(Texts)]
  <2>1. "label" \in Texts \cup {"label"} /\ Busy(o) \in BOOLEAN
    BY DEF Busy
  <2>2. /\ TextShown(overlay[o], "label") \in Layers(Texts)
        /\ TextCleared(overlay[o], Busy(o)) \in Layers(Texts)
    BY <2>1, LayersTyped DEF Typed
  <2> QED
    BY <2>2 DEF Identify, EndIdentify, Shows, Typed
<1>5. past' \in Pasts(Texts)
  <2>1. /\ Hidden({o}) \in SUBSET Texts
        /\ Superseded({o}) \in SUBSET (Texts \cup {"label"})
        /\ Superseded({}) \in SUBSET (Texts \cup {"label"})
    BY HiddenTyped
  <2>2. \/ \E h \in SUBSET Texts, l \in SUBSET (Texts \cup {"label"}) :
             \/ past' = [past EXCEPT !.covered = h, !.left = l, !.shut = @ \ {o}]
             \/ past' = [past EXCEPT !.covered = h]
             \/ past' = [past EXCEPT !.left = l]
        \/ past' = past
    BY <2>1 DEF Identify, EndIdentify
  <2> QED
    BY <2>2 DEF Typed, Pasts
<1> QED
  BY <1>1, <1>2, <1>3, <1>4, <1>5, TwoPartsNext DEF StageTyped, DeskTyped, Typed

\* A tick that drains takes some messages, and each cue with a voice whose end is among
\* them is put to rest, or the end is on record as not heard.
LEMMA TickRecords ==
  ASSUME Typed, EventLoopDrains
  PROVE  /\ status' \subseteq status
         /\ \A c \in Cue :
              \/ cue'[c] = cue[c]
              \/ cue'[c] = Standby /\ \E m \in status : m.voice = cue[c].voice
         /\ \E x \in SUBSET Voice :
              /\ past' = [past EXCEPT !.unheard = @ \cup x]
              /\ \A c \in Cue, m \in status :
                   m.kind # "error" /\ m.voice = cue[c].voice
                     => m \in status' \/ cue'[c] = Standby \/ cue[c].voice \in x
<1>1. PICK drained \in SUBSET status :
        status' = status \ drained /\ (TickHears(drained) \/ TickGivesUp(drained))
  BY DEF EventLoopDrains
<1>2. /\ Ended(drained) \subseteq Voice
      /\ \A m \in drained : m.kind # "error" => m.voice \in Ended(drained)
      /\ \A v \in Ended(drained) : \E m \in status : m.voice = v
  BY DEF Ended, Typed, Messages
<1>3. CASE TickHears(drained)
  <2> DEFINE deaf == { c \in Cue : cue[c].state # "running" /\ cue[c].voice \in Ended(drained) }
             x == { cue[c].voice : c \in deaf }
  <2>1. /\ past' = [past EXCEPT !.unheard = @ \cup x]
        /\ \A c \in Cue : cue'[c] = IF cue[c].state = "running" /\ cue[c].voice \in Ended(drained)
                                     THEN Standby ELSE cue[c]
    BY <1>3 DEF TickHears
  <2>2. x \in SUBSET Voice
    BY <1>2
  <2>3. \A c \in Cue, m \in drained : m.kind # "error" /\ m.voice = cue[c].voice
           => cue'[c] = Standby \/ cue[c].voice \in x
    BY <1>2, <2>1
  <2> HIDE DEF x
  <2> QED
    BY <1>1, <1>2, <2>1, <2>2, <2>3
<1>4. CASE TickGivesUp(drained)
  <2> DEFINE deaf == { c \in Cue : cue[c].voice \in Ended(drained) }
             x == { cue[c].voice : c \in deaf }
  <2>1. past' = [past EXCEPT !.unheard = @ \cup x] /\ cue' = cue
    BY <1>4 DEF TickGivesUp
  <2>2. x \in SUBSET Voice
    BY <1>2
  <2>3. \A c \in Cue, m \in drained : m.kind # "error" /\ m.voice = cue[c].voice
           => cue[c].voice \in x
    BY <1>2
  <2> HIDE DEF x
  <2> QED
    BY <1>1, <2>1, <2>2, <2>3
<1> QED
  BY <1>1, <1>3, <1>4

\* The event loop: the messages drained, and a cue whose time is over.
LEMMA EventLoopTyped ==
  ASSUME Typed, EventLoopDrains \/ \E c \in Cue : TimeDone(c)
  PROVE  Typed'
<1>1. UNCHANGED <<slot, hand, mpv, sound, output, above, config, next, calls, trial>>
      /\ Texts' = Texts
  BY DEF EventLoopDrains, TimeDone, Texts, IsKind
<1>2. Standby \in Cues /\ \A c \in Cue : cue[c].voice \in Voice \cup {None}
  BY DEF Standby, Cues, Typed
<1>3. CASE EventLoopDrains
  <2>1. cue' \in [Cue -> Cues] /\ status' \in SUBSET Messages
    BY <1>2, <1>3 DEF EventLoopDrains, TickHears, TickGivesUp, Typed
  <2>2. past' \in Pasts(Texts)
    <3>1. PICK x \in SUBSET Voice : past' = [past EXCEPT !.unheard = @ \cup x]
      BY <1>3, TickRecords
    <3> QED
      BY <3>1 DEF Typed, Pasts
  <2> QED
    BY <1>1, <2>1, <2>2, TwoPartsNext DEF StageTyped, DeskTyped, Typed, above
<1>4. CASE \E c \in Cue : TimeDone(c)
  <2>1. PICK c \in Cue : TimeDone(c)
    BY <1>4
  <2>2. cue' \in [Cue -> Cues] /\ status' = status
    BY <1>2, <2>1 DEF TimeDone, Set, Typed
  <2>3. past' \in Pasts(Texts)
    <3> DEFINE x == past.adrift \cup ({cue[c].voice} \ {None})
               y == IF IsKind(c, "text") /\ Shown(c) THEN past.left \cup {c} ELSE past.left
    <3>1. past' = [past EXCEPT !.adrift = x, !.left = y]
      BY <2>1 DEF TimeDone
    <3>2. x \in SUBSET Voice /\ y \in SUBSET (Texts \cup {"label"})
      BY <1>2 DEF Texts, Typed, Pasts
    <3> HIDE DEF x, y
    <3> QED
      BY <3>1, <3>2 DEF Typed, Pasts
  <2> QED
    BY <1>1, <2>2, <2>3, TwoPartsNext DEF StageTyped, DeskTyped, Typed, above
<1> QED
  BY <1>3, <1>4

\* The outputs made, left and retired, and a voice collected.
LEMMA OutputsTyped ==
  ASSUME Typed,
         \/ \E o \in Output : Built(o) \/ Unregister(o) \/ Retire(o)
         \/ \E extras \in SUBSET trial.extras : SyncOutputs(extras)
         \/ \E v \in Voice : Collect(v)
  PROVE  Typed'
<1>1. ASSUME NEW o \in Output, Built(o) PROVE Typed'
  <2>1. UNCHANGED <<cue, slot, hand, mpv, sound, label, config, status, next, calls, trial, past>>
        /\ Texts' = Texts
    BY <1>1 DEF Built, Texts, IsKind
  <2>2. output' \in [Output -> Presences]
    BY <1>1 DEF Built, Typed, Presences
  <2>3. overlay' \in [Output -> Layers(Texts)]
    <3>1. Dark \in Layers(Texts)
      BY DEF Dark, Layers, Surfaces
    <3> QED
      BY <1>1, <3>1 DEF Built, Typed
  <2> QED
    BY <2>1, <2>2, <2>3, TwoPartsNext DEF StageTyped, DeskTyped, Typed
<1>2. ASSUME NEW o \in Output, Unregister(o) PROVE Typed'
  <2>1. UNCHANGED <<cue, slot, hand, mpv, sound, above, config, status, next, calls, trial, past>>
        /\ Texts' = Texts
    BY <1>2 DEF Unregister, Texts, IsKind
  <2>2. output' \in [Output -> Presences]
    BY <1>2 DEF Unregister, Typed, Presences
  <2> QED
    BY <2>1, <2>2, TwoPartsNext DEF StageTyped, DeskTyped, Typed, above
<1>3. ASSUME NEW o \in Output, Retire(o) PROVE Typed'
  <2>1. UNCHANGED <<cue, hand, above, config, next, calls, trial, past>> /\ Texts' = Texts
    BY <1>3 DEF Retire, Texts, IsKind
  <2>2. output' \in [Output -> Presences]
    BY <1>3 DEF Retire, Typed, Presences
  <2>3. /\ slot' \in [Slot -> Contents] /\ mpv' \in [Slot -> Players]
        /\ \A s \in Slot : mpv'[s].at # "idle" => mpv'[s].file # None
        /\ sound' \in [Voice -> Sounds] /\ status' \in SUBSET Messages
    BY <1>3, HardUnloadTyped DEF Retire
  <2> QED
    BY <2>1, <2>2, <2>3, TwoPartsNext DEF StageTyped, DeskTyped, Typed, above
<1>4. ASSUME NEW extras \in SUBSET trial.extras, SyncOutputs(extras) PROVE Typed'
  <2>1. trial' = trial /\ calls' \in 0..trial'.calls /\ Texts' = Texts
        /\ UNCHANGED <<cue, slot, hand, mpv, sound, above, status, next>>
    BY <1>4, CallTyped DEF SyncOutputs, Texts, IsKind
  <2>2. config' \in SUBSET Extra
    BY <1>4, PlanIs DEF SyncOutputs
  <2>3. output' \in [Output -> Presences]
    BY <1>4 DEF SyncOutputs, Typed, Presences
  <2>4. past' \in Pasts(Texts)
    <3>1. Hidden(Extra \ extras) \in SUBSET Texts
      BY HiddenTyped
    <3> QED
      BY <1>4, <3>1 DEF SyncOutputs, Typed, Pasts
  <2> QED
    BY <2>1, <2>2, <2>3, <2>4, TwoPartsNext DEF StageTyped, DeskTyped, Typed, above
<1>5. ASSUME NEW v \in Voice, Collect(v) PROVE Typed'
  <2>1. UNCHANGED <<cue, slot, hand, mpv, output, above, config, status, next, calls, trial, past>>
        /\ Texts' = Texts
    BY <1>5 DEF Collect, Texts, IsKind
  <2>2. sound' \in [Voice -> Sounds]
    BY <1>5 DEF Collect, Typed, Sounds
  <2> QED
    BY <2>1, <2>2, TwoPartsNext DEF StageTyped, DeskTyped, Typed, above
<1> QED
  BY <1>1, <1>2, <1>3, <1>4, <1>5

---------------------------------------------------------------------------
\* The threads of a slot, and its player.
LEMMA SlotFacts ==
  ASSUME Typed, NEW s \in Slot
  PROVE  /\ slot[s] \in Contents /\ slot[s].voice \in Voice \cup {None} /\ slot[s].audio \in BOOLEAN
         /\ slot[s].reveal \in BOOLEAN /\ slot[s].preloaded \in BOOLEAN /\ slot[s].unload \in BOOLEAN
         /\ \A t \in Thread : /\ hand[s][t] \in Tasks /\ hand[s][t].voice \in Voice \cup {None}
                              /\ hand[s][t].audio \in BOOLEAN
         /\ mpv[s] \in Players /\ mpv[s].file \in Voice \cup {None} /\ mpv[s].events \in Seq(Events)
         /\ mpv[s].at # "idle" => mpv[s].file \in Voice
BY DEF Typed, Contents, Tasks, Players

\* A thread that takes or ends a task leaves the others as they are.
LEMMA OneHand ==
  ASSUME Typed, NEW s \in Slot, NEW t \in Thread, NEW x \in Tasks
  PROVE  /\ [hand EXCEPT ![s][t] = x] \in [Slot -> [Thread -> Tasks]]
         /\ \A r \in Slot, u \in Thread : [hand EXCEPT ![s][t] = x][r][u]
                                         = IF r = s /\ u = t THEN x ELSE hand[r][u]
<1>1. hand \in [Slot -> [Thread -> Tasks]]
  BY DEF Typed
<1>2. [hand[s] EXCEPT ![t] = x] \in [Thread -> Tasks]
  BY <1>1
<1>3. [hand EXCEPT ![s][t] = x] = [hand EXCEPT ![s] = [hand[s] EXCEPT ![t] = x]]
  BY <1>1
<1> QED
  BY <1>1, <1>2, <1>3

\* The render thread.
LEMMA RenderTyped ==
  ASSUME Typed, NEW s \in Slot, WatchdogReveals(s) \/ FadeLands(s) \/ Release(s)
  PROVE  Typed'
<1>1. UNCHANGED <<cue, mpv, sound, output, above, config, status, next, calls, trial, past>>
      /\ Texts' = Texts
  BY DEF WatchdogReveals, FadeLands, Release, Texts, IsKind
<1>2. slot' \in [Slot -> Contents]
  <2>1. /\ [slot[s] EXCEPT !.reveal = FALSE, !.deadline = FALSE, !.preloaded = FALSE] \in Contents
        /\ [slot[s] EXCEPT !.light = IF @ = "rising" THEN "lit" ELSE "dark"] \in Contents
        /\ [slot[s] EXCEPT !.unload = FALSE, !.voice = None] \in Contents
    BY SlotFacts DEF Contents
  <2>2. CASE WatchdogReveals(s)
    <3>1. slot' = [slot EXCEPT ![s] = [slot[s] EXCEPT !.reveal = FALSE, !.deadline = FALSE,
                                                      !.preloaded = FALSE]]
      BY <2>2 DEF WatchdogReveals, Taken, Typed
    <3> QED
      BY <2>1, <3>1 DEF Typed
  <2>3. CASE FadeLands(s)
    BY <2>1, <2>3 DEF FadeLands, Typed
  <2>4. CASE Release(s)
    <3>1. slot' = [slot EXCEPT ![s] = [slot[s] EXCEPT !.unload = FALSE, !.voice = None]]
      BY <2>4 DEF Release, Typed
    <3> QED
      BY <2>1, <3>1 DEF Typed
  <2> QED
    BY <2>2, <2>3, <2>4
<1>3. hand' \in [Slot -> [Thread -> Tasks]]
  <2>1. /\ RevealTask(s) \in Tasks
        /\ [Free EXCEPT !.do = "stop", !.voice = slot[s].voice] \in Tasks
    BY SlotFacts DEF RevealTask, Free, Tasks
  <2>2. \/ \E t \in Thread, x \in Tasks : hand' = [hand EXCEPT ![s][t] = x]
        \/ hand' = hand
    BY <2>1 DEF WatchdogReveals, FadeLands, Release, Thread
  <2>3. ASSUME NEW t \in Thread, NEW x \in Tasks, hand' = [hand EXCEPT ![s][t] = x]
        PROVE  hand' \in [Slot -> [Thread -> Tasks]]
    BY <2>3, OneHand
  <2> QED
    BY <2>2, <2>3 DEF Typed
<1> QED
  BY <1>1, <1>2, <1>3, TwoPartsNext DEF StageTyped, DeskTyped, Typed, above

\* The second half of what a thread does after the unlock.
LEMMA HandsTyped ==
  ASSUME Typed, NEW s \in Slot, NEW t \in Thread,
         HandStops(s, t) \/ HandReveals(s, t) \/ HandUnloads(s, t)
  PROVE  Typed'
<1>1. UNCHANGED <<cue, output, above, config, next, calls, trial>> /\ Texts' = Texts
  BY DEF HandStops, HandReveals, HandUnloads, Texts, IsKind
<1>2. slot' \in [Slot -> Contents]
  <2>1. [slot[s] EXCEPT !.light = "rising"] \in Contents
    BY SlotFacts DEF Contents
  <2> QED
    BY <2>1 DEF HandStops, HandReveals, HandUnloads, Typed
<1>3. hand' \in [Slot -> [Thread -> Tasks]]
  <2>1. Free \in Tasks
    BY DEF Free, Tasks
  <2>2. hand' = [hand EXCEPT ![s][t] = Free]
    BY DEF HandStops, HandReveals, HandUnloads
  <2> QED
    BY <2>1, <2>2, OneHand
<1>4. mpv' \in [Slot -> Players] /\ \A x \in Slot : mpv'[x].at # "idle" => mpv'[x].file # None
  <2> DEFINE p == [mpv[s] EXCEPT !.file = None, !.at = "idle"]
             q == [mpv[s] EXCEPT !.paused = FALSE]
  <2>1. p \in Players /\ p.at = "idle" /\ q \in Players /\ q.at = mpv[s].at /\ q.file = mpv[s].file
    BY SlotFacts DEF Players
  <2>2. mpv' = [mpv EXCEPT ![s] = p] \/ mpv' = [mpv EXCEPT ![s] = q]
    BY DEF HandStops, HandReveals, HandUnloads, Stopped, Typed
  <2> HIDE DEF p, q
  <2> QED
    BY <2>1, <2>2 DEF Typed
<1>5. sound' \in [Voice -> Sounds]
  <2>1. /\ SoundOn(hand[s][t].voice, hand[s][t].audio) \in [Voice -> Sounds]
        /\ SoundOff(hand[s][t].voice, hand[s][t].audio) \in [Voice -> Sounds]
    BY SlotFacts, SoundTyped DEF Typed
  <2> QED
    BY <2>1 DEF HandStops, HandReveals, HandUnloads, Typed
<1>6. status' \in SUBSET Messages
  <2>1. Reports("completed", hand[s][t].voice) \in SUBSET Messages
    BY SlotFacts, ReportsTyped
  <2> QED
    BY <2>1 DEF HandStops, HandReveals, HandUnloads, Typed
<1>7. past' \in Pasts(Texts)
  <2>1. Cut(s, hand[s][t].voice) \in SUBSET Voice
    BY SlotFacts DEF Cut
  <2>2. past.raised \cup ({hand[s][t].voice, slot[s].voice} \ {None}) \in SUBSET Voice
    BY SlotFacts DEF Typed, Pasts
  <2>3. \/ past' = [past EXCEPT !.cut = @ \cup Cut(s, hand[s][t].voice)]
        \/ \E x \in SUBSET Voice : past' = [past EXCEPT !.raised = x]
    <3>1. CASE HandReveals(s, t)
      <4>1. past.raised \in SUBSET Voice
        BY DEF Typed, Pasts
      <4> QED
        BY <2>2, <3>1, <4>1 DEF HandReveals
    <3>2. CASE HandStops(s, t) \/ HandUnloads(s, t)
      BY <3>2 DEF HandStops, HandUnloads
    <3> QED
      BY <3>1, <3>2
  <2> QED
    BY <2>1, <2>3 DEF Typed, Pasts
<1> QED
  BY <1>1, <1>2, <1>3, <1>4, <1>5, <1>6, <1>7, TwoPartsNext DEF StageTyped, DeskTyped, Typed, above

\* The events of the players.
LEMMA EventsTyped ==
  ASSUME Typed, NEW s \in Slot, FileLoaded(s) \/ FirstFrame(s) \/ FileEnds(s) \/ SliceEnds(s)
  PROVE  Typed'
<1>1. UNCHANGED <<cue, output, above, config, next, calls, trial>> /\ Texts' = Texts
  BY DEF FileLoaded, FirstFrame, FileEnds, SliceEnds, Texts, IsKind
<1>2. slot' \in [Slot -> Contents]
  <2> DEFINE b == slot[s].deadline \/ (slot[s].voice # None /\ MayReveal(s))
  <2>0. b \in BOOLEAN
    BY SlotFacts DEF MayReveal, Contents
  <2> HIDE DEF b
  <2>1. /\ [slot[s] EXCEPT !.reveal = FALSE, !.deadline = FALSE, !.preloaded = FALSE] \in Contents
        /\ [slot[s] EXCEPT !.deadline = b] \in Contents /\ IdleSlot \in Contents
    BY <2>0, SlotFacts DEF Contents, IdleSlot
  <2>2. Taken(s) = [slot EXCEPT ![s] = [slot[s] EXCEPT !.reveal = FALSE, !.deadline = FALSE,
                                                      !.preloaded = FALSE]]
    BY DEF Taken, Typed
  <2>3. \/ slot' = [slot EXCEPT ![s] = [slot[s] EXCEPT !.deadline = b]]
        \/ slot' = Taken(s) \/ slot' = slot \/ slot' = [slot EXCEPT ![s] = IdleSlot]
    BY DEF FileLoaded, FirstFrame, FileEnds, SliceEnds, b
  <2> QED
    BY <2>1, <2>2, <2>3 DEF Typed
<1>3. hand' \in [Slot -> [Thread -> Tasks]]
  <2>1. /\ RevealTask(s) \in Tasks
        /\ [do |-> "unload", voice |-> slot[s].voice, audio |-> slot[s].audio] \in Tasks
    BY SlotFacts DEF RevealTask, Tasks
  <2> QED
    BY <2>1 DEF FileLoaded, FirstFrame, FileEnds, SliceEnds, Typed, Thread
<1>4. mpv' \in [Slot -> Players] /\ \A x \in Slot : mpv'[x].at # "idle" => mpv'[x].file # None
  <2>1. mpv' = mpv \/ (mpv[s].events # <<>> /\ Handled(s))
    BY DEF FileLoaded, FirstFrame, FileEnds, SliceEnds, Handles
  <2>2. mpv[s].events # <<>> => Tail(mpv[s].events) \in Seq(Events)
    BY SlotFacts
  <2> DEFINE p == [mpv[s] EXCEPT !.events = Tail(mpv[s].events)]
  <2>3. mpv[s].events # <<>> => p \in Players
    BY <2>2, SlotFacts DEF Players
  <2>4. p.at = mpv[s].at /\ p.file = mpv[s].file
    BY SlotFacts DEF Players
  <2>5. mpv' = mpv \/ (mpv[s].events # <<>> /\ mpv' = [mpv EXCEPT ![s] = p])
    BY <2>1 DEF Handled
  <2> HIDE DEF p
  <2> QED
    BY <2>3, <2>4, <2>5 DEF Typed
<1>5. sound' \in [Voice -> Sounds]
  <2>1. AudioToStop(s) \in BOOLEAN
    BY SlotFacts DEF AudioToStop
  <2>2. SoundOff(slot[s].voice, slot[s].voice # None /\ AudioToStop(s)) \in [Voice -> Sounds]
    BY <2>1, SoundTyped DEF Typed
  <2> QED
    BY <2>2 DEF FileLoaded, FirstFrame, FileEnds, SliceEnds, Typed
<1>6. status' \in SUBSET Messages
  <2>1. /\ Reports("completed", slot[s].voice) \in SUBSET Messages
        /\ Reports("error", slot[s].voice) \in SUBSET Messages
    BY SlotFacts, ReportsTyped
  <2> QED
    BY <2>1 DEF FileLoaded, FirstFrame, FileEnds, SliceEnds, Typed
<1>7. past' \in Pasts(Texts)
  <2>1. past.failed \in SUBSET Voice /\ past.failed \cup ({slot[s].voice} \ {None}) \in SUBSET Voice
    BY SlotFacts DEF Typed, Pasts
  <2>2. past' = past \/ \E x \in SUBSET Voice : past' = [past EXCEPT !.failed = x]
    BY <2>1 DEF FileLoaded, FirstFrame, FileEnds, SliceEnds
  <2> QED
    BY <2>2 DEF Typed, Pasts
<1> QED
  BY <1>1, <1>2, <1>3, <1>4, <1>5, <1>6, <1>7, TwoPartsNext DEF StageTyped, DeskTyped, Typed, above

\* The players themselves.
LEMMA PlayerTyped ==
  ASSUME Typed, NEW s \in Slot, Opens(s) \/ Fails(s) \/ Ends(s)
  PROVE  Typed'
<1>1. UNCHANGED <<cue, slot, hand, sound, output, above, config, status, next, calls, trial, past>>
      /\ Texts' = Texts
  BY DEF Opens, Fails, Ends, Texts, IsKind
<1>2. mpv[s].file \in Voice
  BY SlotFacts DEF Opens, Fails, Ends
<1>3. ASSUME NEW kinds \in Seq({"loaded", "restart", "eof", "error"})
      PROVE  /\ Emit(s, kinds) \in Players /\ Emit(s, kinds).at = mpv[s].at
             /\ Emit(s, kinds).file = mpv[s].file
  <2> DEFINE e == [i \in 1..Len(kinds) |-> [kind |-> kinds[i], file |-> mpv[s].file]]
  <2>1. \A i \in 1..Len(kinds) : kinds[i] \in {"loaded", "restart", "eof", "error"}
    OBVIOUS
  <2>2. e \in Seq(Events)
    BY <1>2, <2>1 DEF Events
  <2>3. mpv[s].events \o e \in Seq(Events)
    BY <2>2, SlotFacts
  <2>4. Emit(s, kinds) = [mpv[s] EXCEPT !.events = mpv[s].events \o e]
    BY DEF Emit
  <2> HIDE DEF e
  <2> QED
    BY <2>3, <2>4, SlotFacts DEF Players
<1>4. /\ <<"loaded", "restart">> \in Seq({"loaded", "restart", "eof", "error"})
      /\ <<"error">> \in Seq({"loaded", "restart", "eof", "error"})
      /\ <<"eof">> \in Seq({"loaded", "restart", "eof", "error"})
  OBVIOUS
<1>5. \E p \in Players : mpv' = [mpv EXCEPT ![s] = p] /\ (p.at # "idle" => p.file # None)
  <2>1. CASE Opens(s)
    <3> DEFINE q == Emit(s, <<"loaded", "restart">>)
               p == [q EXCEPT !.at = "open"]
    <3>1. mpv' = [mpv EXCEPT ![s] = p]
      BY <2>1 DEF Opens
    <3>2. q \in Players /\ q.file = mpv[s].file
      BY <1>3, <1>4
    <3> HIDE DEF q
    <3>3. p \in Players /\ p.file = mpv[s].file
      BY <3>2 DEF Players
    <3> QED
      BY <1>2, <3>1, <3>3, Constants
  <2>2. CASE Fails(s) \/ Ends(s)
    <3>1. PICK kinds \in {<<"error">>, <<"eof">>} :
            mpv' = [mpv EXCEPT ![s] = [Emit(s, kinds) EXCEPT !.at = "idle", !.file = None]]
      BY <2>2 DEF Fails, Ends
    <3> DEFINE q == Emit(s, kinds)
               p == [q EXCEPT !.at = "idle", !.file = None]
    <3>2. q \in Players
      BY <1>3, <1>4
    <3> HIDE DEF q
    <3>3. p \in Players /\ p.at = "idle"
      BY <3>2 DEF Players
    <3>4. mpv' = [mpv EXCEPT ![s] = p]
      BY <3>1 DEF q
    <3> QED
      BY <3>3, <3>4
  <2> QED
    BY <2>1, <2>2
<1>6. mpv' \in [Slot -> Players] /\ \A x \in Slot : mpv'[x].at # "idle" => mpv'[x].file # None
  <2>1. PICK p \in Players : mpv' = [mpv EXCEPT ![s] = p] /\ (p.at # "idle" => p.file # None)
    BY <1>5
  <2> QED
    BY <2>1 DEF Typed
<1> QED
  BY <1>1, <1>6, TwoPartsNext DEF StageTyped, DeskTyped, Typed, above

\* Typed is inductive.
LEMMA TypedStep == Typed /\ [Next]_vars => Typed'
<1> SUFFICES ASSUME Typed, [Next]_vars PROVE Typed'
  OBVIOUS
<1>1. CASE UNCHANGED vars
  <2>1. Texts' = Texts
    BY <1>1 DEF vars, Texts, IsKind
  <2> QED
    BY <1>1, <2>1, TwoPartsNext DEF StageTyped, DeskTyped, Typed, vars, above
<1>2. CASE ControlStep
  <2>1. ASSUME NEW c \in Cue,
               \/ Go(c) \/ Preload(c) \/ LoadCamera(c) \/ LoadText(c) \/ Stop(c) \/ Pause(c)
               \/ Resume(c) \/ Devamp(c) \/ FadeAtEnd(c) \/ PreWaitOver(c) \/ TimeDone(c)
        PROVE  Typed'
    BY <2>1, GoTyped, PreloadTyped, LoadTextTyped, StopTyped, PauseTyped, ResumeTyped,
       DevampTyped, EventLoopTyped
  <2>2. ASSUME NEW S \in {{o} : o \in Output} \cup {{o \in Output : output[o] = "live"}},
               ClearTestPattern(S)
        PROVE  Typed'
    <3>1. S \in SUBSET Output
      OBVIOUS
    <3> QED
      BY <2>2, <3>1, ClearTyped
  <2>3. CASE Panic \/ EventLoopDrains
    BY <2>3, PanicTyped, EventLoopTyped
  <2>4. CASE \E on \in BOOLEAN : SetOutputTimer(on)
    BY <2>4, TimerTyped
  <2>5. ASSUME NEW o \in Output,
               \/ TestPattern(o) \/ Identify(o) \/ EndIdentify(o) \/ Built(o) \/ Unregister(o)
               \/ Retire(o)
        PROVE  Typed'
    BY <2>5, PatternTyped, IdentifyTyped, OutputsTyped
  <2>6. CASE \/ \E extras \in SUBSET trial.extras : SyncOutputs(extras)
             \/ \E v \in Voice : Collect(v)
    BY <2>6, OutputsTyped
  <2> QED
    BY <1>2, <2>1, <2>2, <2>3, <2>4, <2>5, <2>6 DEF ControlStep
<1>3. ASSUME NEW s \in Slot, SlotStep(s) PROVE Typed'
  BY <1>3, RenderTyped, HandsTyped, EventsTyped, PlayerTyped DEF SlotStep
<1> QED
  BY <1>1, <1>2, <1>3 DEF Next

---------------------------------------------------------------------------
\* Most steps leave what is on the slots alone, and whose it is: they show, hide, pause, time
\* and configure.
Quiet ==
  /\ \A s \in Slot : /\ slot'[s].voice = slot[s].voice /\ slot'[s].audio = slot[s].audio
                     /\ slot'[s].preloaded = slot[s].preloaded
                     /\ slot'[s].unload = slot[s].unload
  /\ \A c \in Cue : /\ cue'[c].voice = cue[c].voice
                    /\ cue'[c].preloaded = cue[c].preloaded \/ cue[c].voice = None
  /\ \A s \in Slot, t \in Thread :
       hand'[s][t] = hand[s][t] \/ (hand'[s][t] = Free /\ hand[s][t].do # "unload")
  /\ \A v \in Voice : sound'[v] = "playing" => sound[v] = "playing"
  /\ \A o \in Output : /\ output[o] = "closing" => output'[o] = "closing"
                       /\ output'[o] \in {"none", "opening"} => output[o] \in {"none", "opening"}
  /\ status' = status /\ next <= next' /\ trial' = trial
  /\ past'.failed = past.failed /\ past'.raised = past.raised /\ past'.adrift = past.adrift
  /\ past'.unheard = past.unheard

\* Types that the steps below keep needing.
LEMMA Basics ==
  ASSUME Typed
  PROVE  /\ next \in Nat
         /\ \A c \in Cue : /\ cue[c] \in Cues /\ cue[c].voice \in Voice \cup {None}
                           /\ cue[c].voice \in Nat /\ cue[c].preloaded \in BOOLEAN
         /\ \A s \in Slot : /\ slot[s].voice \in Voice \cup {None} /\ slot[s].voice \in Nat
                            /\ slot[s].audio \in BOOLEAN /\ slot[s].preloaded \in BOOLEAN
                            /\ slot[s].unload \in BOOLEAN
         /\ \A s \in Slot, t \in Thread : /\ hand[s][t].voice \in Voice \cup {None}
                                          /\ hand[s][t].voice \in Nat /\ hand[s][t].audio \in BOOLEAN
         /\ \A m \in status : m.voice \in Voice /\ m.voice \in Nat
         /\ \A o \in Output : output[o] \in Presences
<1>1. Voice \subseteq Nat /\ None \in Nat
  BY Constants
<1>2. next \in Nat
  BY DEF Typed
<1>3. \A c \in Cue : /\ cue[c] \in Cues /\ cue[c].voice \in Voice \cup {None}
                     /\ cue[c].preloaded \in BOOLEAN
  BY DEF Typed, Cues
<1>4. \A m \in status : m.voice \in Voice
  BY DEF Typed, Messages
<1>5. \A o \in Output : output[o] \in Presences
  BY DEF Typed
<1> QED
  BY <1>1, <1>2, <1>3, <1>4, <1>5, SlotFacts

\* A Quiet step keeps every part of the picture's invariant.
LEMMA QuietStep ==
  ASSUME Typed, Typed', PictureInv, Quiet
  PROVE  PictureInv'
<1> USE DEF PictureInv, Quiet
<1>0. /\ next \in Nat /\ next' \in Nat /\ Texts' = Texts /\ None = 0 /\ Free.voice = None
      /\ Free.do = "nothing"
  BY Basics, Constants DEF Typed, Texts, IsKind, Free
<1>1. Numbered'
  <2>1. (\A c \in Cue : cue[c].voice < next)' /\ (\A s \in Slot : slot[s].voice < next)'
    BY <1>0, Basics DEF Numbered
  <2>2. (\A s \in Slot, t \in Thread : hand[s][t].voice < next)'
    <3>1. 1 <= next
      BY DEF Typed
    <3> QED
      BY <1>0, <3>1, Basics DEF Numbered
  <2>3. (\A m \in status : m.voice < next)'
    BY <1>0, Basics DEF Numbered
  <2> QED
    BY <2>1, <2>2, <2>3 DEF Numbered
<1>2. Single'
  <2>1. \A c \in Texts' : cue'[c].voice = None
    BY <1>0, Constants DEF Single
  <2>2. \A c, d \in Cue : cue'[c].voice = cue'[d].voice /\ cue'[c].voice # None => c = d
    BY DEF Single
  <2>3. \A s, r \in Slot : slot'[s].voice = slot'[r].voice /\ slot'[s].voice # None => s = r
    BY DEF Single
  <2> QED
    BY <2>1, <2>2, <2>3 DEF Single
<1>3. Settled'
  BY <1>0 DEF Settled
<1>4. Vacated'
  BY Constants DEF Vacated
<1>5. Disowned' /\ Hushed'
  BY DEF Disowned, Hushed
<1>6. HeldBack'
  <2> SUFFICES ASSUME NEW s \in Slot, NEW c \in Cue, slot'[s].preloaded, slot'[s].voice # None,
                      output'[OutputOf(s)] \in {"live", "dropped"}, cue'[c].voice = slot'[s].voice
               PROVE  cue'[c].preloaded
    BY DEF HeldBack, Registered
  <2>1. output[OutputOf(s)] \in {"live", "dropped", "none", "opening"}
    BY Basics, Constants DEF Presences
  <2>2. output[OutputOf(s)] \in {"live", "dropped"}
    BY <2>1 DEF Vacated
  <2> QED
    BY <2>2 DEF HeldBack, Registered
<1>7. RevealFits'
  BY <1>0 DEF RevealFits
<1>8. UnloadFits'
  <2> SUFFICES ASSUME NEW s \in Slot, NEW t \in Thread, hand'[s][t].do = "unload",
                      hand'[s][t].voice # None, sound'[hand'[s][t].voice] = "playing",
                      hand'[s][t].voice \notin past'.raised
               PROVE  hand'[s][t].audio
    BY DEF UnloadFits
  <2>1. hand'[s][t] = hand[s][t]
    BY <1>0
  <2>2. hand[s][t].voice \in Voice
    BY <2>1, Basics
  <2> QED
    BY <2>1, <2>2 DEF UnloadFits
<1>9. Accounted'
  <2> SUFFICES ASSUME NEW c \in Cue, cue'[c].voice # None
               PROVE  \/ \E s \in Slot : slot'[s].voice = cue'[c].voice
                      \/ \E m \in status' : m.voice = cue'[c].voice
                      \/ \E s \in Slot, t \in Thread :
                           hand'[s][t].do = "unload" /\ hand'[s][t].voice = cue'[c].voice
                      \/ cue'[c].voice \in past'.failed \cup past'.unheard
    BY DEF Accounted
  <2> QED
    BY <1>0 DEF Accounted
<1>10. PictureIsOwned'
  <2> SUFFICES ASSUME NEW s \in Slot, slot'[s].voice # None,
                      output'[OutputOf(s)] \in {"live", "dropped"}
               PROVE  \/ \E c \in Cue : cue'[c].voice = slot'[s].voice
                      \/ slot'[s].unload \/ slot'[s].voice \in past'.adrift
    BY DEF PictureIsOwned, Registered, Holder
  <2>1. output[OutputOf(s)] \in {"live", "dropped", "none", "opening"}
    BY Basics, Constants DEF Presences
  <2>2. Registered(OutputOf(s))
    BY <2>1 DEF Vacated, Registered
  <2> QED
    BY <2>2 DEF PictureIsOwned, Holder
<1>11. SoundHasPicture'
  <2> SUFFICES ASSUME NEW v \in Voice, sound'[v] = "playing"
               PROVE  \/ \E s \in Slot : slot'[s].voice = v /\ slot'[s].audio /\ ~slot'[s].preloaded
                      \/ \E s \in Slot, t \in Thread : hand'[s][t].do = "unload" /\ hand'[s][t].voice = v
                      \/ v \in past'.raised
    BY DEF SoundHasPicture
  <2> QED
    BY <1>0 DEF SoundHasPicture
<1> QED
  BY <1>1, <1>2, <1>3, <1>4, <1>5, <1>6, <1>7, <1>8, <1>9, <1>10, <1>11

\* The cues a GO has put to rest are Text Cues, which have no voice.
Spared(cues) ==
  \A d \in Cue : /\ cues[d].voice = cue[d].voice
                 /\ cues[d].preloaded = cue[d].preloaded \/ cue[d].voice = None

\* The cues that a GO stops for its own are Text Cues: no picture is taken from its cue.
LEMMA RestedSpared ==
  ASSUME Typed, PictureInv, NEW c \in Cue, NEW S \in StoppedByGo(c)
  PROVE  Rested(S) \in [Cue -> Cues] /\ Spared(Rested(S)) /\ Spared(cue) /\ S \subseteq Texts
<1>1. S \subseteq Texts
  BY DEF StoppedByGo
<1>2. \A d \in Texts : cue[d].voice = None
  BY DEF PictureInv, Single
<1>3. Standby.voice = None
  BY DEF Standby
<1> QED
  BY <1>1, <1>2, <1>3, RestedTyped DEF Rested, Spared

\* Where Quiet does not look.
LEMMA RefusedQuiet ==
  ASSUME Typed, NEW o \in Output, Refused(o)
  PROVE  \A p \in Output : /\ output[p] = "closing" => output'[p] = "closing"
                           /\ output'[p] \in {"none", "opening"} => output[p] \in {"none", "opening"}
BY DEF Refused, Typed

\* A text put up is Quiet.
LEMMA TextUpQuiet ==
  ASSUME Typed, NEW c \in Cue, NEW over, trial' = trial, hand' = hand, TextUp(c, over),
         \A d \in Cue : /\ cue'[d].voice = cue[d].voice
                        /\ cue'[d].preloaded = cue[d].preloaded \/ cue[d].voice = None
  PROVE  Quiet
<1>1. UNCHANGED <<slot, mpv, sound, status, next>> /\ next \in Nat
  BY Basics DEF TextUp
<1>2. past'.failed = past.failed /\ past'.raised = past.raised /\ past'.adrift = past.adrift
      /\ past'.unheard = past.unheard
  BY DEF TextUp, Typed, Pasts
<1>3. \A p \in Output : /\ output[p] = "closing" => output'[p] = "closing"
                        /\ output'[p] \in {"none", "opening"} => output[p] \in {"none", "opening"}
  BY PlanIs, RefusedQuiet DEF TextUp
<1> QED
  BY <1>1, <1>2, <1>3 DEF Quiet

\* So is the beginning of a pre-wait or of a Text Cue, whatever texts were put to rest.
LEMMA BeginsQuiet ==
  ASSUME Typed, PictureInv, NEW c \in Cue, NEW cues \in [Cue -> Cues], Spared(cues), NEW over,
         trial' = trial, hand' = hand,
         \/ WaitFirst(c, cues, over)
         \/ trial.plan[c].kind = "text" /\ StartText(c, cues, over)
  PROVE  Quiet
<1>0. next \in Nat /\ Playing(None).voice = None
  BY Basics DEF Playing
<1>1. CASE WaitFirst(c, cues, over)
  <2>1. cue' = [cues EXCEPT ![c] = [cues[c] EXCEPT !.state = "running", !.waits = TRUE]]
    BY <1>1 DEF WaitFirst
  <2>2. \A d \in Cue : cue'[d].voice = cues[d].voice /\ cue'[d].preloaded = cues[d].preloaded
    BY <2>1 DEF Cues
  <2>3. UNCHANGED <<slot, mpv, sound, output, status, next, past>>
    BY <1>1 DEF WaitFirst
  <2> QED
    BY <1>0, <2>2, <2>3 DEF Quiet, Spared
<1>2. CASE trial.plan[c].kind = "text" /\ StartText(c, cues, over)
  <2>1. c \in Texts /\ cue[c].voice = None
    BY <1>2 DEF Texts, IsKind, PictureInv, Single
  <2>2. \A d \in Cue : /\ cue'[d].voice = cue[d].voice
                       /\ cue'[d].preloaded = cue[d].preloaded \/ cue[d].voice = None
    BY <1>0, <1>2, <2>1 DEF StartText, Spared
  <2>3. TextUp(c, over)
    BY <1>2 DEF StartText
  <2> QED
    BY <1>0, <2>2, <2>3, TextUpQuiet
<1> QED
  BY <1>1, <1>2

\* A load that does not reach its output.
LEMMA OutputForQuiet ==
  ASSUME Typed, PictureInv, NEW c \in Cue, NEW preload \in BOOLEAN, NEW over, trial' = trial,
         hand' = hand, Start(c, preload, FALSE, over),
         \A d \in Cue : /\ cue'[d].voice = cue[d].voice
                        /\ cue'[d].preloaded = cue[d].preloaded \/ cue[d].voice = None
  PROVE  Quiet
<1>1. next \in Nat /\ next' = next + 1 /\ OutputFor(c, over)
  BY Basics DEF Start
<1>2. UNCHANGED <<slot, mpv, status, past>> /\ Refused(trial.plan[c].to)
  BY <1>1 DEF OutputFor
<1>3. \A v \in Voice : sound'[v] = "playing" => sound[v] = "playing"
  BY <1>1 DEF OutputFor, Submitted, Typed
<1>4. \A p \in Output : /\ output[p] = "closing" => output'[p] = "closing"
                        /\ output'[p] \in {"none", "opening"} => output[p] \in {"none", "opening"}
  BY <1>2, PlanIs, RefusedQuiet
<1> QED
  BY <1>1, <1>2, <1>3, <1>4 DEF Quiet

\* The calls that are Quiet.
LEMMA QuietCalls ==
  ASSUME Typed, PictureInv, NEW c \in Cue,
         \/ LoadText(c) \/ Pause(c) \/ Devamp(c) \/ FadeAtEnd(c)
         \/ Stop(c) /\ TextStop(c)
         \/ Resume(c) /\ IsKind(c, "text")
  PROVE  Quiet
<1>0. next \in Nat /\ cue \in [Cue -> Cues] /\ cue[c] \in Cues /\ slot \in [Slot -> Contents]
  BY Basics DEF Typed
<1>1. CASE LoadText(c)
  <2>1. trial' = trial /\ hand' = hand /\ IsKind(c, "text")
    BY <1>1 DEF LoadText, Call
  <2>2. \A d \in Cue : cue'[d].voice = cue[d].voice /\ cue'[d].preloaded = cue[d].preloaded
    <3> DEFINE w == IF cue[c].state = "running" THEN cue[c].waits ELSE trial.plan[c].waits
    <3>1. cue' = [cue EXCEPT ![c] = [cue[c] EXCEPT !.state = "paused", !.waits = w]]
      BY <1>1 DEF LoadText, Set
    <3> HIDE DEF w
    <3> QED
      BY <1>0, <3>1 DEF Cues
  <2>3. CASE UNCHANGED <<slot, mpv, sound, output, overlay, status, next, past>>
    BY <1>0, <2>1, <2>2, <2>3 DEF Quiet
  <2>4. CASE TextUp(c, overlay)
    BY <2>1, <2>2, <2>4, TextUpQuiet
  <2> QED
    BY <1>1, <2>3, <2>4 DEF LoadText
<1>2. CASE Pause(c)
  <2>1. trial' = trial /\ UNCHANGED <<slot, hand, output, status, next, past>>
    BY <1>2 DEF Pause, Call
  <2>2. \A d \in Cue : cue'[d].voice = cue[d].voice /\ cue'[d].preloaded = cue[d].preloaded
    BY <1>0, <1>2 DEF Pause, Set, Cues
  <2>3. \A v \in Voice : sound'[v] = "playing" => sound[v] = "playing"
    BY <1>2 DEF Pause, PauseVideo, PauseStill, SoundHeld, Typed
  <2> QED
    BY <1>0, <2>1, <2>2, <2>3 DEF Quiet
<1>3. CASE Devamp(c) \/ FadeAtEnd(c)
  <2>1. trial' = trial /\ UNCHANGED <<cue, hand, mpv, sound, output, status, next, past>>
    BY <1>3 DEF Devamp, FadeAtEnd, Call
  <2>2. \A s \in Slot : /\ slot'[s].voice = slot[s].voice /\ slot'[s].audio = slot[s].audio
                     /\ slot'[s].preloaded = slot[s].preloaded
                     /\ slot'[s].unload = slot[s].unload
    BY <1>0, <1>3 DEF Devamp, FadeAtEnd, Contents
  <2> QED
    BY <1>0, <2>1, <2>2 DEF Quiet
<1>4. CASE Stop(c) /\ TextStop(c)
  <2>1. trial' = trial /\ UNCHANGED <<slot, hand, mpv, sound, output, status, next>>
    BY <1>4 DEF Stop, Call, TextStop
  <2>2. c \in Texts /\ cue[c].voice = None
    BY <1>4 DEF TextStop, Texts, IsKind, PictureInv, Single
  <2>3. \A d \in Cue : /\ cue'[d].voice = cue[d].voice
                       /\ cue'[d].preloaded = cue[d].preloaded \/ cue[d].voice = None
    BY <1>0, <1>4, <2>2 DEF TextStop, Set, Standby
  <2>4. past'.failed = past.failed /\ past'.raised = past.raised /\ past'.adrift = past.adrift
        /\ past'.unheard = past.unheard
    BY <1>4 DEF TextStop, Typed, Pasts
  <2> QED
    BY <1>0, <2>1, <2>3, <2>4 DEF Quiet
<1>5. CASE Resume(c) /\ IsKind(c, "text")
  <2>1. trial' = trial /\ UNCHANGED <<hand, output, status, next>>
    BY <1>5 DEF Resume, Call
  <2>2. UNCHANGED <<slot, mpv, sound>>
    BY <1>5 DEF Resume, ResumeVideo, ResumeImage, ResumeText, IsKind
  <2>3. c \in Texts /\ cue[c].voice = None
    BY <1>5 DEF Texts, PictureInv, Single
  <2>4. \A d \in Cue : /\ cue'[d].voice = cue[d].voice
                       /\ cue'[d].preloaded = cue[d].preloaded \/ cue[d].voice = None
    BY <1>0, <1>5, <2>3 DEF Resume, Set, Cues
  <2>5. past'.failed = past.failed /\ past'.raised = past.raised /\ past'.adrift = past.adrift
        /\ past'.unheard = past.unheard
    BY <1>5 DEF Resume, Typed, Pasts
  <2> QED
    BY <1>0, <2>1, <2>2, <2>4, <2>5 DEF Quiet
<1> QED
  BY <1>1, <1>2, <1>3, <1>4, <1>5

\* What is only done to outputs and overlays is Quiet.
LEMMA QuietOverlays ==
  ASSUME Typed,
         \/ \E S \in SUBSET Output : ClearTestPattern(S)
         \/ \E on \in BOOLEAN : SetOutputTimer(on)
         \/ \E o \in Output : Identify(o) \/ EndIdentify(o) \/ Built(o) \/ Unregister(o)
         \/ \E extras \in SUBSET trial.extras : SyncOutputs(extras)
         \/ \E v \in Voice : Collect(v)
  PROVE  Quiet
<1>0. next \in Nat
  BY Basics
<1>1. /\ trial' = trial /\ UNCHANGED <<cue, slot, hand, status, next>>
      /\ past'.failed = past.failed /\ past'.raised = past.raised /\ past'.adrift = past.adrift
      /\ past'.unheard = past.unheard
  <2>1. CASE \E S \in SUBSET Output : ClearTestPattern(S)
    BY <2>1 DEF ClearTestPattern, Call, Typed, Pasts
  <2>2. CASE \E on \in BOOLEAN : SetOutputTimer(on)
    BY <2>2 DEF SetOutputTimer
  <2>3. CASE \E o \in Output : Identify(o) \/ EndIdentify(o)
    BY <2>3 DEF Identify, EndIdentify, Call, Typed, Pasts
  <2>4. CASE \E o \in Output : Built(o) \/ Unregister(o)
    BY <2>4 DEF Built, Unregister
  <2>5. CASE \E extras \in SUBSET trial.extras : SyncOutputs(extras)
    BY <2>5 DEF SyncOutputs, Call, Typed, Pasts
  <2>6. CASE \E v \in Voice : Collect(v)
    BY <2>6 DEF Collect
  <2> QED
    BY <2>1, <2>2, <2>3, <2>4, <2>5, <2>6
<1>2. \A v \in Voice : sound'[v] = "playing" => sound[v] = "playing"
  BY DEF ClearTestPattern, SetOutputTimer, Identify, EndIdentify, Built, Unregister, SyncOutputs,
         Collect, Typed
<1>3. \A p \in Output : /\ output[p] = "closing" => output'[p] = "closing"
                        /\ output'[p] \in {"none", "opening"} => output[p] \in {"none", "opening"}
  <2>1. CASE \E o \in Output : Identify(o) \/ EndIdentify(o)
    BY <2>1, RefusedQuiet DEF Identify, EndIdentify
  <2>2. CASE \E o \in Output : Built(o) \/ Unregister(o)
    BY <2>2 DEF Built, Unregister, Typed
  <2>3. CASE \E extras \in SUBSET trial.extras : SyncOutputs(extras)
    BY <2>3 DEF SyncOutputs, Typed
  <2>4. CASE \/ \E S \in SUBSET Output : ClearTestPattern(S)
             \/ \E on \in BOOLEAN : SetOutputTimer(on)
             \/ \E v \in Voice : Collect(v)
    BY <2>4 DEF ClearTestPattern, SetOutputTimer, Collect
  <2> QED
    BY <2>1, <2>2, <2>3, <2>4
<1> QED
  BY <1>0, <1>1, <1>2, <1>3 DEF Quiet

\* What a player does by itself is Quiet.
LEMMA QuietSlots ==
  ASSUME Typed, NEW s \in Slot,
         \/ FadeLands(s) \/ FileLoaded(s) \/ Opens(s) \/ Fails(s) \/ Ends(s)
         \/ \E t \in Thread : HandStops(s, t)
  PROVE  Quiet
<1>0. next \in Nat /\ slot \in [Slot -> Contents]
  BY Basics DEF Typed
<1>1. UNCHANGED <<cue, sound, output, status, next, trial>>
  BY DEF FadeLands, FileLoaded, Opens, Fails, Ends, HandStops
<1>2. \A r \in Slot : /\ slot'[r].voice = slot[r].voice /\ slot'[r].audio = slot[r].audio
                     /\ slot'[r].preloaded = slot[r].preloaded
                     /\ slot'[r].unload = slot[r].unload
  BY <1>0 DEF FadeLands, FileLoaded, Opens, Fails, Ends, HandStops, Contents
<1>3. \A r \in Slot, u \in Thread :
       hand'[r][u] = hand[r][u] \/ (hand'[r][u] = Free /\ hand[r][u].do # "unload")
  <2>1. CASE \E t \in Thread : HandStops(s, t)
    <3>1. PICK t \in Thread : HandStops(s, t)
      BY <2>1
    <3>2. Free \in Tasks /\ hand' = [hand EXCEPT ![s][t] = Free] /\ hand[s][t].do = "stop"
      BY <3>1 DEF HandStops, Free, Tasks
    <3>3. \A r \in Slot, u \in Thread : hand'[r][u] = IF r = s /\ u = t THEN Free ELSE hand[r][u]
      BY <3>2, OneHand
    <3> QED
      BY <3>2, <3>3
  <2>2. CASE FadeLands(s) \/ FileLoaded(s) \/ Opens(s) \/ Fails(s) \/ Ends(s)
    BY <2>2 DEF FadeLands, FileLoaded, Opens, Fails, Ends
  <2> QED
    BY <2>1, <2>2
<1>4. past'.failed = past.failed /\ past'.raised = past.raised /\ past'.adrift = past.adrift
      /\ past'.unheard = past.unheard
  BY DEF FadeLands, FileLoaded, Opens, Fails, Ends, HandStops, Typed, Pasts
<1> QED
  BY <1>0, <1>1, <1>2, <1>3, <1>4 DEF Quiet

---------------------------------------------------------------------------
\* A load that reaches its output: a new voice, on one slot, of one cue.
LEMMA LoadStep ==
  ASSUME Typed, Typed', PictureInv, NEW c \in Cue, trial.plan[c].kind # "text",
         NEW preload \in BOOLEAN, NEW over, next <= LastVoice, next' = next + 1,
         trial' = trial, hand' = hand, ShowContent(c, preload, over),
         cue'[c].voice = next, cue'[c].preloaded = preload,
         \A d \in Cue \ {c} : /\ cue'[d].voice = cue[d].voice
                              /\ cue'[d].preloaded = cue[d].preloaded \/ cue[d].voice = None
  PROVE  PictureInv'
<1> USE DEF PictureInv
<1>1. PICK s \in Slot, r \in Contents : Loads(c, preload, over, s, r)
  BY ShowContentIs
<1>2. /\ next \in Voice /\ next \in Nat /\ None = 0 /\ next # None /\ Texts' = Texts
      /\ Texts \subseteq Cue /\ c \notin Texts
  BY <1>1, Basics, Constants DEF Loads, Texts, IsKind
<1> DEFINE old == slot[s].voice
<1>3. /\ \A x \in Slot : slot'[x] = IF x = s THEN r ELSE slot[x]
      /\ r.voice = next /\ r.unload = FALSE /\ (r.preloaded => preload)
      /\ old \in Voice \cup {None} /\ old < next
  BY <1>1, Basics DEF Loads, Typed, Numbered
<1>4. \A v \in Voice : sound'[v] = "playing" =>
        v # next /\ sound[v] = "playing" /\ ~(v = old /\ slot[s].audio)
  <2>1. sound' = Submitted(c, SoundOff(old, slot[s].audio /\ old # None))
    BY <1>1 DEF Loads
  <2>2. SoundOff(old, slot[s].audio /\ old # None) \in [Voice -> Sounds]
    BY SoundTyped, Basics DEF Typed
  <2>3. \A v \in Voice : sound'[v] = "playing" =>
          v # next /\ SoundOff(old, slot[s].audio /\ old # None)[v] = "playing"
    BY <1>2, <2>1, <2>2 DEF Submitted
  <2>4. \A v \in Voice : SoundOff(old, slot[s].audio /\ old # None)[v] = "playing" =>
          sound[v] = "playing" /\ ~(v = old /\ slot[s].audio)
    BY <1>2, Constants DEF SoundOff, Typed
  <2> QED
    BY <2>3, <2>4
<1>5. /\ status \subseteq status'
      /\ \A m \in status' : m \in status \/ (m.voice = old /\ old # None /\ m.kind = "withdrawn")
      /\ old # None => \E m \in status' : m.voice = old
  <2>1. status' = status \cup (IF old = None THEN {} ELSE {[kind |-> "withdrawn", voice |-> old]})
    BY <1>1 DEF Loads, Withdrawn, Reports
  <2> HIDE DEF old
  <2>2. CASE old = None
    BY <2>1, <2>2
  <2>3. CASE old # None
    <3> DEFINE told == [kind |-> "withdrawn", voice |-> old]
    <3>1. status' = status \cup {told} /\ told.voice = old /\ told.kind = "withdrawn"
      BY <2>1, <2>3
    <3> HIDE DEF told
    <3> QED
      BY <2>3, <3>1
  <2> QED
    BY <2>2, <2>3
<1>6. /\ past'.failed = past.failed /\ past'.raised = past.raised /\ past'.unheard = past.unheard
      /\ past'.adrift = past.adrift \cup ({cue[c].voice} \ {None})
  BY <1>1 DEF Loads, Typed, Pasts
<1>7. output' = output /\ output[OutputOf(s)] = "live"
  BY <1>1 DEF Loads
<1> HIDE DEF old
<1>8. old = slot[s].voice
  BY DEF old
<1>9. Numbered'
  <2>1. \A d \in Cue : cue'[d].voice < next'
    BY <1>2, Basics DEF Numbered
  <2>2. \A x \in Slot : slot'[x].voice < next'
    BY <1>2, <1>3, Basics DEF Numbered
  <2>3. \A x \in Slot, t \in Thread : hand'[x][t].voice < next'
    BY <1>2, Basics DEF Numbered
  <2>4. \A m \in status' : m.voice < next'
    BY <1>2, <1>3, <1>5, Basics DEF Numbered
  <2> QED
    BY <2>1, <2>2, <2>3, <2>4 DEF Numbered
<1>10. Single'
  <2>1. \A d \in Cue \ {c} : cue'[d].voice # next
    BY <1>2, Basics DEF Numbered
  <2>2. \A d, e \in Cue : cue'[d].voice = cue'[e].voice /\ cue'[d].voice # None => d = e
    BY <2>1 DEF Single
  <2>3. \A x \in Slot : slot[x].voice # next
    BY <1>2, Basics DEF Numbered
  <2>4. \A x, y \in Slot : slot'[x].voice = slot'[y].voice /\ slot'[x].voice # None => x = y
    BY <1>3, <2>3 DEF Single
  <2>5. \A d \in Texts' : cue'[d].voice = None
    BY <1>2 DEF Single
  <2> QED
    BY <2>2, <2>4, <2>5 DEF Single
<1>11. Settled'
  <2>1. \A m \in status', x \in Slot : slot'[x].voice # m.voice
    <3>1. ASSUME NEW m \in status', NEW x \in Slot, slot'[x].voice = m.voice PROVE FALSE
      <4>1. CASE x = s
        <5>1. m.voice = next
          BY <1>3, <3>1, <4>1
        <5>2. m.voice < next
          BY <1>2, <1>3, <1>5, Basics DEF Numbered
        <5> QED
          BY <1>2, <5>1, <5>2
      <4>2. CASE x # s
        <5>1. slot[x].voice = m.voice
          BY <1>3, <3>1, <4>2
        <5> QED
          BY <1>5, <1>8, <4>2, <5>1 DEF Settled, Single
      <4> QED
        BY <4>1, <4>2
    <3> QED
      BY <3>1
  <2>2. \A x, y \in Slot, t \in Thread :
       hand'[y][t].do = "unload" /\ slot'[x].voice # None => slot'[x].voice # hand'[y][t].voice
    <3>1. \A y \in Slot, t \in Thread : hand[y][t].voice # next
      BY <1>2, Basics DEF Numbered
    <3> QED
      BY <1>3, <3>1 DEF Settled
  <2>3. \A m \in status' : m.kind = "error" => m.voice \in past'.failed
    BY <1>5, <1>6 DEF Settled
  <2> QED
    BY <2>1, <2>2, <2>3 DEF Settled
<1>12. Vacated'
  BY <1>3, <1>7 DEF Vacated
<1>13. Disowned'
  <2> SUFFICES ASSUME NEW x \in Slot, NEW d \in Cue, slot'[x].unload, slot'[x].voice # None,
                      cue'[d].voice = slot'[x].voice
               PROVE  FALSE
    BY DEF Disowned
  <2>1. x # s /\ slot'[x] = slot[x]
    BY <1>3
  <2>2. slot[x].voice # next
    BY <1>2, Basics DEF Numbered
  <2> QED
    BY <2>1, <2>2 DEF Disowned
<1>14. HeldBack'
  <2> SUFFICES ASSUME NEW x \in Slot, NEW d \in Cue, slot'[x].preloaded, slot'[x].voice # None,
                      output'[OutputOf(x)] \in {"live", "dropped"}, cue'[d].voice = slot'[x].voice
               PROVE  cue'[d].preloaded
    BY DEF HeldBack, Registered
  <2>1. CASE x = s
    <3>1. d = c
      BY <1>2, <1>3, <2>1, Basics DEF Numbered
    <3> QED
      BY <1>3, <2>1, <3>1
  <2>2. CASE x # s
    <3>1. slot'[x] = slot[x] /\ slot[x].voice # next
      BY <1>2, <1>3, <2>2, Basics DEF Numbered
    <3> QED
      BY <1>7, <3>1 DEF HeldBack, Registered
  <2> QED
    BY <2>1, <2>2
<1>15. RevealFits'
  <2> SUFFICES ASSUME NEW x \in Slot, NEW t \in Thread, hand[x][t].do = "reveal", hand[x][t].audio,
                      hand[x][t].voice # None, slot'[x].voice = hand[x][t].voice, ~slot'[x].unload
               PROVE  slot'[x].audio /\ ~slot'[x].preloaded
    BY DEF RevealFits
  <2>1. hand[x][t].voice # next
    BY <1>2, Basics DEF Numbered
  <2>2. slot'[x] = slot[x]
    BY <1>3, <2>1
  <2> QED
    BY <2>2 DEF RevealFits
<1>16. UnloadFits'
  <2> SUFFICES ASSUME NEW x \in Slot, NEW t \in Thread, hand[x][t].do = "unload",
                      hand[x][t].voice # None, sound'[hand[x][t].voice] = "playing",
                      hand[x][t].voice \notin past.raised
               PROVE  hand[x][t].audio
    BY <1>6 DEF UnloadFits
  <2>1. hand[x][t].voice \in Voice
    BY Basics
  <2> QED
    BY <1>4, <2>1 DEF UnloadFits
<1>17. Accounted'
  <2> SUFFICES ASSUME NEW d \in Cue, cue'[d].voice # None
               PROVE  \/ \E x \in Slot : slot'[x].voice = cue'[d].voice
                      \/ \E m \in status' : m.voice = cue'[d].voice
                      \/ \E x \in Slot, t \in Thread :
                           hand[x][t].do = "unload" /\ hand[x][t].voice = cue'[d].voice
                      \/ cue'[d].voice \in past'.failed \cup past'.unheard
    BY DEF Accounted
  <2>1. CASE d = c
    BY <1>3, <2>1
  <2>2. CASE d # c
    <3>1. cue'[d].voice = cue[d].voice /\ cue[d].voice # None
      BY <2>2
    <3>2. CASE \E x \in Slot : slot[x].voice = cue[d].voice
      BY <1>3, <1>5, <1>8, <3>1, <3>2
    <3>3. CASE ~\E x \in Slot : slot[x].voice = cue[d].voice
      BY <1>5, <1>6, <3>1, <3>3 DEF Accounted
    <3> QED
      BY <3>2, <3>3
  <2> QED
    BY <2>1, <2>2
<1>18. PictureIsOwned'
  <2> SUFFICES ASSUME NEW x \in Slot, slot'[x].voice # None,
                      output[OutputOf(x)] \in {"live", "dropped"}
               PROVE  \/ \E d \in Cue : cue'[d].voice = slot'[x].voice
                      \/ slot'[x].unload \/ slot'[x].voice \in past'.adrift
    BY <1>7 DEF PictureIsOwned, Registered, Holder
  <2>1. CASE x = s
    BY <1>3, <2>1
  <2>2. CASE x # s
    <3>1. slot'[x] = slot[x]
      BY <1>3, <2>2
    <3>2. \/ \E d \in Cue : cue[d].voice = slot[x].voice
          \/ slot[x].unload \/ slot[x].voice \in past.adrift
      BY <3>1 DEF PictureIsOwned, Registered, Holder
    <3> QED
      BY <1>6, <3>1, <3>2
  <2> QED
    BY <2>1, <2>2
<1>19. SoundHasPicture'
  <2> SUFFICES ASSUME NEW v \in Voice, sound'[v] = "playing"
               PROVE  \/ \E x \in Slot : slot'[x].voice = v /\ slot'[x].audio /\ ~slot'[x].preloaded
                      \/ \E x \in Slot, t \in Thread : hand[x][t].do = "unload" /\ hand[x][t].voice = v
                      \/ v \in past'.raised
    BY DEF SoundHasPicture
  <2>1. sound[v] = "playing" /\ ~(v = old /\ slot[s].audio)
    BY <1>4
  <2> QED
    BY <1>3, <1>6, <1>8, <2>1 DEF SoundHasPicture
<1>20. Hushed'
  BY <1>3 DEF Hushed
<1> QED
  BY <1>20, <1>9, <1>10, <1>11, <1>12, <1>13, <1>14, <1>15, <1>16, <1>17, <1>18, <1>19

\* What was preloaded or paused is shown again: what was held back with it is not any more.
LEMMA ShowAgainStep ==
  ASSUME Typed, Typed', PictureInv, NEW c \in Cue, ShowAgain(c),
         cue'[c].voice = cue[c].voice,
         \A d \in Cue \ {c} : /\ cue'[d].voice = cue[d].voice
                              /\ cue'[d].preloaded = cue[d].preloaded \/ cue[d].voice = None,
         UNCHANGED <<hand, output, status, next, trial>>,
         past'.failed = past.failed, past'.raised = past.raised, past'.adrift = past.adrift,
         past'.unheard = past.unheard
  PROVE  PictureInv'
<1> USE DEF PictureInv
<1> DEFINE v == cue[c].voice
           S == SlotsOf(v)
           waiting == { s \in S : cue[c].preloaded /\ slot[s].preloaded }
           audio == \E s \in S : slot[s].audio
<1>1. /\ slot' = [s \in Slot |->
                IF s \in waiting
                THEN [slot[s] EXCEPT !.reveal = FALSE, !.preloaded = FALSE, !.light = "rising"]
                ELSE slot[s]]
      /\ sound' = SoundOn(v, audio) \/ sound' = sound
  BY DEF ShowAgain
<1>2. \A s \in Slot : /\ slot'[s].voice = slot[s].voice /\ slot'[s].audio = slot[s].audio
                      /\ slot'[s].unload = slot[s].unload
                      /\ slot'[s].preloaded = (slot[s].preloaded /\ s \notin waiting)
  <2> HIDE DEF waiting
  <2>1. \A s \in Slot : slot[s] \in Contents
    BY DEF Typed
  <2> QED
    BY <1>1, <2>1 DEF Contents
<1>3. \A s \in Slot : s \in S <=> v # None /\ slot[s].voice = v /\ Registered(OutputOf(s))
  BY DEF SlotsOf
<1>4. \A s \in S : s \in Slot /\ (slot[s].preloaded => s \in waiting)
  <2>1. \A s \in S : s \in Slot
    BY DEF SlotsOf
  <2>2. \A s \in S : slot[s].preloaded => cue[c].preloaded
    BY <1>3, <2>1 DEF HeldBack
  <2> QED
    BY <2>1, <2>2
<1>5. \A u \in Voice : sound'[u] = "playing" => sound[u] = "playing" \/ (u = v /\ audio)
  BY <1>1 DEF SoundOn, Typed
<1>6. audio => \E s \in S : slot[s].audio
  OBVIOUS
<1>7. v = cue[c].voice /\ Texts' = Texts /\ Texts \subseteq Cue
  BY Constants DEF Texts, IsKind
<1>8. \A s \in waiting : s \in S
  OBVIOUS
<1> HIDE DEF v, S, waiting, audio
<1>9. \A d \in Cue : cue'[d].voice = cue[d].voice
  OBVIOUS
<1>10. Numbered'
  BY <1>2, <1>9 DEF Numbered
<1>11. Single'
  <2>1. \A d \in Texts' : cue'[d].voice = None
    BY <1>7, <1>9 DEF Single
  <2>2. \A d, e \in Cue : cue'[d].voice = cue'[e].voice /\ cue'[d].voice # None => d = e
    BY <1>9 DEF Single
  <2>3. \A s, r \in Slot : slot'[s].voice = slot'[r].voice /\ slot'[s].voice # None => s = r
    BY <1>2 DEF Single
  <2> QED
    BY <2>1, <2>2, <2>3 DEF Single
<1>12. Settled'
  BY <1>2 DEF Settled
<1>13. Vacated' /\ Disowned' /\ Hushed'
  BY <1>2, <1>9 DEF Vacated, Disowned, Hushed
<1>14. HeldBack'
  <2> SUFFICES ASSUME NEW s \in Slot, NEW d \in Cue, slot'[s].preloaded, slot'[s].voice # None,
                      Registered(OutputOf(s)), cue'[d].voice = slot'[s].voice
               PROVE  cue'[d].preloaded
    BY DEF HeldBack, Registered
  <2>1. CASE d = c
    <3>1. slot[s].preloaded /\ s \notin waiting /\ slot[s].voice = v /\ v # None
      BY <1>2, <1>7, <2>1
    <3>2. s \in S
      BY <1>3, <3>1
    <3>3. s \in waiting
      BY <1>4, <3>1, <3>2, Zenon
    <3> QED
      BY <3>1, <3>3
  <2>2. CASE d # c
    <3>1. /\ cue'[d].voice = cue[d].voice
          /\ cue'[d].preloaded = cue[d].preloaded \/ cue[d].voice = None
      BY <2>2
    <3>2. slot[s].preloaded /\ slot[s].voice # None /\ cue[d].voice = slot[s].voice
      BY <1>2, <3>1
    <3>3. cue[d].preloaded
      BY <3>2 DEF HeldBack
    <3> QED
      BY <3>1, <3>2, <3>3
  <2> QED
    BY <2>1, <2>2
<1>15. RevealFits'
  BY <1>2 DEF RevealFits
<1>16. UnloadFits'
  <2> SUFFICES ASSUME NEW s \in Slot, NEW t \in Thread, hand[s][t].do = "unload",
                      hand[s][t].voice # None, sound'[hand[s][t].voice] = "playing",
                      hand[s][t].voice \notin past.raised
               PROVE  hand[s][t].audio
    BY DEF UnloadFits
  <2>1. hand[s][t].voice \in Voice
    BY Basics
  <2>2. ~(hand[s][t].voice = v /\ audio)
    BY <1>3, <1>4, <1>6 DEF Settled
  <2> QED
    BY <1>5, <2>1, <2>2 DEF UnloadFits
<1>17. Accounted'
  BY <1>2, <1>9 DEF Accounted
<1>18. PictureIsOwned'
  BY <1>2, <1>9 DEF PictureIsOwned, Registered, Holder
<1>19. SoundHasPicture'
  <2> SUFFICES ASSUME NEW u \in Voice, sound'[u] = "playing"
               PROVE  \/ \E s \in Slot : slot'[s].voice = u /\ slot'[s].audio /\ ~slot'[s].preloaded
                      \/ \E s \in Slot, t \in Thread : hand[s][t].do = "unload" /\ hand[s][t].voice = u
                      \/ u \in past'.raised
    BY DEF SoundHasPicture
  <2>1. CASE sound[u] = "playing"
    BY <1>2, <2>1 DEF SoundHasPicture
  <2>2. CASE u = v /\ audio
    <3>1. PICK s \in S : slot[s].audio
      BY <1>6, <2>2
    <3>2. s \in Slot /\ (s \in waiting \/ ~slot[s].preloaded)
      BY <1>4
    <3>3. s \in Slot /\ slot'[s].voice = u /\ slot'[s].audio /\ ~slot'[s].preloaded
      BY <1>2, <1>3, <2>2, <3>1, <3>2
    <3> QED
      BY <3>3
  <2> QED
    BY <1>5, <2>1, <2>2
<1> QED
  BY <1>10, <1>11, <1>12, <1>13, <1>14, <1>15, <1>16, <1>17, <1>18, <1>19

\* A cue lets go of its voice, and the slots that have it fade out.
LEMMA LetGoStep ==
  ASSUME Typed, Typed', PictureInv, NEW c \in Cue, NEW fade \in BOOLEAN, LetGo(c, fade),
         UNCHANGED <<hand, output, status, next, trial>>
  PROVE  PictureInv'
<1> USE DEF PictureInv
<1> DEFINE v == cue[c].voice
           S == SlotsOf(v)
           audio == \E s \in S : slot[s].audio
<1>1. /\ slot' = [s \in Slot |-> IF s \in S THEN FadingOut(slot[s], fade) ELSE slot[s]]
      /\ sound' = IF audio THEN SoundOff(v, TRUE) ELSE sound
      /\ UNCHANGED past
  BY DEF LetGo, Stopping
<1>2. \A s \in Slot : /\ slot'[s].voice = slot[s].voice
                      /\ slot'[s].audio = (slot[s].audio /\ s \notin S)
                      /\ slot'[s].unload = (slot[s].unload \/ s \in S)
                      /\ slot'[s].preloaded = (slot[s].preloaded /\ s \notin S)
  <2> HIDE DEF S
  <2>1. \A s \in Slot : slot[s] \in Contents
    BY DEF Typed
  <2> QED
    BY <1>1, <2>1 DEF Contents, FadingOut
<1>3. \A s \in Slot : s \in S <=> v # None /\ slot[s].voice = v /\ Registered(OutputOf(s))
  BY DEF SlotsOf
<1>4. \A u \in Voice : sound'[u] = "playing" => sound[u] = "playing" /\ ~(u = v /\ audio)
  BY <1>1 DEF SoundOff, Typed
<1>5. \A s \in S : s \in Slot /\ (slot[s].audio => audio)
  BY DEF SlotsOf
<1>6. /\ \A d \in Cue : cue'[d] = IF d = c THEN Standby ELSE cue[d]
      /\ Standby.voice = None /\ v = cue[c].voice /\ Texts' = Texts /\ Texts \subseteq Cue
      /\ 0 < next /\ None = 0
  BY Constants DEF LetGo, Set, Standby, Typed, Texts, IsKind
<1> HIDE DEF v, S, audio
<1>7. Numbered'
  BY <1>2, <1>6 DEF Numbered
<1>8. Single'
  <2>1. \A d \in Texts' : cue'[d].voice = None
    BY <1>6 DEF Single
  <2>2. \A d, e \in Cue : cue'[d].voice = cue'[e].voice /\ cue'[d].voice # None => d = e
    BY <1>6 DEF Single
  <2>3. \A s, r \in Slot : slot'[s].voice = slot'[r].voice /\ slot'[s].voice # None => s = r
    BY <1>2 DEF Single
  <2> QED
    BY <2>1, <2>2, <2>3 DEF Single
<1>9. Settled'
  BY <1>1, <1>2 DEF Settled
<1>10. Vacated' /\ Hushed'
  BY <1>2 DEF Vacated, Hushed
<1>11. Disowned'
  <2> SUFFICES ASSUME NEW s \in Slot, NEW d \in Cue, slot'[s].unload, slot'[s].voice # None,
                      cue'[d].voice = slot'[s].voice
               PROVE  FALSE
    BY DEF Disowned
  <2>1. d # c /\ cue[d].voice = slot[s].voice /\ slot[s].voice # None
    BY <1>2, <1>6
  <2>2. CASE s \in S
    BY <1>3, <1>6, <2>1, <2>2 DEF Single
  <2>3. CASE s \notin S
    BY <1>2, <2>1, <2>3 DEF Disowned
  <2> QED
    BY <2>2, <2>3
<1>12. HeldBack'
  BY <1>2, <1>6 DEF HeldBack, Registered
<1>13. RevealFits'
  BY <1>2 DEF RevealFits
<1>14. UnloadFits'
  <2>1. \A s \in Slot, t \in Thread : hand[s][t].voice # None => hand[s][t].voice \in Voice
    BY Basics
  <2> QED
    BY <1>1, <1>4, <2>1 DEF UnloadFits
<1>15. Accounted'
  BY <1>1, <1>2, <1>6 DEF Accounted
<1>16. PictureIsOwned'
  <2> SUFFICES ASSUME NEW s \in Slot, slot'[s].voice # None, Registered(OutputOf(s))
               PROVE  \/ \E d \in Cue : cue'[d].voice = slot'[s].voice
                      \/ slot'[s].unload \/ slot'[s].voice \in past'.adrift
    BY DEF PictureIsOwned, Registered, Holder
  <2>1. \/ \E d \in Cue : cue[d].voice = slot[s].voice
        \/ slot[s].unload \/ slot[s].voice \in past.adrift
    BY <1>2 DEF PictureIsOwned, Holder
  <2> QED
    BY <1>1, <1>2, <1>3, <1>6, <2>1
<1>17. SoundHasPicture'
  <2> SUFFICES ASSUME NEW u \in Voice, sound'[u] = "playing"
               PROVE  \/ \E s \in Slot : slot'[s].voice = u /\ slot'[s].audio /\ ~slot'[s].preloaded
                      \/ \E s \in Slot, t \in Thread : hand[s][t].do = "unload" /\ hand[s][t].voice = u
                      \/ u \in past'.raised
    BY DEF SoundHasPicture
  <2>1. sound[u] = "playing" /\ ~(u = v /\ audio)
    BY <1>4
  <2>2. CASE \E s \in Slot : slot[s].voice = u /\ slot[s].audio /\ ~slot[s].preloaded
    <3>1. PICK s \in Slot : slot[s].voice = u /\ slot[s].audio /\ ~slot[s].preloaded
      BY <2>2
    <3>2. s \notin S
      BY <1>3, <1>5, <2>1, <3>1
    <3> QED
      BY <1>2, <3>1, <3>2
  <2>3. CASE ~\E s \in Slot : slot[s].voice = u /\ slot[s].audio /\ ~slot[s].preloaded
    BY <1>1, <2>1, <2>3 DEF SoundHasPicture
  <2> QED
    BY <2>2, <2>3
<1> QED
  BY <1>7, <1>8, <1>9, <1>10, <1>11, <1>12, <1>13, <1>14, <1>15, <1>16, <1>17

\* A panic empties every slot, and no cue has a voice any more.
LEMMA PanicStep ==
  ASSUME Typed, Typed', PictureInv, Panic
  PROVE  PictureInv'
<1> USE DEF PictureInv
<1>1. UNCHANGED <<hand, output, status, next, past>> /\ trial' = trial
  BY DEF Panic, Call
<1>2. \A s \in Slot : slot'[s] = IF Registered(OutputOf(s)) THEN IdleSlot ELSE slot[s]
  BY DEF Panic, Unloaded
<1>3. \A c \in Cue : cue'[c].voice = None
  BY DEF Panic, Standby
<1>4. \A v \in Voice : sound'[v] # "playing"
  BY DEF Panic, Typed
<1>5. /\ IdleSlot.voice = None /\ ~IdleSlot.unload /\ ~IdleSlot.preloaded
      /\ 0 < next /\ None = 0 /\ Texts' = Texts /\ Texts \subseteq Cue
  BY <1>1, Constants DEF IdleSlot, Typed, Texts, IsKind
<1>6. Numbered'
  BY <1>1, <1>2, <1>3, <1>5 DEF Numbered
<1>7. Single'
  <2>1. \A s, r \in Slot : slot'[s].voice = slot'[r].voice /\ slot'[s].voice # None => s = r
    BY <1>2, <1>5 DEF Single
  <2> QED
    BY <1>3, <1>5, <2>1 DEF Single
<1>8. Settled'
  <2>1. \A m \in status : m.voice # None
    BY Basics, Constants
  <2> QED
    BY <1>1, <1>2, <1>5, <2>1 DEF Settled
<1>9. Vacated' /\ Disowned' /\ Hushed' /\ HeldBack'
  BY <1>1, <1>2, <1>3, <1>5 DEF Vacated, Disowned, Hushed, HeldBack
<1>10. RevealFits'
  BY <1>1, <1>2, <1>5 DEF RevealFits
<1>11. UnloadFits' /\ SoundHasPicture'
  <2>1. \A s \in Slot, t \in Thread : hand[s][t].voice # None => hand[s][t].voice \in Voice
    BY Basics
  <2> QED
    BY <1>1, <1>4, <2>1 DEF UnloadFits, SoundHasPicture
<1>12. Accounted'
  BY <1>3 DEF Accounted
<1>13. PictureIsOwned'
  BY <1>1, <1>2, <1>5 DEF PictureIsOwned, Registered
<1> QED
  BY <1>6, <1>7, <1>8, <1>9, <1>10, <1>11, <1>12, <1>13

\* Slots are emptied, by a test pattern or the teardown: whoever had them hears of it.
LEMMA HardUnloadStep ==
  ASSUME Typed, Typed', PictureInv, NEW S \in SUBSET Slot, HardUnload(S),
         UNCHANGED <<cue, hand, next, trial>>,
         past'.failed = past.failed, past'.raised = past.raised, past'.adrift = past.adrift,
         past'.unheard = past.unheard,
         \A o \in Output :
           /\ output'[o] \in {"live", "dropped"} => output[o] \in {"live", "dropped"}
           /\ output'[o] \in {"none", "opening"} =>
                output[o] \in {"none", "opening"} \/ \A s \in Slot : OutputOf(s) = o => s \in S
  PROVE  PictureInv'
<1> USE DEF PictureInv
<1>1. \A s \in Slot : slot'[s] = IF s \in S THEN IdleSlot ELSE slot[s]
  BY DEF HardUnload, Unloaded
<1>2. \A v \in Voice : sound'[v] = "playing" =>
        sound[v] = "playing" /\ ~\E s \in S : slot[s].voice = v /\ slot[s].audio
  BY DEF HardUnload, Typed
<1>3. /\ status \subseteq status'
      /\ \A s \in S : slot[s].voice # None => \E m \in status' : m.voice = slot[s].voice
      /\ \A m \in status' : m \in status
           \/ (m.kind = "withdrawn" /\ \E s \in S : slot[s].voice # None /\ m.voice = slot[s].voice)
  <2>1. status' = status \cup UNION { Withdrawn(slot[s].voice) : s \in S }
    BY DEF HardUnload
  <2>2. ASSUME NEW s \in S
        PROVE  Withdrawn(slot[s].voice) = IF slot[s].voice = None THEN {}
                                          ELSE {[kind |-> "withdrawn", voice |-> slot[s].voice]}
    BY DEF Withdrawn, Reports
  <2>3. ASSUME NEW s \in S, slot[s].voice # None
        PROVE  \E m \in status' : m.voice = slot[s].voice
    <3> DEFINE told == [kind |-> "withdrawn", voice |-> slot[s].voice]
    <3>1. told \in status' /\ told.voice = slot[s].voice
      BY <2>1, <2>2, <2>3
    <3> HIDE DEF told
    <3> QED
      BY <3>1
  <2>4. ASSUME NEW m \in status', m \notin status
        PROVE  m.kind = "withdrawn" /\ \E s \in S : slot[s].voice # None /\ m.voice = slot[s].voice
    <3>1. PICK s \in S : m \in Withdrawn(slot[s].voice)
      BY <2>1, <2>4
    <3>2. slot[s].voice # None /\ m = [kind |-> "withdrawn", voice |-> slot[s].voice]
      BY <2>2, <3>1
    <3>3. m.kind = "withdrawn" /\ m.voice = slot[s].voice
      BY <3>2
    <3> QED
      BY <3>2, <3>3
  <2> QED
    BY <2>1, <2>3, <2>4
<1>4. /\ IdleSlot.voice = None /\ ~IdleSlot.unload /\ ~IdleSlot.preloaded /\ None = 0 /\ 0 < next
      /\ Texts' = Texts
  BY Constants DEF IdleSlot, Typed, Texts, IsKind
<1>5. Numbered'
  <2>1. \A m \in status' : m.voice < next
    BY <1>3 DEF Numbered
  <2> QED
    BY <1>1, <1>4, <2>1 DEF Numbered
<1>6. Single'
  <2>1. \A s, r \in Slot : slot'[s].voice = slot'[r].voice /\ slot'[s].voice # None => s = r
    BY <1>1, <1>4 DEF Single
  <2> QED
    BY <1>4, <2>1 DEF Single
<1>7. Settled'
  <2>1. ASSUME NEW m \in status', NEW s \in Slot PROVE slot'[s].voice # m.voice
    <3>1. m.voice # None
      <4>1. m.voice \in Voice
        BY DEF Typed, Messages
      <4> QED
        BY <4>1, Constants
    <3>2. CASE s \in S
      BY <1>1, <1>4, <3>1, <3>2
    <3>3. CASE s \notin S
      BY <1>1, <1>3, <3>3 DEF Settled, Single
    <3> QED
      BY <3>2, <3>3
  <2>2. \A s, r \in Slot, t \in Thread :
          hand[r][t].do = "unload" /\ slot'[s].voice # None => slot'[s].voice # hand[r][t].voice
    BY <1>1, <1>4 DEF Settled
  <2>3. \A m \in status' : m.kind = "error" => m.voice \in past'.failed
    BY <1>3 DEF Settled
  <2> QED
    BY <2>1, <2>2, <2>3 DEF Settled
<1>8. Vacated'
  <2>1. \A s \in Slot : OutputOf(s) \in Output
    BY Constants
  <2> QED
    BY <1>1, <1>4, <2>1 DEF Vacated
<1>9. Disowned' /\ Hushed'
  BY <1>1, <1>4 DEF Disowned, Hushed
<1>10. HeldBack'
  <2>1. \A s \in Slot : OutputOf(s) \in Output
    BY Constants
  <2> QED
    BY <1>1, <1>4, <2>1 DEF HeldBack, Registered
<1>11. RevealFits'
  BY <1>1, <1>4 DEF RevealFits
<1>12. UnloadFits'
  <2>1. \A s \in Slot, t \in Thread : hand[s][t].voice # None => hand[s][t].voice \in Voice
    BY Basics
  <2> QED
    BY <1>2, <2>1 DEF UnloadFits
<1>13. Accounted'
  <2> SUFFICES ASSUME NEW d \in Cue, cue[d].voice # None
               PROVE  \/ \E x \in Slot : slot'[x].voice = cue[d].voice
                      \/ \E m \in status' : m.voice = cue[d].voice
                      \/ \E x \in Slot, t \in Thread :
                           hand[x][t].do = "unload" /\ hand[x][t].voice = cue[d].voice
                      \/ cue[d].voice \in past'.failed \cup past'.unheard
    BY DEF Accounted
  <2>1. CASE \E x \in Slot : slot[x].voice = cue[d].voice
    BY <1>1, <1>3, <2>1
  <2>2. CASE ~\E x \in Slot : slot[x].voice = cue[d].voice
    BY <1>3, <2>2 DEF Accounted
  <2> QED
    BY <2>1, <2>2
<1>14. PictureIsOwned'
  <2>1. \A s \in Slot : OutputOf(s) \in Output
    BY Constants
  <2> QED
    BY <1>1, <1>4, <2>1 DEF PictureIsOwned, Registered, Holder
<1>15. SoundHasPicture'
  <2> SUFFICES ASSUME NEW u \in Voice, sound'[u] = "playing"
               PROVE  \/ \E s \in Slot : slot'[s].voice = u /\ slot'[s].audio /\ ~slot'[s].preloaded
                      \/ \E s \in Slot, t \in Thread : hand[s][t].do = "unload" /\ hand[s][t].voice = u
                      \/ u \in past'.raised
    BY DEF SoundHasPicture
  <2>1. sound[u] = "playing" /\ ~\E s \in S : slot[s].voice = u /\ slot[s].audio
    BY <1>2
  <2> QED
    BY <1>1, <2>1 DEF SoundHasPicture
<1> QED
  BY <1>5, <1>6, <1>7, <1>8, <1>9, <1>10, <1>11, <1>12, <1>13, <1>14, <1>15

\* The event loop hears what has ended, and lets go of what has had its time.
LEMMA EventLoopStep ==
  ASSUME Typed, Typed', PictureInv, EventLoopDrains \/ \E c \in Cue : TimeDone(c)
  PROVE  PictureInv'
<1> USE DEF PictureInv
<1>1. UNCHANGED <<slot, hand, mpv, sound, output, next, trial>> /\ Texts' = Texts
      /\ Texts \subseteq Cue
  BY Constants DEF EventLoopDrains, TimeDone, Texts, IsKind
<1>2. /\ status' \subseteq status
      /\ past'.failed = past.failed /\ past'.raised = past.raised
      /\ past.adrift \subseteq past'.adrift /\ past.unheard \subseteq past'.unheard
  <2>1. CASE EventLoopDrains
    <3>1. PICK x \in SUBSET Voice : past' = [past EXCEPT !.unheard = @ \cup x]
      BY <2>1, TickRecords
    <3> QED
      BY <2>1, <3>1, TickRecords DEF Typed, Pasts
  <2>2. ASSUME NEW c \in Cue, TimeDone(c)
        PROVE  /\ status' \subseteq status
               /\ past'.failed = past.failed /\ past'.raised = past.raised
               /\ past.adrift \subseteq past'.adrift /\ past.unheard \subseteq past'.unheard
    <3> DEFINE x == past.adrift \cup ({cue[c].voice} \ {None})
               y == IF IsKind(c, "text") /\ Shown(c) THEN past.left \cup {c} ELSE past.left
    <3>1. past' = [past EXCEPT !.adrift = x, !.left = y] /\ status' = status
      BY <2>2 DEF TimeDone
    <3>2. past.adrift \subseteq x
      OBVIOUS
    <3> HIDE DEF x, y
    <3> QED
      BY <3>1, <3>2 DEF Typed, Pasts
  <2> QED
    BY <2>1, <2>2
<1>3. Standby.voice = None /\ 0 < next /\ None = 0
  BY DEF Standby, Typed, None
<1>4. \A c \in Cue : cue'[c] = cue[c] \/ cue'[c].voice = None
  BY <1>3, TickRecords DEF TimeDone, Set, Typed
<1>5. Numbered' /\ Single'
  BY <1>1, <1>2, <1>3, <1>4 DEF Numbered, Single
<1>6. Settled' /\ Vacated' /\ RevealFits' /\ UnloadFits'
  BY <1>1, <1>2 DEF Settled, Vacated, RevealFits, UnloadFits
<1>7. Disowned' /\ Hushed' /\ HeldBack'
  BY <1>1, <1>4 DEF Disowned, Hushed, HeldBack, Registered
<1>8. Accounted'
  <2> SUFFICES ASSUME NEW d \in Cue, cue'[d].voice # None
               PROVE  \/ \E x \in Slot : slot'[x].voice = cue'[d].voice
                      \/ \E m \in status' : m.voice = cue'[d].voice
                      \/ \E x \in Slot, t \in Thread :
                           hand'[x][t].do = "unload" /\ hand'[x][t].voice = cue'[d].voice
                      \/ cue'[d].voice \in past'.failed \cup past'.unheard
    BY DEF Accounted
  <2>1. cue'[d] = cue[d]
    BY <1>4
  <2>2. CASE EventLoopDrains
    <3>1. CASE \E m \in status : m.voice = cue[d].voice
      <4>1. PICK m \in status : m.voice = cue[d].voice
        BY <3>1
      <4>2. CASE m.kind = "error"
        BY <1>2, <2>1, <4>1, <4>2 DEF Settled
      <4>3. CASE m.kind # "error"
        <5>1. PICK x \in SUBSET Voice :
                /\ past' = [past EXCEPT !.unheard = @ \cup x]
                /\ m \in status' \/ cue'[d] = Standby \/ cue[d].voice \in x
          BY <2>2, <4>1, <4>3, TickRecords
        <5>2. cue'[d] # Standby
          BY <1>3
        <5>3. cue[d].voice \in x => cue[d].voice \in past'.unheard
          BY <5>1 DEF Typed, Pasts
        <5> QED
          BY <2>1, <4>1, <5>1, <5>2, <5>3
      <4> QED
        BY <4>2, <4>3
    <3>2. CASE ~\E m \in status : m.voice = cue[d].voice
      BY <1>1, <1>2, <2>1, <3>2 DEF Accounted
    <3> QED
      BY <3>1, <3>2
  <2>3. CASE \E c \in Cue : TimeDone(c)
    <3>1. status' = status
      BY <2>3 DEF TimeDone
    <3> QED
      BY <1>1, <1>2, <2>1, <3>1 DEF Accounted
  <2> QED
    BY <2>2, <2>3
<1>9. PictureIsOwned'
  <2> SUFFICES ASSUME NEW s \in Slot, slot[s].voice # None, Registered(OutputOf(s))
               PROVE  \/ \E d \in Cue : cue'[d].voice = slot[s].voice
                      \/ slot[s].unload \/ slot[s].voice \in past'.adrift
    BY <1>1 DEF PictureIsOwned, Registered, Holder
  <2>1. CASE slot[s].unload \/ slot[s].voice \in past.adrift
    BY <1>2, <2>1
  <2>2. CASE \E d \in Cue : cue[d].voice = slot[s].voice
    <3>1. PICK d \in Cue : cue[d].voice = slot[s].voice
      BY <2>2
    <3>2. CASE cue'[d] = cue[d]
      BY <3>1, <3>2
    <3>3. CASE EventLoopDrains /\ cue'[d] # cue[d]
      <4>1. \E m \in status : m.voice = cue[d].voice
        BY <3>3, TickRecords
      <4> QED
        BY <3>1, <4>1 DEF Settled
    <3>4. CASE (\E c \in Cue : TimeDone(c)) /\ cue'[d] # cue[d]
      <4>1. PICK c \in Cue : TimeDone(c)
        BY <3>4
      <4>2. c = d
        BY <3>4, <4>1 DEF TimeDone, Set, Typed
      <4>3. cue[d].voice \in past'.adrift
        BY <3>1, <4>1, <4>2 DEF TimeDone, Typed, Pasts
      <4> QED
        BY <3>1, <4>3
    <3> QED
      BY <3>2, <3>3, <3>4
  <2> QED
    BY <2>1, <2>2 DEF PictureIsOwned, Holder
<1>10. SoundHasPicture'
  BY <1>1, <1>2 DEF SoundHasPicture
<1> QED
  BY <1>5, <1>6, <1>7, <1>8, <1>9, <1>10

---------------------------------------------------------------------------
\* A reveal is taken up: by the watchdog, or with the first frame.
LEMMA TakeStep ==
  ASSUME Typed, Typed', PictureInv, NEW s \in Slot, WatchdogReveals(s) \/ FirstFrame(s)
  PROVE  PictureInv'
<1> USE DEF PictureInv
<1>1. UNCHANGED <<cue, sound, output, status, next, trial, past>> /\ Texts' = Texts
  BY DEF WatchdogReveals, FirstFrame, Texts, IsKind
<1>2. CASE UNCHANGED <<slot, hand>>
  <2>1. Quiet
    BY <1>1, <1>2, Basics DEF Quiet
  <2> QED
    BY <2>1, QuietStep
<1>3. CASE \E t \in Thread : /\ hand[s][t] = Free /\ hand' = [hand EXCEPT ![s][t] = RevealTask(s)]
                             /\ MayReveal(s) /\ slot' = Taken(s)
  <2>1. PICK t \in Thread : /\ hand[s][t] = Free /\ hand' = [hand EXCEPT ![s][t] = RevealTask(s)]
                            /\ MayReveal(s) /\ slot' = Taken(s)
    BY <1>3
  <2>2. \A r \in Slot : /\ slot'[r].voice = slot[r].voice /\ slot'[r].audio = slot[r].audio
                        /\ slot'[r].preloaded = slot[r].preloaded
                        /\ slot'[r].unload = slot[r].unload
    <3>1. slot' = [slot EXCEPT ![s] = [slot[s] EXCEPT !.reveal = FALSE, !.deadline = FALSE,
                                                      !.preloaded = FALSE]]
      BY <2>1 DEF Taken, Typed
    <3>2. slot[s].preloaded = FALSE
      BY <2>1, SlotFacts DEF MayReveal
    <3>3. slot[s] \in Contents /\ slot \in [Slot -> Contents]
      BY DEF Typed
    <3> DEFINE q == [slot[s] EXCEPT !.reveal = FALSE, !.deadline = FALSE, !.preloaded = FALSE]
    <3>4. /\ q.voice = slot[s].voice /\ q.audio = slot[s].audio
          /\ q.preloaded = slot[s].preloaded /\ q.unload = slot[s].unload
      BY <3>2, <3>3 DEF Contents
    <3>5. \A r \in Slot : slot'[r] = IF r = s THEN q ELSE slot[r]
      BY <3>1, <3>3
    <3> HIDE DEF q
    <3> QED
      BY <3>4, <3>5
  <2>3. RevealTask(s) \in Tasks
    BY SlotFacts DEF RevealTask, Tasks
  <2>4. \A r \in Slot, u \in Thread : hand'[r][u] = IF r = s /\ u = t THEN RevealTask(s) ELSE hand[r][u]
    BY <2>1, <2>3, OneHand
  <2>5. /\ RevealTask(s).do = "reveal" /\ RevealTask(s).voice = slot[s].voice
        /\ RevealTask(s).audio = slot[s].audio /\ ~slot[s].preloaded
        /\ hand[s][t].do = "nothing"
    BY <2>1 DEF RevealTask, MayReveal, Free
  <2>6. \A r \in Slot, u \in Thread :
          hand'[r][u].do = "unload" => hand'[r][u] = hand[r][u]
    BY <2>4, <2>5
  <2>7. \A r \in Slot, u \in Thread :
          hand[r][u].do = "unload" => hand'[r][u] = hand[r][u]
    BY <2>4, <2>5
  <2>8. Numbered'
    BY <1>1, <2>2, <2>4, <2>5 DEF Numbered
  <2>9. Single' /\ Vacated' /\ Disowned' /\ Hushed' /\ HeldBack' /\ PictureIsOwned'
    BY <1>1, <2>2 DEF Single, Vacated, Disowned, Hushed, HeldBack, PictureIsOwned, Holder, Registered
  <2>10. Settled' /\ UnloadFits'
    BY <1>1, <2>2, <2>6 DEF Settled, UnloadFits
  <2>11. RevealFits'
    BY <2>2, <2>4, <2>5 DEF RevealFits
  <2>12. Accounted'
    BY <1>1, <2>2, <2>7 DEF Accounted
  <2>13. SoundHasPicture'
    BY <1>1, <2>2, <2>7 DEF SoundHasPicture
  <2> QED
    BY <2>8, <2>9, <2>10, <2>11, <2>12, <2>13
<1> QED
  BY <1>2, <1>3 DEF WatchdogReveals, FirstFrame, Overdue, Handles, Thread

\* A slot that has faded out, or was cut, is released: nobody waits for it.
LEMMA ReleaseStep ==
  ASSUME Typed, Typed', PictureInv, NEW s \in Slot, Release(s)
  PROVE  PictureInv'
<1> USE DEF PictureInv
<1>1. UNCHANGED <<cue, sound, output, status, next, trial, past>> /\ Texts' = Texts
  BY DEF Release, Texts, IsKind
<1> DEFINE task == [Free EXCEPT !.do = "stop", !.voice = slot[s].voice]
<1>2. /\ slot[s].unload /\ hand[s]["render"].do = "nothing" /\ "render" \in Thread
      /\ task \in Tasks /\ task.do = "stop" /\ task.voice = slot[s].voice
  <2>1. slot[s].unload /\ hand[s]["render"] = Free
    BY DEF Release, Finished
  <2>2. task \in Tasks /\ task.do = "stop" /\ task.voice = slot[s].voice
    BY SlotFacts DEF Free, Tasks
  <2>3. Free.do = "nothing" /\ "render" \in Thread
    BY DEF Free, Thread
  <2> QED
    BY <2>1, <2>2, <2>3
<1>3. \A r \in Slot, u \in Thread : hand'[r][u] = IF r = s /\ u = "render" THEN task ELSE hand[r][u]
  BY <1>2, OneHand DEF Release
<1> HIDE DEF task
<1>4. \A r \in Slot : IF r = s
                      THEN /\ slot'[r].voice = None /\ slot'[r].audio = slot[r].audio
                           /\ slot'[r].preloaded = slot[r].preloaded /\ ~slot'[r].unload
                      ELSE slot'[r] = slot[r]
  BY SlotFacts DEF Release, Typed, Contents
<1>5. \A r \in Slot, u \in Thread : hand'[r][u].do \in {"unload", "reveal"} => hand'[r][u] = hand[r][u]
  BY <1>2, <1>3
<1>6. \A r \in Slot, u \in Thread : hand[r][u].do = "unload" => hand'[r][u] = hand[r][u]
  BY <1>2, <1>3
<1>7. None = 0 /\ 0 < next
  BY Constants DEF Typed
<1>8. Numbered'
  BY <1>1, <1>2, <1>3, <1>4, <1>7 DEF Numbered
<1>9. Single' /\ Vacated' /\ Disowned' /\ Hushed' /\ HeldBack'
  BY <1>1, <1>4 DEF Single, Vacated, Disowned, Hushed, HeldBack, Registered
<1>10. PictureIsOwned'
  BY <1>1, <1>4 DEF PictureIsOwned, Holder, Registered
<1>11. Settled' /\ UnloadFits'
  <2>1. \A m \in status : m.voice # None
    BY Basics, Constants
  <2> QED
    BY <1>1, <1>4, <1>5, <2>1 DEF Settled, UnloadFits
<1>12. RevealFits'
  BY <1>4, <1>5 DEF RevealFits
<1>13. Accounted'
  <2> SUFFICES ASSUME NEW d \in Cue, cue[d].voice # None
               PROVE  \/ \E x \in Slot : slot'[x].voice = cue[d].voice
                      \/ \E m \in status : m.voice = cue[d].voice
                      \/ \E x \in Slot, t \in Thread :
                           hand'[x][t].do = "unload" /\ hand'[x][t].voice = cue[d].voice
                      \/ cue[d].voice \in past.failed \cup past.unheard
    BY <1>1 DEF Accounted
  <2>1. cue[d].voice # slot[s].voice
    BY <1>2 DEF Disowned
  <2> QED
    BY <1>4, <1>6, <2>1 DEF Accounted
<1>14. SoundHasPicture'
  <2> SUFFICES ASSUME NEW u \in Voice, sound[u] = "playing"
               PROVE  \/ \E x \in Slot : slot'[x].voice = u /\ slot'[x].audio /\ ~slot'[x].preloaded
                      \/ \E x \in Slot, t \in Thread : hand'[x][t].do = "unload" /\ hand'[x][t].voice = u
                      \/ u \in past.raised
    BY <1>1 DEF SoundHasPicture
  <2>1. ~slot[s].audio
    BY <1>2 DEF Hushed
  <2> QED
    BY <1>4, <1>6, <2>1 DEF SoundHasPicture
<1> QED
  BY <1>8, <1>9, <1>10, <1>11, <1>12, <1>13, <1>14

\* The file ends or could not be played: the slot is vacated and the cue hears of it.
LEMMA FileEndsStep ==
  ASSUME Typed, Typed', PictureInv, NEW s \in Slot, FileEnds(s)
  PROVE  PictureInv'
<1> USE DEF PictureInv
<1> DEFINE v == slot[s].voice
           kind == IF Head(mpv[s].events).kind = "eof" THEN "completed" ELSE "error"
<1>1. UNCHANGED <<cue, hand, output, next, trial>> /\ Texts' = Texts
  BY DEF FileEnds, Texts, IsKind
<1>2. \A r \in Slot : slot'[r] = IF r = s THEN IdleSlot ELSE slot[r]
  BY DEF FileEnds, Typed
<1>3. IdleSlot.voice = None /\ ~IdleSlot.unload /\ ~IdleSlot.preloaded /\ None = 0 /\ 0 < next
  BY Constants DEF IdleSlot, Typed
<1>4. \A u \in Voice : sound'[u] = "playing" => sound[u] = "playing" /\ ~(u = v /\ slot[s].audio)
  BY Constants DEF FileEnds, AudioToStop, SoundOff, Typed
<1>5. /\ status \subseteq status'
      /\ \A m \in status' : m \in status \/ (m.voice = v /\ v # None /\ m.kind = kind)
      /\ v # None => \E m \in status' : m.voice = v
  <2>1. status' = status \cup (IF v = None THEN {} ELSE {[kind |-> kind, voice |-> v]})
    BY DEF FileEnds, Reports
  <2> HIDE DEF v, kind
  <2>2. CASE v = None
    BY <2>1, <2>2
  <2>3. CASE v # None
    <3> DEFINE told == [kind |-> kind, voice |-> v]
    <3>1. status' = status \cup {told} /\ told.voice = v /\ told.kind = kind
      BY <2>1, <2>3
    <3> HIDE DEF told
    <3> QED
      BY <2>3, <3>1
  <2> QED
    BY <2>2, <2>3
<1>6. /\ past'.raised = past.raised /\ past'.adrift = past.adrift /\ past'.unheard = past.unheard
      /\ past.failed \subseteq past'.failed
      /\ kind = "error" /\ v # None => v \in past'.failed
  <2> DEFINE x == IF Head(mpv[s].events).kind = "error" THEN past.failed \cup ({v} \ {None})
                  ELSE past.failed
  <2>1. past' = [past EXCEPT !.failed = x]
    BY DEF FileEnds
  <2>2. past.failed \subseteq x
    OBVIOUS
  <2>3. kind = "error" /\ v # None => v \in x
    BY DEF FileEnds, Handles
  <2> HIDE DEF x, v, kind
  <2> QED
    BY <2>1, <2>2, <2>3 DEF Typed, Pasts
<1>7. v = slot[s].voice
  OBVIOUS
<1> HIDE DEF v, kind
<1>8. Numbered'
  <2>1. \A m \in status' : m.voice < next
    BY <1>5, <1>7 DEF Numbered
  <2> QED
    BY <1>1, <1>2, <1>3, <2>1 DEF Numbered
<1>9. Single'
  <2>1. \A x, r \in Slot : slot'[x].voice = slot'[r].voice /\ slot'[x].voice # None => x = r
    BY <1>2, <1>3 DEF Single
  <2> QED
    BY <1>1, <2>1 DEF Single
<1>10. Settled'
  <2>1. ASSUME NEW m \in status', NEW r \in Slot PROVE slot'[r].voice # m.voice
    <3>1. m.voice # None
      <4>1. m.voice \in Voice
        BY DEF Typed, Messages
      <4> QED
        BY <4>1, Constants
    <3>2. CASE r = s
      BY <1>2, <1>3, <3>1, <3>2
    <3>3. CASE r # s
      BY <1>2, <1>5, <1>7, <3>3 DEF Settled, Single
    <3> QED
      BY <3>2, <3>3
  <2>2. \A x, r \in Slot, t \in Thread :
          hand'[r][t].do = "unload" /\ slot'[x].voice # None => slot'[x].voice # hand'[r][t].voice
    BY <1>1, <1>2, <1>3 DEF Settled
  <2>3. \A m \in status' : m.kind = "error" => m.voice \in past'.failed
    BY <1>5, <1>6 DEF Settled
  <2> QED
    BY <2>1, <2>2, <2>3 DEF Settled
<1>11. Vacated' /\ Disowned' /\ Hushed' /\ HeldBack'
  BY <1>1, <1>2, <1>3 DEF Vacated, Disowned, Hushed, HeldBack, Registered
<1>12. RevealFits'
  BY <1>1, <1>2, <1>3 DEF RevealFits
<1>13. UnloadFits'
  <2>1. \A r \in Slot, t \in Thread : hand[r][t].voice # None => hand[r][t].voice \in Voice
    BY Basics
  <2> QED
    BY <1>1, <1>4, <1>6, <2>1 DEF UnloadFits
<1>14. Accounted'
  BY <1>1, <1>2, <1>5, <1>6, <1>7 DEF Accounted
<1>15. PictureIsOwned'
  BY <1>1, <1>2, <1>3, <1>6 DEF PictureIsOwned, Registered, Holder
<1>16. SoundHasPicture'
  BY <1>1, <1>2, <1>4, <1>6, <1>7 DEF SoundHasPicture
<1> QED
  BY <1>8, <1>9, <1>10, <1>11, <1>12, <1>13, <1>14, <1>15, <1>16

\* The devamped slice ends: the slot is emptied, and its end still to be told.
LEMMA SliceEndsStep ==
  ASSUME Typed, Typed', PictureInv, NEW s \in Slot, SliceEnds(s)
  PROVE  PictureInv'
<1> USE DEF PictureInv
<1> DEFINE v == slot[s].voice
           task == [do |-> "unload", voice |-> v, audio |-> slot[s].audio]
<1>1. UNCHANGED <<cue, sound, output, status, next, trial, past>> /\ Texts' = Texts
  BY DEF SliceEnds, Texts, IsKind
<1>2. \A r \in Slot : slot'[r] = IF r = s THEN IdleSlot ELSE slot[r]
  BY DEF SliceEnds, Typed
<1>3. IdleSlot.voice = None /\ ~IdleSlot.unload /\ ~IdleSlot.preloaded /\ None = 0 /\ 0 < next
  BY Constants DEF IdleSlot, Typed
<1>4. /\ task \in Tasks /\ task.do = "unload" /\ task.voice = v /\ task.audio = slot[s].audio
      /\ "events" \in Thread /\ hand[s]["events"].do = "nothing"
  BY SlotFacts DEF SliceEnds, Free, Thread, Tasks
<1>5. \A r \in Slot, u \in Thread : hand'[r][u] = IF r = s /\ u = "events" THEN task ELSE hand[r][u]
  BY <1>4, OneHand DEF SliceEnds
<1>6. v = slot[s].voice /\ (v # None => v \in Voice)
  BY Basics
<1> HIDE DEF v, task
<1>7. \A r \in Slot, u \in Thread : hand[r][u].do = "unload" => hand'[r][u] = hand[r][u]
  BY <1>4, <1>5
<1>8. Numbered'
  BY <1>1, <1>2, <1>3, <1>4, <1>5, <1>6 DEF Numbered
<1>9. Single'
  BY <1>1, <1>2, <1>3 DEF Single
<1>10. Settled'
  <2>1. ASSUME NEW m \in status, NEW r \in Slot PROVE slot'[r].voice # m.voice
    BY <1>2, <1>3, Basics, Constants DEF Settled
  <2>2. ASSUME NEW x \in Slot, NEW r \in Slot, NEW t \in Thread, hand'[r][t].do = "unload",
               slot'[x].voice # None
        PROVE  slot'[x].voice # hand'[r][t].voice
    <3>1. x # s /\ slot'[x] = slot[x]
      BY <1>2, <1>3, <2>2
    <3>2. CASE r = s /\ t = "events"
      BY <1>4, <1>5, <1>6, <2>2, <3>1, <3>2 DEF Single
    <3>3. CASE ~(r = s /\ t = "events")
      BY <1>5, <2>2, <3>1, <3>3 DEF Settled
    <3> QED
      BY <3>2, <3>3
  <2> QED
    BY <1>1, <2>1, <2>2 DEF Settled
<1>11. Vacated' /\ Disowned' /\ Hushed' /\ HeldBack'
  BY <1>1, <1>2, <1>3 DEF Vacated, Disowned, Hushed, HeldBack, Registered
<1>12. RevealFits'
  BY <1>2, <1>3, <1>4, <1>5 DEF RevealFits
<1>13. UnloadFits'
  <2> SUFFICES ASSUME NEW r \in Slot, NEW t \in Thread, hand'[r][t].do = "unload",
                      hand'[r][t].voice # None, sound[hand'[r][t].voice] = "playing",
                      hand'[r][t].voice \notin past.raised
               PROVE  hand'[r][t].audio
    BY <1>1 DEF UnloadFits
  <2>1. CASE r = s /\ t = "events"
    <3>1. hand'[r][t] = task /\ v \in Voice /\ v # None /\ sound[v] = "playing" /\ v \notin past.raised
      BY <1>4, <1>5, <1>6, <2>1
    <3>2. \E x \in Slot : slot[x].voice = v /\ slot[x].audio
      BY <1>6, <3>1 DEF SoundHasPicture, Settled
    <3>3. slot[s].audio
      BY <1>6, <3>1, <3>2 DEF Single
    <3> QED
      BY <1>4, <3>1, <3>3
  <2>2. CASE ~(r = s /\ t = "events")
    BY <1>5, <2>2 DEF UnloadFits
  <2> QED
    BY <2>1, <2>2
<1>14. Accounted'
  <2> SUFFICES ASSUME NEW d \in Cue, cue[d].voice # None
               PROVE  \/ \E x \in Slot : slot'[x].voice = cue[d].voice
                      \/ \E m \in status : m.voice = cue[d].voice
                      \/ \E x \in Slot, t \in Thread :
                           hand'[x][t].do = "unload" /\ hand'[x][t].voice = cue[d].voice
                      \/ cue[d].voice \in past.failed \cup past.unheard
    BY <1>1 DEF Accounted
  <2>1. CASE cue[d].voice = v
    <3>1. hand'[s]["events"] = task
      BY <1>4, <1>5
    <3> QED
      BY <1>4, <2>1, <3>1
  <2>2. CASE cue[d].voice # v
    BY <1>2, <1>6, <1>7, <2>2 DEF Accounted
  <2> QED
    BY <2>1, <2>2
<1>15. PictureIsOwned'
  BY <1>1, <1>2, <1>3 DEF PictureIsOwned, Registered, Holder
<1>16. SoundHasPicture'
  <2> SUFFICES ASSUME NEW u \in Voice, sound[u] = "playing"
               PROVE  \/ \E x \in Slot : slot'[x].voice = u /\ slot'[x].audio /\ ~slot'[x].preloaded
                      \/ \E x \in Slot, t \in Thread : hand'[x][t].do = "unload" /\ hand'[x][t].voice = u
                      \/ u \in past.raised
    BY <1>1 DEF SoundHasPicture
  <2>1. CASE u = v
    <3>1. hand'[s]["events"] = task
      BY <1>4, <1>5
    <3> QED
      BY <1>4, <2>1, <3>1
  <2>2. CASE u # v
    BY <1>2, <1>6, <1>7, <2>2 DEF SoundHasPicture
  <2> QED
    BY <2>1, <2>2
<1> QED
  BY <1>8, <1>9, <1>10, <1>11, <1>12, <1>13, <1>14, <1>15, <1>16

\* The second half of a reveal: the sound of a load that is gone by then is on record.
LEMMA HandRevealsStep ==
  ASSUME Typed, Typed', PictureInv, NEW s \in Slot, NEW t \in Thread, HandReveals(s, t)
  PROVE  PictureInv'
<1> USE DEF PictureInv
<1> DEFINE task == hand[s][t]
           v == task.voice
<1>1. UNCHANGED <<cue, output, status, next, trial>> /\ Texts' = Texts
  BY DEF HandReveals, Texts, IsKind
<1>2. task.do = "reveal" /\ Free \in Tasks /\ Free.do = "nothing" /\ Free.voice = None
  BY DEF HandReveals, Free, Tasks
<1>3. \A r \in Slot, u \in Thread : hand'[r][u] = IF r = s /\ u = t THEN Free ELSE hand[r][u]
  BY <1>2, OneHand DEF HandReveals
<1>4. \A r \in Slot : /\ slot'[r].voice = slot[r].voice /\ slot'[r].audio = slot[r].audio
                      /\ slot'[r].preloaded = slot[r].preloaded /\ slot'[r].unload = slot[r].unload
  BY DEF HandReveals, Typed, Contents
<1>5. \A u \in Voice : sound'[u] = "playing" => sound[u] = "playing" \/ (u = v /\ task.audio)
  BY DEF HandReveals, SoundOn, Typed
<1>6. /\ past'.failed = past.failed /\ past'.adrift = past.adrift /\ past'.unheard = past.unheard
      /\ past.raised \subseteq past'.raised
      /\ v # None /\ ~(slot[s].voice = v /\ ~slot[s].unload) => v \in past'.raised
  <2> DEFINE x == IF slot[s].voice = task.voice /\ ~slot[s].unload THEN past.raised
                  ELSE past.raised \cup ({task.voice, slot[s].voice} \ {None})
  <2>1. past' = [past EXCEPT !.raised = x]
    BY DEF HandReveals
  <2>2. /\ past.raised \subseteq x
        /\ v # None /\ ~(slot[s].voice = v /\ ~slot[s].unload) => v \in x
    OBVIOUS
  <2> HIDE DEF x, task, v
  <2> QED
    BY <2>1, <2>2 DEF Typed, Pasts
<1>7. task = hand[s][t] /\ v = hand[s][t].voice /\ None = 0 /\ 0 < next
  BY Constants DEF Typed
<1> HIDE DEF task, v
<1>8. \A r \in Slot, u \in Thread :
        hand'[r][u].do \in {"unload", "reveal"} => hand'[r][u] = hand[r][u]
  BY <1>2, <1>3
<1>9. \A r \in Slot, u \in Thread : hand[r][u].do = "unload" => hand'[r][u] = hand[r][u]
  BY <1>2, <1>3, <1>7
<1>10. Numbered'
  BY <1>1, <1>2, <1>3, <1>4, <1>7 DEF Numbered
<1>11. Single' /\ Vacated' /\ Disowned' /\ Hushed' /\ HeldBack'
  BY <1>1, <1>4 DEF Single, Vacated, Disowned, Hushed, HeldBack, Registered
<1>12. Settled' /\ RevealFits'
  BY <1>1, <1>4, <1>6, <1>8 DEF Settled, RevealFits
<1>13. UnloadFits'
  <2> SUFFICES ASSUME NEW r \in Slot, NEW u \in Thread, hand[r][u].do = "unload",
                      hand[r][u].voice # None, sound'[hand[r][u].voice] = "playing",
                      hand[r][u].voice \notin past'.raised
               PROVE  hand[r][u].audio
    BY <1>8 DEF UnloadFits
  <2>1. hand[r][u].voice \in Voice /\ hand[r][u].voice \notin past.raised
    BY <1>6, Basics
  <2>2. hand[r][u].voice # v
    BY <1>6 DEF Settled
  <2> QED
    BY <1>5, <2>1, <2>2 DEF UnloadFits
<1>14. Accounted'
  BY <1>1, <1>4, <1>6, <1>9 DEF Accounted
<1>15. PictureIsOwned'
  BY <1>1, <1>4, <1>6 DEF PictureIsOwned, Registered, Holder
<1>16. SoundHasPicture'
  <2> SUFFICES ASSUME NEW u \in Voice, sound'[u] = "playing"
               PROVE  \/ \E x \in Slot : slot'[x].voice = u /\ slot'[x].audio /\ ~slot'[x].preloaded
                      \/ \E x \in Slot, w \in Thread : hand'[x][w].do = "unload" /\ hand'[x][w].voice = u
                      \/ u \in past'.raised
    BY DEF SoundHasPicture
  <2>1. CASE sound[u] = "playing"
    BY <1>4, <1>6, <1>9, <2>1 DEF SoundHasPicture
  <2>2. CASE u = v /\ task.audio
    <3>1. u # None
      BY Constants
    <3>2. CASE slot[s].voice = v /\ ~slot[s].unload
      <4>1. slot[s].audio /\ ~slot[s].preloaded
        BY <1>2, <1>7, <2>2, <3>1, <3>2 DEF RevealFits
      <4> QED
        BY <1>4, <2>2, <3>2, <4>1
    <3>3. CASE ~(slot[s].voice = v /\ ~slot[s].unload)
      BY <1>6, <2>2, <3>1, <3>3
    <3> QED
      BY <3>2, <3>3
  <2> QED
    BY <1>5, <2>1, <2>2
<1> QED
  BY <1>10, <1>11, <1>12, <1>13, <1>14, <1>15, <1>16

\* The second half of an unload: the sound stops, and the cue hears of the end.
LEMMA HandUnloadsStep ==
  ASSUME Typed, Typed', PictureInv, NEW s \in Slot, NEW t \in Thread, HandUnloads(s, t)
  PROVE  PictureInv'
<1> USE DEF PictureInv
<1> DEFINE task == hand[s][t]
           v == task.voice
<1>1. UNCHANGED <<cue, slot, output, next, trial>> /\ Texts' = Texts
  BY DEF HandUnloads, Texts, IsKind
<1>2. task.do = "unload" /\ Free \in Tasks /\ Free.do = "nothing" /\ Free.voice = None
  BY DEF HandUnloads, Free, Tasks
<1>3. \A r \in Slot, u \in Thread : hand'[r][u] = IF r = s /\ u = t THEN Free ELSE hand[r][u]
  BY <1>2, OneHand DEF HandUnloads
<1>4. \A u \in Voice : sound'[u] = "playing" => sound[u] = "playing" /\ ~(u = v /\ task.audio)
  BY DEF HandUnloads, SoundOff, Typed
<1>5. /\ status \subseteq status'
      /\ \A m \in status' : m \in status \/ (m.voice = v /\ v # None /\ m.kind = "completed")
      /\ v # None => \E m \in status' : m.voice = v
  <2>1. status' = status \cup (IF v = None THEN {} ELSE {[kind |-> "completed", voice |-> v]})
    BY DEF HandUnloads, Reports
  <2> HIDE DEF v, task
  <2>2. CASE v = None
    BY <2>1, <2>2
  <2>3. CASE v # None
    <3> DEFINE told == [kind |-> "completed", voice |-> v]
    <3>1. status' = status \cup {told} /\ told.voice = v /\ told.kind = "completed"
      BY <2>1, <2>3
    <3> HIDE DEF told
    <3> QED
      BY <2>3, <3>1
  <2> QED
    BY <2>2, <2>3
<1>6. /\ past'.failed = past.failed /\ past'.adrift = past.adrift /\ past'.unheard = past.unheard
      /\ past.raised = past'.raised
  BY DEF HandUnloads, Typed, Pasts
<1>7. task = hand[s][t] /\ v = hand[s][t].voice /\ None = 0 /\ 0 < next
  BY Constants DEF Typed
<1> HIDE DEF task, v
<1>8. \A r \in Slot, u \in Thread :
        hand'[r][u].do \in {"unload", "reveal"} => hand'[r][u] = hand[r][u]
  BY <1>2, <1>3
<1>9. \A r \in Slot, u \in Thread :
        hand[r][u].do = "unload" => hand'[r][u] = hand[r][u] \/ (r = s /\ u = t)
  BY <1>2, <1>3, <1>7
<1>10. Numbered'
  <2>1. \A m \in status' : m.voice < next
    BY <1>5, <1>7 DEF Numbered
  <2> QED
    BY <1>1, <1>2, <1>3, <1>7, <2>1 DEF Numbered
<1>11. Single' /\ Vacated' /\ Disowned' /\ Hushed' /\ HeldBack'
  BY <1>1 DEF Single, Vacated, Disowned, Hushed, HeldBack, Registered
<1>12. Settled'
  <2>1. \A m \in status', r \in Slot : slot'[r].voice # m.voice
    BY <1>1, <1>2, <1>5, <1>7 DEF Settled
  <2> QED
    BY <1>1, <1>5, <1>6, <1>8, <2>1 DEF Settled
<1>13. RevealFits'
  BY <1>1, <1>8 DEF RevealFits
<1>14. UnloadFits'
  <2>1. \A r \in Slot, u \in Thread : hand[r][u].voice # None => hand[r][u].voice \in Voice
    BY Basics
  <2> QED
    BY <1>4, <1>6, <1>8, <2>1 DEF UnloadFits
<1>15. Accounted'
  BY <1>1, <1>5, <1>6, <1>7, <1>9 DEF Accounted
<1>16. PictureIsOwned'
  BY <1>1, <1>6 DEF PictureIsOwned, Registered, Holder
<1>17. SoundHasPicture'
  <2> SUFFICES ASSUME NEW u \in Voice, sound'[u] = "playing"
               PROVE  \/ \E x \in Slot : slot[x].voice = u /\ slot[x].audio /\ ~slot[x].preloaded
                      \/ \E x \in Slot, w \in Thread : hand'[x][w].do = "unload" /\ hand'[x][w].voice = u
                      \/ u \in past.raised
    BY <1>1, <1>6 DEF SoundHasPicture
  <2>1. sound[u] = "playing" /\ ~(u = v /\ task.audio) /\ u # None
    BY <1>4, Constants
  <2>2. CASE u = v
    BY <1>2, <1>7, <2>1, <2>2 DEF UnloadFits
  <2>3. CASE u # v
    BY <1>7, <1>9, <2>1, <2>3 DEF SoundHasPicture
  <2> QED
    BY <2>2, <2>3
<1> QED
  BY <1>10, <1>11, <1>12, <1>13, <1>14, <1>15, <1>16, <1>17

---------------------------------------------------------------------------
\* What go, the end of a pre-wait and the preload of a camera lead to.
LEMMA BeginsStep ==
  ASSUME Typed, Typed', PictureInv, NEW c \in Cue, NEW cues \in [Cue -> Cues], Spared(cues),
         NEW over, trial' = trial, hand' = hand, Begins(c, cues, over)
  PROVE  PictureInv'
<1>1. CASE trial.plan[c].kind \in {"video", "image"} /\ ShowPreloaded(c, cues, over)
  <2>1. ShowAgain(c) /\ cue' = [cues EXCEPT ![c] = Playing(cue[c].voice)]
        /\ UNCHANGED <<output, status, next, past>>
    BY <1>1 DEF ShowPreloaded
  <2>2. cue'[c].voice = cue[c].voice
    BY <2>1 DEF Playing
  <2>3. \A d \in Cue \ {c} : /\ cue'[d].voice = cue[d].voice
                             /\ cue'[d].preloaded = cue[d].preloaded \/ cue[d].voice = None
    BY <2>1 DEF Spared
  <2> QED
    BY <2>1, <2>2, <2>3, ShowAgainStep
<1>2. CASE \/ WaitFirst(c, cues, over)
           \/ trial.plan[c].kind = "text" /\ StartText(c, cues, over)
  <2>1. Quiet
    BY <1>2, BeginsQuiet
  <2> QED
    BY <2>1, QuietStep
<1>3. CASE trial.plan[c].kind # "text" /\ StartOrReset(c, cues, over)
  <2>1. PICK ok \in BOOLEAN :
          /\ Start(c, FALSE, ok, over)
          /\ cue' = [cues EXCEPT ![c] = IF ok THEN Playing(next)
                                        ELSE [@ EXCEPT !.state = "standby", !.waits = FALSE]]
    BY <1>3 DEF StartOrReset
  <2>2. CASE ok
    <3>1. next <= LastVoice /\ next' = next + 1 /\ ShowContent(c, FALSE, over)
      BY <2>1, <2>2 DEF Start
    <3>2. cue'[c].voice = next /\ cue'[c].preloaded = FALSE
      BY <2>1, <2>2 DEF Playing
    <3>3. \A d \in Cue \ {c} : /\ cue'[d].voice = cue[d].voice
                               /\ cue'[d].preloaded = cue[d].preloaded \/ cue[d].voice = None
      BY <2>1 DEF Spared
    <3> QED
      BY <1>3, <3>1, <3>2, <3>3, LoadStep
  <2>3. CASE ~ok
    <3>1. Start(c, FALSE, FALSE, over)
      BY <2>1, <2>3
    <3>2. cue' = [cues EXCEPT ![c] = [cues[c] EXCEPT !.state = "standby", !.waits = FALSE]]
      BY <2>1, <2>3
    <3>3. \A d \in Cue : cue'[d].voice = cues[d].voice /\ cue'[d].preloaded = cues[d].preloaded
      BY <3>2 DEF Cues
    <3>4. \A d \in Cue : /\ cue'[d].voice = cue[d].voice
                         /\ cue'[d].preloaded = cue[d].preloaded \/ cue[d].voice = None
      BY <3>3 DEF Spared
    <3>5. Quiet
      BY <3>1, <3>4, OutputForQuiet
    <3> QED
      BY <3>5, QuietStep
  <2> QED
    BY <2>2, <2>3
<1> QED
  BY <1>1, <1>2, <1>3 DEF Begins

\* A preload: the cue is paused with the voice it holds back, or nothing comes of it.
LEMMA PreloadStep ==
  ASSUME Typed, Typed', PictureInv, NEW c \in Cue, Preload(c)
  PROVE  PictureInv'
<1>1. hand' = hand /\ trial' = trial /\ trial.plan[c].kind # "text"
  BY DEF Preload, Call, IsKind
<1>2. PICK ok \in BOOLEAN :
        /\ Start(c, TRUE, ok, overlay)
        /\ IF ok THEN Set(c, [state |-> "paused", voice |-> next, waits |-> FALSE,
                              preloaded |-> TRUE])
           ELSE UNCHANGED cue
  BY DEF Preload
<1>3. CASE ok
  <2>1. next <= LastVoice /\ next' = next + 1 /\ ShowContent(c, TRUE, overlay)
    BY <1>2, <1>3 DEF Start
  <2>2. /\ cue'[c].voice = next /\ cue'[c].preloaded = TRUE
        /\ \A d \in Cue \ {c} : cue'[d] = cue[d]
    BY <1>2, <1>3 DEF Set, Typed
  <2> QED
    BY <1>1, <2>1, <2>2, LoadStep
<1>4. CASE ~ok
  <2>1. Start(c, TRUE, FALSE, overlay) /\ cue' = cue
    BY <1>2, <1>4
  <2>2. Quiet
    BY <1>1, <2>1, OutputForQuiet
  <2> QED
    BY <2>2, QuietStep
<1> QED
  BY <1>3, <1>4

\* A cue with a picture resumes.
LEMMA ResumeStep ==
  ASSUME Typed, Typed', PictureInv, NEW c \in Cue, Resume(c), ~IsKind(c, "text")
  PROVE  PictureInv'
<1>1. ShowAgain(c) /\ UNCHANGED <<hand, output, status, next, trial>>
  BY DEF Resume, ResumeVideo, ResumeImage, ResumeText, Call
<1>2. cue' = [cue EXCEPT ![c] = [cue[c] EXCEPT !.state = "running", !.preloaded = FALSE]]
  BY DEF Resume, Set
<1>3. cue'[c].voice = cue[c].voice /\ \A d \in Cue \ {c} : cue'[d] = cue[d]
  BY <1>2, Basics DEF Typed, Cues
<1>4. past'.failed = past.failed /\ past'.raised = past.raised /\ past'.adrift = past.adrift
      /\ past'.unheard = past.unheard
  BY DEF Resume, Typed, Pasts
<1> QED
  BY <1>1, <1>3, <1>4, ShowAgainStep

\* A test pattern and the teardown of an output empty its slots.
LEMMA EmptiedStep ==
  ASSUME Typed, Typed', PictureInv, NEW o \in Output, TestPattern(o) \/ Retire(o)
  PROVE  PictureInv'
<1> DEFINE S == { s \in Slot : OutputOf(s) = o }
<1>1. S \in SUBSET Slot /\ \A s \in Slot : OutputOf(s) = o => s \in S
  OBVIOUS
<1>2. HardUnload(S)
  BY DEF TestPattern, Retire
<1> HIDE DEF S
<1>3. UNCHANGED <<cue, hand, next, trial>>
  BY DEF TestPattern, Retire, Call
<1>4. past'.failed = past.failed /\ past'.raised = past.raised /\ past'.adrift = past.adrift
      /\ past'.unheard = past.unheard
  BY DEF TestPattern, Retire, Typed, Pasts
<1>5. \A p \in Output : p = o \/ output'[p] = output[p]
  BY DEF TestPattern, Retire, Typed
<1>6. output'[o] = output[o] \/ output'[o] = "none"
  BY DEF TestPattern, Retire, Typed
<1> QED
  BY <1>1, <1>2, <1>3, <1>4, <1>5, <1>6, HardUnloadStep

\* The picture's invariant is inductive: one case for each action.
LEMMA PictureStep ==
  ASSUME Typed, Typed', PictureInv, [Next]_vars
  PROVE  PictureInv'
<1>1. CASE UNCHANGED vars
  <2>1. Quiet
    BY <1>1, Basics DEF Quiet, vars
  <2> QED
    BY <2>1, QuietStep
<1>2. ASSUME NEW c \in Cue, Go(c) \/ PreWaitOver(c) \/ LoadCamera(c) PROVE PictureInv'
  <2>1. CASE Go(c)
    <3>1. PICK S \in StoppedByGo(c) : Begins(c, Rested(S), TextsOff(S))
      BY <2>1, GoBegins
    <3>2. Rested(S) \in [Cue -> Cues] /\ Spared(Rested(S))
      BY RestedSpared
    <3>3. trial' = trial /\ hand' = hand
      BY <2>1, GoBegins
    <3> QED
      BY <3>1, <3>2, <3>3, BeginsStep
  <2>2. CASE PreWaitOver(c) \/ LoadCamera(c)
    <3>1. Begins(c, cue, overlay) /\ trial' = trial /\ hand' = hand
      BY <2>2, WaitBegins, CameraBegins DEF Call
    <3>2. cue \in [Cue -> Cues] /\ Spared(cue)
      BY DEF Typed, Spared
    <3> QED
      BY <3>1, <3>2, BeginsStep
  <2> QED
    BY <1>2, <2>1, <2>2
<1>3. ASSUME NEW c \in Cue, Stop(c) PROVE PictureInv'
  <2>1. CASE TextStop(c)
    <3>1. Quiet
      BY <1>3, <2>1, QuietCalls
    <3> QED
      BY <3>1, QuietStep
  <2>2. CASE ~TextStop(c)
    <3>1. PICK fade \in BOOLEAN : LetGo(c, fade)
      BY <1>3, <2>2 DEF Stop, VideoStop, ImageStop, CameraStop
    <3>2. UNCHANGED <<hand, output, status, next, trial>>
      BY <1>3 DEF Stop, Call
    <3> QED
      BY <3>1, <3>2, LetGoStep
  <2> QED
    BY <2>1, <2>2
<1>4. ASSUME NEW c \in Cue, Resume(c) PROVE PictureInv'
  <2>1. CASE IsKind(c, "text")
    <3>1. Quiet
      BY <1>4, <2>1, QuietCalls
    <3> QED
      BY <3>1, QuietStep
  <2> QED
    BY <1>4, <2>1, ResumeStep
<1>5. ASSUME NEW c \in Cue, LoadText(c) \/ Pause(c) \/ Devamp(c) \/ FadeAtEnd(c) PROVE PictureInv'
  <2>1. Quiet
    BY <1>5, QuietCalls
  <2> QED
    BY <2>1, QuietStep
<1>6. CASE \/ \E S \in SUBSET Output : ClearTestPattern(S)
           \/ \E on \in BOOLEAN : SetOutputTimer(on)
           \/ \E o \in Output : Identify(o) \/ EndIdentify(o) \/ Built(o) \/ Unregister(o)
           \/ \E extras \in SUBSET trial.extras : SyncOutputs(extras)
           \/ \E v \in Voice : Collect(v)
  <2>1. Quiet
    BY <1>6, QuietOverlays
  <2> QED
    BY <2>1, QuietStep
<1>7. ASSUME ControlStep PROVE PictureInv'
  <2>1. \A S \in {{o} : o \in Output} \cup {{o \in Output : output[o] = "live"}} :
          S \in SUBSET Output
    OBVIOUS
  <2> QED
    BY <1>2, <1>3, <1>4, <1>5, <1>6, <1>7, <2>1, PreloadStep, EventLoopStep, PanicStep, EmptiedStep
    DEF ControlStep
<1>8. ASSUME NEW s \in Slot, SlotStep(s) PROVE PictureInv'
  <2>1. CASE \/ FadeLands(s) \/ FileLoaded(s) \/ Opens(s) \/ Fails(s) \/ Ends(s)
             \/ \E t \in Thread : HandStops(s, t)
    <3>1. Quiet
      BY <2>1, QuietSlots
    <3> QED
      BY <3>1, QuietStep
  <2> QED
    BY <1>8, <2>1, TakeStep, ReleaseStep, FileEndsStep, SliceEndsStep, HandRevealsStep,
       HandUnloadsStep
    DEF SlotStep
<1> QED
  BY <1>1, <1>7, <1>8 DEF Next

---------------------------------------------------------------------------
\* A text has something to be drawn on, or the output believes that it has.
Backed(o) == o.surface # "none" \/ o.dummy \/ o.pattern

\* What a call does to what an overlay shows.
LEMMA LayerFacts ==
  ASSUME NEW T, NEW o \in Layers(T)
  PROVE  /\ \A b \in BOOLEAN :
              /\ TextCleared(o, b).text = {} /\ (b => TextCleared(o, b).curtain = o.curtain)
              /\ TimerSet(o, b).text = o.text /\ TimerSet(o, b).curtain = o.curtain
              /\ (o.text # {} /\ Backed(o) => Backed(TimerSet(o, b)))
         /\ \A what \in T \cup {"label"} :
              /\ TextShown(o, what).text = {what} /\ TextShown(o, what).curtain = "open"
              /\ Backed(TextShown(o, what))
         /\ PatternShown(o).text = o.text /\ PatternShown(o).curtain = "open"
         /\ Backed(PatternShown(o))
         /\ PatternCleared(o).text = o.text /\ Panicked(o).text = o.text
         /\ Dark.text = {}
<1>0. \A r \in Layers(T) : r.dummy \in BOOLEAN /\ r.pattern \in BOOLEAN /\ r.timer \in BOOLEAN
  BY DEF Layers
<1>1. \A r \in Layers(T) : /\ WithSurface(r) \in Layers(T) /\ WithSurface(r).text = r.text
                           /\ WithSurface(r).curtain = r.curtain /\ Backed(WithSurface(r))
  BY DEF WithSurface, Backed, Layers, Surfaces
<1>2. \A r \in Layers(T) : /\ Released(r) \in Layers(T) /\ Released(r).text = r.text
                           /\ Released(r).curtain = r.curtain
                           /\ (r.text # {} => Released(r) = r)
  BY DEF Released, Active, Layers, Surfaces
<1>3. ASSUME NEW b \in BOOLEAN
      PROVE  TextCleared(o, b).text = {} /\ (b => TextCleared(o, b).curtain = o.curtain)
  <2> DEFINE q == [o EXCEPT !.text = {}]
             r == Released(q)
  <2>1. q \in Layers(T) /\ q.text = {} /\ q.curtain = o.curtain
    BY DEF Layers
  <2>2. TextCleared(o, b) = IF b THEN r ELSE [r EXCEPT !.curtain = "closed"]
    BY DEF TextCleared
  <2> HIDE DEF q
  <2>3. r \in Layers(T) /\ r.text = {} /\ r.curtain = o.curtain
    BY <1>2, <2>1
  <2> HIDE DEF r
  <2> QED
    BY <2>2, <2>3 DEF Layers
<1>4. ASSUME NEW what \in T \cup {"label"}
      PROVE  /\ TextShown(o, what).text = {what} /\ TextShown(o, what).curtain = "open"
             /\ Backed(TextShown(o, what))
  <2> DEFINE q == [o EXCEPT !.text = {what}]
             r == WithSurface(q)
  <2>1. q \in Layers(T) /\ q.text = {what}
    BY DEF Layers
  <2>2. TextShown(o, what) = [r EXCEPT !.curtain = "open"]
    BY DEF TextShown
  <2> HIDE DEF q
  <2>3. r \in Layers(T) /\ r.text = {what} /\ Backed(r)
    BY <1>1, <2>1
  <2> HIDE DEF r
  <2> QED
    BY <2>2, <2>3 DEF Layers, Backed
<1>5. ASSUME NEW b \in BOOLEAN
      PROVE  /\ TimerSet(o, b).text = o.text /\ TimerSet(o, b).curtain = o.curtain
             /\ (o.text # {} /\ Backed(o) => Backed(TimerSet(o, b)))
  <2> DEFINE q == [o EXCEPT !.timer = TRUE]
             r == [o EXCEPT !.timer = FALSE]
  <2>1. /\ q \in Layers(T) /\ q.text = o.text /\ q.curtain = o.curtain
        /\ r \in Layers(T) /\ r.text = o.text /\ r.curtain = o.curtain
        /\ (Backed(o) => Backed(r))
    BY DEF Layers, Backed
  <2>2. TimerSet(o, b) = IF b THEN WithSurface(q) ELSE Released(r)
    BY DEF TimerSet
  <2> HIDE DEF q, r
  <2> QED
    BY <1>1, <1>2, <2>1, <2>2
<1>6. /\ PatternShown(o).text = o.text /\ PatternShown(o).curtain = "open" /\ Backed(PatternShown(o))
      /\ Panicked(o).text = o.text /\ Dark.text = {}
  BY DEF PatternShown, Panicked, Dark, Backed, Layers, Surfaces
<1>7. PatternCleared(o).text = o.text
  <2> DEFINE r == [o EXCEPT !.pattern = FALSE, !.surface = "none"]
             q == IF Active(r) THEN WithSurface(r) ELSE r
  <2>1. r \in Layers(T) /\ r.text = o.text
    BY DEF Layers, Surfaces
  <2>2. q \in Layers(T) /\ q.text = o.text
    <3> HIDE DEF r
    <3> QED
      BY <1>1, <2>1
  <2>3. PatternCleared(o) = [q EXCEPT !.curtain = "closed"]
    BY DEF PatternCleared
  <2> HIDE DEF q
  <2> QED
    BY <2>2, <2>3 DEF Layers
<1> QED
  BY <1>3, <1>4, <1>5, <1>6, <1>7

\* Text is cleared on the outputs of some Text Cues: their curtain stays up over a picture.
LEMMA TextsOffIs ==
  ASSUME Typed, NEW S
  PROVE  \A o \in Output :
           /\ TextsOff(S)[o].text = IF o \in TextOutputs(S) THEN {} ELSE overlay[o].text
           /\ o \notin TextOutputs(S) => TextsOff(S)[o] = overlay[o]
           /\ Busy(o) => TextsOff(S)[o].curtain = overlay[o].curtain
<1> SUFFICES ASSUME NEW o \in Output
             PROVE  /\ TextsOff(S)[o].text = IF o \in TextOutputs(S) THEN {} ELSE overlay[o].text
                    /\ o \notin TextOutputs(S) => TextsOff(S)[o] = overlay[o]
                    /\ Busy(o) => TextsOff(S)[o].curtain = overlay[o].curtain
  OBVIOUS
<1>1. overlay[o] \in Layers(Texts) /\ Busy(o) \in BOOLEAN
  BY DEF Typed, Busy
<1>2. /\ TextCleared(overlay[o], Busy(o)).text = {}
      /\ Busy(o) => TextCleared(overlay[o], Busy(o)).curtain = overlay[o].curtain
  BY <1>1, LayerFacts
<1> QED
  BY <1>2 DEF TextsOff

---------------------------------------------------------------------------
\* The curtain of an output is still up over what is on it: it was, or there is nothing new
\* under it.
Covers(o) ==
  \/ overlay'[o].curtain = "open" \/ o \in past'.shut
  \/ output'[o] # "live"
  \/ \A s \in Slot : OutputOf(s) = o => slot'[s].voice = None \/ slot'[s].unload
  \/ /\ output[o] = "live" /\ (o \in past.shut => o \in past'.shut)
     /\ Busy(o) /\ overlay[o].curtain = "open" => overlay'[o].curtain = "open"
     /\ \A s \in Slot : OutputOf(s) = o /\ slot'[s].voice # None /\ ~slot'[s].unload
                          => slot[s].voice # None /\ ~slot[s].unload

\* A step that covers no output keeps the curtains up.
LEMMA CurtainKept ==
  ASSUME CurtainIsUp, \A o \in Output : Covers(o)
  PROVE  CurtainIsUp'
<1> SUFFICES ASSUME NEW s \in Slot, slot'[s].voice # None, ~slot'[s].unload,
                    output'[OutputOf(s)] = "live"
             PROVE  overlay'[OutputOf(s)].curtain = "open" \/ OutputOf(s) \in past'.shut
  BY DEF CurtainIsUp
<1>1. OutputOf(s) \in Output /\ Covers(OutputOf(s))
  BY Constants
<1> QED
  BY <1>1 DEF Covers, CurtainIsUp, Busy

\* No slot gets content that stays.
NoNewPicture == \A s \in Slot : slot'[s].voice # None /\ ~slot'[s].unload
                                  => slot[s].voice # None /\ ~slot[s].unload

\* What the threads of an output do leaves the curtain alone, and brings nothing new.
LEMMA SlotsCurtain ==
  ASSUME Typed, CurtainIsUp, NEW s \in Slot, SlotStep(s)
  PROVE  CurtainIsUp'
<1>1. UNCHANGED <<output, overlay>> /\ past'.shut = past.shut
  <2>1. UNCHANGED <<output, overlay>>
    BY DEF SlotStep, WatchdogReveals, FadeLands, Release, FileLoaded, FirstFrame, FileEnds,
           SliceEnds, Opens, Fails, Ends, HandStops, HandReveals, HandUnloads, above
  <2>2. past'.shut = past.shut
    BY DEF SlotStep, WatchdogReveals, FadeLands, Release, FileLoaded, FirstFrame, FileEnds,
           SliceEnds, Opens, Fails, Ends, HandStops, HandReveals, HandUnloads, Typed, Pasts
  <2> QED
    BY <2>1, <2>2
<1>2. NoNewPicture
  <2>0. slot \in [Slot -> Contents] /\ IdleSlot.voice = None
    BY DEF Typed, IdleSlot
  <2>1. CASE FadeLands(s) \/ FileLoaded(s) \/ Opens(s) \/ Fails(s) \/ Ends(s)
             \/ \E t \in Thread : HandStops(s, t)
    BY <2>1, QuietSlots DEF Quiet, NoNewPicture
  <2>2. CASE WatchdogReveals(s) \/ FirstFrame(s)
    BY <2>0, <2>2 DEF WatchdogReveals, FirstFrame, Taken, Contents, NoNewPicture
  <2>3. CASE Release(s)
    BY <2>0, <2>3 DEF Release, Contents, NoNewPicture
  <2>4. CASE FileEnds(s) \/ SliceEnds(s)
    BY <2>0, <2>4 DEF FileEnds, SliceEnds, NoNewPicture
  <2>5. CASE \E t \in Thread : HandReveals(s, t) \/ HandUnloads(s, t)
    BY <2>0, <2>5 DEF HandReveals, HandUnloads, Contents, NoNewPicture
  <2> QED
    BY <2>1, <2>2, <2>3, <2>4, <2>5 DEF SlotStep
<1>3. \A o \in Output : Covers(o)
  BY <1>1, <1>2 DEF Covers, NoNewPicture
<1> QED
  BY <1>3, CurtainKept

\* A text that comes up lifts the curtain.
LEMMA TextUpCurtain ==
  ASSUME Typed, CurtainIsUp, NEW c \in Texts, NEW over \in [Output -> Layers(Texts)],
         \A o \in Output : Busy(o) => over[o].curtain = overlay[o].curtain,
         TextUp(c, over)
  PROVE  CurtainIsUp'
<1> DEFINE p == trial.plan[c].to
<1>0. p \in Output /\ past \in Pasts(Texts) /\ slot' = slot
  BY PlanIs, Constants DEF Typed, TextUp
<1>1. CASE overlay' = [over EXCEPT ![p] = TextShown(over[p], c)] /\ output' = output
           /\ past' = [past EXCEPT !.covered = (@ \cup (over[p].text \cap Texts)) \ {c},
                                   !.left = @ \ {c}, !.shut = @ \ {p}]
  <2>1. TextShown(over[p], c).curtain = "open"
    <3> HIDE DEF p
    <3>1. over[p] \in Layers(Texts) /\ c \in Texts \cup {"label"}
      BY <1>0
    <3> QED
      BY <3>1, LayerFacts
  <2>2. past'.shut = past.shut \ {p}
    BY <1>0, <1>1 DEF Pasts
  <2> HIDE DEF p
  <2>3. \A o \in Output : Covers(o)
    BY <1>0, <1>1, <2>1, <2>2 DEF Covers
  <2> QED
    BY <2>3, CurtainKept
<1>2. CASE Refused(p) /\ overlay' = over /\ past' = [past EXCEPT !.covered = @ \cup {c}]
  <2>1. past'.shut = past.shut
    BY <1>0, <1>2 DEF Pasts
  <2>2. \A o \in Output : output'[o] = "live" => output[o] = "live"
    BY <1>2 DEF Refused, Typed
  <2>3. \A o \in Output : Covers(o)
    BY <1>0, <1>2, <2>1, <2>2 DEF Covers
  <2> QED
    BY <2>3, CurtainKept
<1> QED
  BY <1>1, <1>2 DEF TextUp

\* A load that reaches its output lifts the curtain, one that does not brings nothing.
LEMMA StartCurtain ==
  ASSUME Typed, CurtainIsUp, NEW c \in Cue, NEW over \in [Output -> Layers(Texts)],
         \A o \in Output : Busy(o) => over[o].curtain = overlay[o].curtain,
         NEW preload \in BOOLEAN, NEW ok \in BOOLEAN, Start(c, preload, ok, over)
  PROVE  CurtainIsUp'
<1>1. CASE ok
  <2>1. next <= LastVoice /\ ShowContent(c, preload, over)
    BY <1>1 DEF Start
  <2>2. PICK s \in Slot, r \in Contents : Loads(c, preload, over, s, r)
    BY <2>1, ShowContentIs
  <2> DEFINE p == OutputOf(s)
  <2>3. /\ p \in Output /\ output' = output /\ slot' = [slot EXCEPT ![s] = r]
        /\ overlay' = [over EXCEPT ![p].curtain = "open"]
        /\ past'.shut = past.shut \ {p}
    BY <2>2, Constants DEF Loads, Typed, Pasts
  <2>4. \A x \in Slot : OutputOf(x) # p => slot'[x] = slot[x]
    BY <2>3 DEF Typed
  <2> HIDE DEF p
  <2>5. overlay'[p].curtain = "open" /\ \A o \in Output : o # p => overlay'[o] = over[o]
    BY <2>3 DEF Layers
  <2>6. \A o \in Output : Covers(o)
    BY <2>3, <2>4, <2>5 DEF Covers
  <2> QED
    BY <2>6, CurtainKept
<1>2. CASE ~ok
  <2>1. Refused(trial.plan[c].to) /\ overlay' = over /\ UNCHANGED <<slot, past>>
    BY <1>2 DEF Start, OutputFor
  <2>2. \A o \in Output : output'[o] = "live" => output[o] = "live"
    BY <2>1 DEF Refused, Typed
  <2>3. \A o \in Output : Covers(o)
    BY <2>1, <2>2 DEF Covers
  <2> QED
    BY <2>3, CurtainKept
<1> QED
  BY <1>1, <1>2

\* A GO lifts the curtain over what it loads or shows, and closes none that is in use.
LEMMA BeginsCurtain ==
  ASSUME Typed, PictureInv, CurtainIsUp, NEW c \in Cue, NEW cues \in [Cue -> Cues], Spared(cues),
         NEW over \in [Output -> Layers(Texts)], trial' = trial, hand' = hand,
         \A o \in Output : Busy(o) => over[o].curtain = overlay[o].curtain,
         Begins(c, cues, over)
  PROVE  CurtainIsUp'
<1>0. slot \in [Slot -> Contents] /\ past \in Pasts(Texts)
  BY DEF Typed
<1>1. CASE trial.plan[c].kind \in {"video", "image"} /\ ShowPreloaded(c, cues, over)
  <2>1. ShowAgain(c) /\ overlay' = over /\ UNCHANGED <<output, past>>
    BY <1>1 DEF ShowPreloaded
  <2>2. NoNewPicture
    BY <1>0, <2>1 DEF ShowAgain, Contents, NoNewPicture
  <2>3. \A o \in Output : Covers(o)
    BY <2>1, <2>2 DEF Covers, NoNewPicture
  <2> QED
    BY <2>3, CurtainKept
<1>2. CASE WaitFirst(c, cues, over)
  <2>1. overlay' = over /\ UNCHANGED <<slot, output, past>>
    BY <1>2 DEF WaitFirst
  <2>2. \A o \in Output : Covers(o)
    BY <2>1 DEF Covers
  <2> QED
    BY <2>2, CurtainKept
<1>3. CASE trial.plan[c].kind = "text" /\ StartText(c, cues, over)
  <2>1. TextUp(c, over) /\ slot' = slot /\ trial.plan[c].to \in Output /\ c \in Texts
    BY <1>3, PlanIs DEF StartText, TextUp, Texts, IsKind
  <2> QED
    BY <2>1, TextUpCurtain
<1>4. ASSUME NEW preload \in BOOLEAN, NEW ok \in BOOLEAN, Start(c, preload, ok, over)
      PROVE  CurtainIsUp'
  BY <1>4, StartCurtain
<1>5. CASE trial.plan[c].kind # "text" /\ StartOrReset(c, cues, over)
  BY <1>4, <1>5 DEF StartOrReset
<1> QED
  BY <1>1, <1>2, <1>3, <1>5 DEF Begins

\* What the cues do besides.
LEMMA CallsCurtain ==
  ASSUME Typed, PictureInv, CurtainIsUp, NEW c \in Cue,
         \/ LoadText(c) \/ Stop(c) \/ Pause(c) \/ Resume(c) \/ Devamp(c) \/ FadeAtEnd(c)
         \/ TimeDone(c)
  PROVE  CurtainIsUp'
<1>0. slot \in [Slot -> Contents] /\ past \in Pasts(Texts)
  BY DEF Typed
<1>1. CASE LoadText(c)
  <2>1. c \in Texts
    BY <1>1 DEF LoadText, Texts
  <2>2. CASE TextUp(c, overlay)
    BY <2>1, <2>2, TextUpCurtain DEF Typed
  <2>3. CASE UNCHANGED <<slot, mpv, sound, output, overlay, status, next, past>>
    <3>1. \A o \in Output : Covers(o)
      BY <2>3 DEF Covers
    <3> QED
      BY <3>1, CurtainKept
  <2> QED
    BY <1>1, <2>2, <2>3 DEF LoadText
<1>2. CASE Stop(c) /\ TextStop(c)
  <2>1. overlay' = TextsOff({c}) /\ UNCHANGED <<slot, output>> /\ past'.shut = past.shut
    BY <1>0, <1>2 DEF Stop, TextStop, Pasts
  <2>2. \A o \in Output : Busy(o) => overlay'[o].curtain = overlay[o].curtain
    BY <2>1, TextsOffIs
  <2>3. \A o \in Output : Covers(o)
    BY <2>1, <2>2 DEF Covers
  <2> QED
    BY <2>3, CurtainKept
<1>3. CASE Stop(c) /\ ~TextStop(c)
  <2>1. PICK fade \in BOOLEAN : LetGo(c, fade)
    BY <1>3 DEF Stop, VideoStop, ImageStop, CameraStop
  <2>2. UNCHANGED <<overlay, output, past>>
    BY <1>3, <2>1 DEF Stop, LetGo
  <2>3. NoNewPicture
    <3> DEFINE S == SlotsOf(cue[c].voice)
    <3>1. slot' = [s \in Slot |-> IF s \in S THEN FadingOut(slot[s], fade) ELSE slot[s]]
      BY <2>1 DEF LetGo, Stopping
    <3> HIDE DEF S
    <3>2. \A s \in Slot : slot'[s].voice = slot[s].voice /\ (slot[s].unload => slot'[s].unload)
      BY <1>0, <3>1 DEF FadingOut, Contents
    <3> QED
      BY <3>2 DEF NoNewPicture
  <2>4. \A o \in Output : Covers(o)
    BY <2>2, <2>3 DEF Covers, NoNewPicture
  <2> QED
    BY <2>4, CurtainKept
<1>4. CASE Pause(c) \/ Devamp(c) \/ FadeAtEnd(c) \/ TimeDone(c) \/ Resume(c)
  <2>1. UNCHANGED <<overlay, output>> /\ past'.shut = past.shut
    BY <1>0, <1>4 DEF Pause, Devamp, FadeAtEnd, TimeDone, Resume, above, Pasts
  <2>2. NoNewPicture
    <3>1. CASE Pause(c) \/ Devamp(c) \/ FadeAtEnd(c)
      BY <3>1, QuietCalls DEF Quiet, NoNewPicture
    <3>2. CASE TimeDone(c)
      BY <3>2 DEF TimeDone, NoNewPicture
    <3>3. CASE Resume(c)
      <4>1. ShowAgain(c) \/ slot' = slot
        BY <3>3 DEF Resume, ResumeVideo, ResumeImage, ResumeText
      <4>2. ShowAgain(c) => NoNewPicture
        <5> SUFFICES ASSUME ShowAgain(c) PROVE NoNewPicture
          OBVIOUS
        <5>1. PICK W : slot' = [s \in Slot |->
                IF s \in W
                THEN [slot[s] EXCEPT !.reveal = FALSE, !.preloaded = FALSE, !.light = "rising"]
                ELSE slot[s]]
          BY DEF ShowAgain
        <5>2. \A s \in Slot : slot'[s].voice = slot[s].voice /\ slot'[s].unload = slot[s].unload
          BY <1>0, <5>1 DEF Contents
        <5> QED
          BY <5>2 DEF NoNewPicture
      <4> QED
        BY <4>1, <4>2 DEF NoNewPicture
    <3> QED
      BY <1>4, <3>1, <3>2, <3>3
  <2>3. \A o \in Output : Covers(o)
    BY <2>1, <2>2 DEF Covers, NoNewPicture
  <2> QED
    BY <2>3, CurtainKept
<1> QED
  BY <1>1, <1>2, <1>3, <1>4

\* What is put on the overlays and taken off them.
LEMMA OverlaysCurtain ==
  ASSUME Typed, CurtainIsUp,
         \/ \E S \in SUBSET Output : ClearTestPattern(S)
         \/ \E on \in BOOLEAN : SetOutputTimer(on)
         \/ \E o \in Output : TestPattern(o) \/ Identify(o) \/ EndIdentify(o)
         \/ Panic
  PROVE  CurtainIsUp'
<1>0. /\ slot \in [Slot -> Contents] /\ past \in Pasts(Texts) /\ MainOutput \in Output
      /\ overlay \in [Output -> Layers(Texts)] /\ IdleSlot.voice = None
      /\ \A o \in Output : overlay[o] \in Layers(Texts) /\ Busy(o) \in BOOLEAN
  BY Constants DEF Typed, IdleSlot, Busy
<1>1. ASSUME NEW S \in SUBSET Output, ClearTestPattern(S) PROVE CurtainIsUp'
  <2>1. /\ overlay' = [o \in Output |-> IF o \in S THEN PatternCleared(overlay[o]) ELSE overlay[o]]
        /\ past'.shut = past.shut \cup { o \in S : Busy(o) } /\ UNCHANGED <<slot, output>>
    BY <1>0, <1>1 DEF ClearTestPattern, Pasts
  <2>2. \A o \in Output : Covers(o)
    BY <2>1 DEF Covers, Busy
  <2> QED
    BY <2>2, CurtainKept
<1>2. ASSUME NEW on \in BOOLEAN, SetOutputTimer(on) PROVE CurtainIsUp'
  <2>1. /\ overlay' = [overlay EXCEPT ![MainOutput] = TimerSet(overlay[MainOutput], on)]
        /\ UNCHANGED <<past, slot, output>>
    BY <1>2 DEF SetOutputTimer, Shows
  <2>2. TimerSet(overlay[MainOutput], on).curtain = overlay[MainOutput].curtain
    BY <1>0, LayerFacts
  <2>3. \A o \in Output : Covers(o)
    BY <1>0, <2>1, <2>2 DEF Covers
  <2> QED
    BY <2>3, CurtainKept
<1>3. ASSUME NEW o \in Output, TestPattern(o) PROVE CurtainIsUp'
  <2>1. NoNewPicture /\ output' = output /\ \A s \in Slot : OutputOf(s) = o => slot'[s].voice = None
    BY <1>0, <1>3 DEF TestPattern, HardUnload, Unloaded, NoNewPicture
  <2>2. \A p \in Output : p # o => overlay'[p] = overlay[p] /\ (p \in past.shut => p \in past'.shut)
    BY <1>0, <1>3 DEF TestPattern, Shows, Pasts
  <2>3. \A p \in Output : Covers(p)
    BY <2>1, <2>2 DEF Covers, NoNewPicture
  <2> QED
    BY <2>3, CurtainKept
<1>4. ASSUME NEW o \in Output, Identify(o) PROVE CurtainIsUp'
  <2>1. CASE /\ overlay' = [overlay EXCEPT ![o] = TextShown(overlay[o], "label")]
             /\ output' = output /\ past'.shut = past.shut \ {o}
    <3>1. TextShown(overlay[o], "label").curtain = "open"
      BY <1>0, LayerFacts
    <3>2. \A p \in Output : Covers(p)
      BY <1>0, <1>4, <2>1, <3>1 DEF Identify, Covers
    <3> QED
      BY <3>2, CurtainKept
  <2>2. CASE Refused(o) /\ UNCHANGED overlay /\ past'.shut = past.shut
    <3>1. \A p \in Output : output'[p] = "live" => output[p] = "live"
      BY <2>2 DEF Refused, Typed
    <3>2. \A p \in Output : Covers(p)
      BY <1>4, <2>2, <3>1 DEF Identify, Covers
    <3> QED
      BY <3>2, CurtainKept
  <2> QED
    BY <1>0, <1>4, <2>1, <2>2 DEF Identify, Shows, Pasts
<1>5. ASSUME NEW o \in Output, EndIdentify(o) PROVE CurtainIsUp'
  <2>1. CASE /\ overlay' = [overlay EXCEPT ![o] = TextCleared(overlay[o], Busy(o))]
             /\ output' = output /\ past'.shut = past.shut
    <3>1. Busy(o) => TextCleared(overlay[o], Busy(o)).curtain = overlay[o].curtain
      BY <1>0, LayerFacts
    <3>2. \A p \in Output : Covers(p)
      BY <1>0, <1>5, <2>1, <3>1 DEF EndIdentify, Covers
    <3> QED
      BY <3>2, CurtainKept
  <2>2. CASE Refused(o) /\ UNCHANGED <<overlay, past>>
    <3>1. \A p \in Output : output'[p] = "live" => output[p] = "live"
      BY <2>2 DEF Refused, Typed
    <3>2. \A p \in Output : Covers(p)
      BY <1>5, <2>2, <3>1 DEF EndIdentify, Covers
    <3> QED
      BY <3>2, CurtainKept
  <2> QED
    BY <1>0, <1>5, <2>1, <2>2 DEF EndIdentify, Shows, Pasts
<1>6. CASE Panic
  <2>1. output' = output /\ \A s \in Slot : Registered(OutputOf(s)) => slot'[s].voice = None
    BY <1>0, <1>6 DEF Panic, Unloaded
  <2>2. \A o \in Output : Covers(o)
    BY <2>1 DEF Covers, Registered
  <2> QED
    BY <2>2, CurtainKept
<1> QED
  BY <1>1, <1>2, <1>3, <1>4, <1>5, <1>6

\* What the event loop and the outputs do: one that opens has its slots empty.
LEMMA OutputsCurtain ==
  ASSUME Typed, PictureInv, CurtainIsUp,
         \/ EventLoopDrains \/ \E v \in Voice : Collect(v)
         \/ \E o \in Output : Built(o) \/ Unregister(o) \/ Retire(o)
         \/ \E extras \in SUBSET trial.extras : SyncOutputs(extras)
  PROVE  CurtainIsUp'
<1>0. /\ slot \in [Slot -> Contents] /\ past \in Pasts(Texts) /\ IdleSlot.voice = None
      /\ output \in [Output -> Presences] /\ overlay \in [Output -> Layers(Texts)]
      /\ \A s \in Slot : OutputOf(s) \in Output
  BY Constants DEF Typed, IdleSlot
<1>1. CASE EventLoopDrains \/ \E v \in Voice : Collect(v)
  <2>1. UNCHANGED <<slot, output, overlay>> /\ past'.shut = past.shut
    <3>1. CASE EventLoopDrains
      BY <1>0, <3>1, TickRecords DEF EventLoopDrains, above, Pasts
    <3>2. CASE \E v \in Voice : Collect(v)
      BY <3>2 DEF Collect, above
    <3> QED
      BY <1>1, <3>1, <3>2
  <2>2. \A o \in Output : Covers(o)
    BY <2>1 DEF Covers
  <2> QED
    BY <2>2, CurtainKept
<1>2. ASSUME NEW o \in Output, Built(o) PROVE CurtainIsUp'
  <2>1. /\ output[o] = "opening" /\ UNCHANGED <<slot, past>>
        /\ \A p \in Output : p # o => overlay'[p] = overlay[p] /\ output'[p] = output[p]
    BY <1>0, <1>2 DEF Built
  <2>2. \A s \in Slot : OutputOf(s) = o => slot[s].voice = None
    BY <2>1 DEF PictureInv, Vacated
  <2>3. \A p \in Output : Covers(p)
    BY <2>1, <2>2 DEF Covers
  <2> QED
    BY <2>3, CurtainKept
<1>3. ASSUME NEW o \in Output, Unregister(o) \/ Retire(o) PROVE CurtainIsUp'
  <2>1. /\ UNCHANGED <<overlay, past>> /\ NoNewPicture
        /\ \A p \in Output : output'[p] = "live" => output[p] = "live"
    BY <1>0, <1>3 DEF Unregister, Retire, HardUnload, Unloaded, NoNewPicture, above
  <2>2. \A p \in Output : Covers(p)
    BY <2>1 DEF Covers, NoNewPicture
  <2> QED
    BY <2>2, CurtainKept
<1>4. ASSUME NEW extras \in SUBSET trial.extras, SyncOutputs(extras) PROVE CurtainIsUp'
  <2>1. /\ UNCHANGED <<overlay, slot>> /\ past'.shut = past.shut
        /\ \A p \in Output : output'[p] = "live" => output[p] = "live"
    BY <1>0, <1>4 DEF SyncOutputs, above, Pasts
  <2>2. \A p \in Output : Covers(p)
    BY <2>1 DEF Covers
  <2> QED
    BY <2>2, CurtainKept
<1> QED
  BY <1>1, <1>2, <1>3, <1>4

\* The curtains are up after every step.
LEMMA CurtainStep ==
  ASSUME Typed, PictureInv, CurtainIsUp, [Next]_vars
  PROVE  CurtainIsUp'
<1>1. CASE UNCHANGED vars
  <2>1. \A o \in Output : Covers(o)
    BY <1>1 DEF Covers, vars, above
  <2> QED
    BY <2>1, CurtainKept
<1>2. ASSUME NEW c \in Cue, Go(c) PROVE CurtainIsUp'
  <2>1. PICK S \in StoppedByGo(c) : Begins(c, Rested(S), TextsOff(S))
    BY <1>2, GoBegins
  <2>2. Rested(S) \in [Cue -> Cues] /\ Spared(Rested(S)) /\ TextsOff(S) \in [Output -> Layers(Texts)]
    BY RestedSpared, TextsOffTyped
  <2>3. \A o \in Output : Busy(o) => TextsOff(S)[o].curtain = overlay[o].curtain
    BY TextsOffIs
  <2>4. trial' = trial /\ hand' = hand
    BY <1>2, GoBegins
  <2> QED
    BY <2>1, <2>2, <2>3, <2>4, BeginsCurtain
<1>3. ASSUME NEW c \in Cue, PreWaitOver(c) \/ LoadCamera(c) PROVE CurtainIsUp'
  <2>1. Begins(c, cue, overlay) /\ trial' = trial /\ hand' = hand
    BY <1>3, WaitBegins, CameraBegins DEF Call
  <2>2. cue \in [Cue -> Cues] /\ Spared(cue) /\ overlay \in [Output -> Layers(Texts)]
    BY DEF Typed, Spared
  <2> QED
    BY <2>1, <2>2, BeginsCurtain
<1>4. ASSUME NEW c \in Cue, Preload(c) PROVE CurtainIsUp'
  <2>1. PICK ok \in BOOLEAN : Start(c, TRUE, ok, overlay)
    BY <1>4 DEF Preload
  <2> QED
    BY <2>1, StartCurtain DEF Typed
<1>5. CASE ControlStep
  <2>1. \A S \in {{o} : o \in Output} \cup {{o \in Output : output[o] = "live"}} :
          S \in SUBSET Output
    OBVIOUS
  <2> QED
    BY <1>2, <1>3, <1>4, <1>5, <2>1, CallsCurtain, OverlaysCurtain, OutputsCurtain DEF ControlStep
<1>6. CASE \E s \in Slot : SlotStep(s)
  BY <1>6, SlotsCurtain
<1> QED
  BY <1>1, <1>5, <1>6 DEF Next

---------------------------------------------------------------------------
\* What is claimed of the texts, of cues and overlays that may be those in between: a GO
\* puts other Text Cues to rest before it shows its own.
OneIn(layers) ==
  \A o \in Output, what \in Texts \cup {"label"} :
    what \in layers[o].text => /\ layers[o].text = {what}
                               /\ what # "label" => trial.plan[what].to = o
SeenIn(cues, layers) ==
  \A c \in Texts :
    cues[c].state # "standby" /\ ~cues[c].waits /\ c \notin past.covered =>
      LET p == trial.plan[c].to IN
      /\ layers[p].text = {c} => output[p] = "live" /\ layers[p].curtain = "open" /\ Backed(layers[p])
      /\ cues[c].state = "running" => layers[p].text = {c}
LeftIn(cues, layers) ==
  \A o \in Output, what \in Texts \cup {"label"} :
    output[o] = "live" /\ what \in layers[o].text /\ what \notin past.left =>
      IF what = "label" THEN label = {o} ELSE cues[what].state # "standby"
TextsAre(cues, layers) == OneIn(layers) /\ SeenIn(cues, layers) /\ LeftIn(cues, layers)

\* The types of the overlays and of the record, as the texts need them.
LEMMA TextFacts ==
  ASSUME Typed
  PROVE  /\ \A o \in Output : /\ overlay[o] \in Layers(Texts)
                              /\ overlay[o].text \in SUBSET (Texts \cup {"label"})
         /\ \A c \in Texts : trial.plan[c].to \in Output /\ c \in Cue /\ c # "label"
         /\ past \in Pasts(Texts) /\ past.covered \in SUBSET Texts
         /\ past.left \in SUBSET (Texts \cup {"label"}) /\ "label" \notin Texts
<1>1. \A o \in Output : overlay[o] \in Layers(Texts)
  BY DEF Typed
<1>2. \A r \in Layers(Texts) : r.text \in SUBSET (Texts \cup {"label"})
  BY DEF Layers
<1>3. past \in Pasts(Texts)
  BY DEF Typed
<1> QED
  BY <1>1, <1>2, <1>3, PlanIs, Constants DEF Pasts

\* The texts' invariant, over the cues and the overlays that are given.
LEMMA TextInvIs ==
  ASSUME Typed
  PROVE  TextInv <=> TextsAre(cue, overlay)
<1>1. OneText <=> OneIn(overlay)
  BY DEF OneText, OneIn
<1>2. ShownIsSeen <=> SeenIn(cue, overlay)
  BY DEF ShownIsSeen, SeenIn, Backed
<1>3. NoTextLeft <=> LeftIn(cue, overlay)
  BY TextFacts DEF NoTextLeft, LeftIn
<1> QED
  BY <1>1, <1>2, <1>3 DEF TextInv, TextsAre

\* TextInv of the next state.
OneNext ==
  \A o \in Output, what \in Texts \cup {"label"} :
    what \in overlay'[o].text => /\ overlay'[o].text = {what}
                                 /\ what # "label" => trial.plan[what].to = o
SeenNext ==
  \A c \in Texts :
    cue'[c].state # "standby" /\ ~cue'[c].waits /\ c \notin past'.covered =>
      LET p == trial.plan[c].to IN
      /\ overlay'[p].text = {c} =>
           output'[p] = "live" /\ overlay'[p].curtain = "open" /\ Backed(overlay'[p])
      /\ cue'[c].state = "running" => overlay'[p].text = {c}
LeftNext ==
  \A o \in Output, what \in Texts \cup {"label"} :
    output'[o] = "live" /\ what \in overlay'[o].text /\ what \notin past'.left =>
      IF what = "label" THEN label' = {o} ELSE cue'[what].state # "standby"

\* The texts' invariant after a step, part by part.
LEMMA TextNext ==
  ASSUME Typed', trial' = trial, OneNext, SeenNext, LeftNext
  PROVE  TextInv'
<1>1. Texts' = Texts
  BY DEF Texts, IsKind
<1>2. \A o \in Output : overlay'[o].text \in SUBSET (Texts \cup {"label"})
  <2>1. \A o \in Output : overlay'[o] \in Layers(Texts)
    BY <1>1 DEF Typed
  <2>2. \A r \in Layers(Texts) : r.text \in SUBSET (Texts \cup {"label"})
    BY DEF Layers
  <2> QED
    BY <2>1, <2>2
<1>3. OneText'
  BY <1>1 DEF OneNext, OneText
<1>4. ShownIsSeen'
  BY <1>1 DEF SeenNext, ShownIsSeen, Backed
<1>5. NoTextLeft'
  BY <1>1, <1>2 DEF LeftNext, NoTextLeft
<1> QED
  BY <1>3, <1>4, <1>5 DEF TextInv

\* Most steps keep the texts, from the cues and overlays given: a cue that is put to rest
\* takes its text with it or leaves it on record, one that runs had its text up already, and
\* an output that loses a text covers its cue, or has none that could be seen.
KeptCue(c, cues, layers) ==
  /\ \/ cues[c].state = "standby" \/ cue'[c].state # "standby" \/ c \in past'.left
     \/ c \notin overlay'[trial.plan[c].to].text \/ output'[trial.plan[c].to] # "live"
  /\ \/ c \in past'.covered \/ cue'[c].waits \/ cue'[c].state = "standby"
     \/ /\ ~cues[c].waits /\ cues[c].state # "standby"
        /\ cue'[c].state = "running" =>
             cues[c].state = "running" \/ layers[trial.plan[c].to].text = {c}
KeptLayer(o, layers) ==
  /\ output'[o] = "live" => output[o] = "live" \/ overlay'[o].text = {}
  /\ \/ /\ overlay'[o].text = layers[o].text /\ (output[o] = "live" => output'[o] = "live")
        /\ layers[o].text # {} =>
             /\ layers[o].curtain = "open" => overlay'[o].curtain = "open"
             /\ Backed(layers[o]) => Backed(overlay'[o])
     \/ /\ overlay'[o].text \in {layers[o].text, {}, {"label"}}
        /\ \A d \in Texts : d \in layers[o].text =>
             d \in past'.covered \/ cue'[d].state = "standby" \/ cue'[d].waits
KeptLabel(layers) ==
  \/ label' = label /\ \A o \in Output : "label" \in overlay'[o].text => "label" \in layers[o].text
  \/ \A o \in Output : output'[o] = "live" /\ "label" \in overlay'[o].text /\ "label" \notin past'.left
                         => label' = {o}
Keeps(cues, layers) ==
  /\ past.covered \subseteq past'.covered /\ past.left \subseteq past'.left
  /\ \A c \in Texts : KeptCue(c, cues, layers)
  /\ \A o \in Output : KeptLayer(o, layers)
  /\ KeptLabel(layers)

\* A step that Keeps the texts of a state in between, as a GO does, keeps the invariant.
LEMMA KeepsStep ==
  ASSUME Typed, Typed', NEW cues, NEW layers, TextsAre(cues, layers), Keeps(cues, layers),
         trial' = trial
  PROVE  TextInv'
<1>1. OneNext
  BY TextFacts DEF Keeps, KeptLayer, TextsAre, OneIn, OneNext
<1>2. SeenNext
  <2> SUFFICES ASSUME NEW c \in Texts, cue'[c].state # "standby", ~cue'[c].waits,
                      c \notin past'.covered
               PROVE  LET p == trial.plan[c].to IN
                      /\ overlay'[p].text = {c} =>
                           output'[p] = "live" /\ overlay'[p].curtain = "open" /\ Backed(overlay'[p])
                      /\ cue'[c].state = "running" => overlay'[p].text = {c}
    BY DEF SeenNext
  <2> DEFINE p == trial.plan[c].to
  <2>1. p \in Output /\ c # "label" /\ c \notin past.covered
    BY TextFacts DEF Keeps
  <2>2. /\ ~cues[c].waits /\ cues[c].state # "standby"
        /\ cue'[c].state = "running" => cues[c].state = "running" \/ layers[p].text = {c}
    BY DEF Keeps, KeptCue
  <2>3. /\ layers[p].text = {c} =>
             output[p] = "live" /\ layers[p].curtain = "open" /\ Backed(layers[p])
        /\ cue'[c].state = "running" => layers[p].text = {c}
    BY <2>1, <2>2 DEF TextsAre, SeenIn
  <2>4. KeptLayer(p, layers)
    BY <2>1 DEF Keeps
  <2> HIDE DEF p
  <2>5. c \in layers[p].text =>
          /\ overlay'[p].text = layers[p].text /\ (output[p] = "live" => output'[p] = "live")
          /\ layers[p].text # {} =>
               /\ layers[p].curtain = "open" => overlay'[p].curtain = "open"
               /\ Backed(layers[p]) => Backed(overlay'[p])
    BY <2>4 DEF KeptLayer
  <2>6. overlay'[p].text = {c} => layers[p].text = {c}
    BY <2>1, <2>4, <2>5 DEF KeptLayer
  <2> QED
    BY <2>3, <2>5, <2>6 DEF p
<1>3. LeftNext
  <2> SUFFICES ASSUME NEW o \in Output, NEW what \in Texts \cup {"label"}, output'[o] = "live",
                      what \in overlay'[o].text, what \notin past'.left
               PROVE  IF what = "label" THEN label' = {o} ELSE cue'[what].state # "standby"
    BY DEF LeftNext
  <2>1. KeptLayer(o, layers) /\ what \notin past.left /\ output[o] = "live"
    BY DEF Keeps, KeptLayer
  <2>2. CASE what = "label"
    <3>1. CASE label' = label /\ what \in layers[o].text
      BY <2>1, <2>2, <3>1 DEF TextsAre, LeftIn
    <3>2. CASE ~(label' = label /\ what \in layers[o].text)
      BY <2>2, <3>2 DEF Keeps, KeptLabel
    <3> QED
      BY <3>1, <3>2
  <2>3. CASE what # "label"
    <3>1. what \in Texts /\ what \in layers[o].text
      BY <2>1, <2>3 DEF KeptLayer
    <3>2. trial.plan[what].to = o /\ cues[what].state # "standby"
      BY <2>1, <2>3, <3>1 DEF TextsAre, OneIn, LeftIn
    <3>3. KeptCue(what, cues, layers)
      BY <3>1 DEF Keeps
    <3> QED
      BY <2>3, <3>2, <3>3 DEF KeptCue
  <2> QED
    BY <2>2, <2>3
<1> QED
  BY <1>1, <1>2, <1>3, TextNext

\* A GO that stops the Text Cues that run clears what they show.
LEMMA RestedTexts ==
  ASSUME Typed, TextInv, NEW c \in Cue, cue[c].state # "running", NEW S \in StoppedByGo(c)
  PROVE  TextsAre(Rested(S), TextsOff(S))
<1> DEFINE layers == TextsOff(S)
           cues == Rested(S)
<1>0. TextsAre(cue, overlay) /\ S \subseteq Texts
  BY TextInvIs DEF StoppedByGo
<1>1. \A d \in Texts : cues[d] = IF d \in S THEN Standby ELSE cue[d]
  BY TextFacts DEF Rested
<1>2. \A o \in Output : /\ layers[o].text = IF o \in TextOutputs(S) THEN {} ELSE overlay[o].text
                        /\ o \notin TextOutputs(S) => layers[o] = overlay[o]
  BY TextsOffIs
<1>3. \A o \in Output : o \in TextOutputs(S) <=> output[o] = "live" /\ \E d \in S : trial.plan[d].to = o
  BY DEF TextOutputs
<1>4. Standby.state = "standby"
  BY DEF Standby
<1>5. S # {} => \A d \in Texts : cue[d].state = "running" => d \in S
  BY DEF StoppedByGo
<1> HIDE DEF layers, cues
<1>7. OneIn(layers)
  BY <1>0, <1>2 DEF TextsAre, OneIn
<1>8. LeftIn(cues, layers)
  BY <1>0, <1>1, <1>2, <1>3, <1>4, TextFacts DEF TextsAre, LeftIn, OneIn
<1>9. SeenIn(cues, layers)
  <2> SUFFICES ASSUME NEW d \in Texts, cues[d].state # "standby", ~cues[d].waits,
                      d \notin past.covered
               PROVE  LET p == trial.plan[d].to IN
                      /\ layers[p].text = {d} =>
                           output[p] = "live" /\ layers[p].curtain = "open" /\ Backed(layers[p])
                      /\ cues[d].state = "running" => layers[p].text = {d}
    BY DEF SeenIn
  <2> DEFINE p == trial.plan[d].to
  <2>1. p \in Output /\ d \notin S /\ cues[d] = cue[d]
    BY <1>1, <1>4, TextFacts
  <2>2. layers[p].text = {d} => layers[p] = overlay[p]
    BY <1>2, <2>1
  <2>3. cue[d].state = "running" => layers[p] = overlay[p]
    BY <1>2, <1>3, <1>5, <2>1
  <2> QED
    BY <1>0, <2>1, <2>2, <2>3 DEF TextsAre, SeenIn
<1> QED
  BY <1>7, <1>8, <1>9 DEF layers, cues, TextsAre

\* A text that comes up takes the place of another; one whose output is not there covers
\* its cue.
LEMMA TextUpTexts ==
  ASSUME Typed, Typed', NEW c \in Texts, NEW cues, NEW over \in [Output -> Layers(Texts)],
         TextsAre(cues, over), TextUp(c, over), trial' = trial, label' = label,
         cue'[c].state # "standby", \A d \in Texts \ {c} : cue'[d] = cues[d]
  PROVE  TextInv'
<1> DEFINE p == trial.plan[c].to
<1>0. p \in Output /\ past \in Pasts(Texts) /\ "label" \notin Texts
  BY TextFacts
<1>1. CASE /\ output[p] = "live" /\ output' = output
           /\ overlay' = [over EXCEPT ![p] = TextShown(over[p], c)]
           /\ past' = [past EXCEPT !.covered = (@ \cup (over[p].text \cap Texts)) \ {c},
                                   !.left = @ \ {c}, !.shut = @ \ {p}]
  <2>1. /\ past'.covered = (past.covered \cup (over[p].text \cap Texts)) \ {c}
        /\ past'.left = past.left \ {c}
    BY <1>0, <1>1 DEF Pasts
  <2> HIDE DEF p
  <2>2. /\ TextShown(over[p], c).text = {c} /\ TextShown(over[p], c).curtain = "open"
        /\ Backed(TextShown(over[p], c))
    <3>1. over[p] \in Layers(Texts) /\ c \in Texts \cup {"label"}
      BY <1>0
    <3> QED
      BY <3>1, LayerFacts
  <2>3. /\ overlay'[p].text = {c} /\ overlay'[p].curtain = "open" /\ Backed(overlay'[p])
        /\ \A o \in Output : o # p => overlay'[o] = over[o]
    BY <1>0, <1>1, <2>2
  <2>4. p = trial.plan[c].to
    BY DEF p
  <2>5. OneNext
    BY <1>0, <2>3, <2>4 DEF TextsAre, OneIn, OneNext
  <2>6. LeftNext
    <3> SUFFICES ASSUME NEW o \in Output, NEW what \in Texts \cup {"label"}, output'[o] = "live",
                        what \in overlay'[o].text, what \notin past'.left
                 PROVE  IF what = "label" THEN label' = {o} ELSE cue'[what].state # "standby"
      BY DEF LeftNext
    <3>1. CASE what = c
      BY <1>0, <3>1
    <3>2. CASE what # c
      <4>1. o # p /\ what \in over[o].text /\ what \notin past.left
        BY <2>1, <2>3, <3>2
      <4>2. what # "label" => cue'[what] = cues[what]
        BY <3>2
      <4> QED
        BY <1>1, <4>1, <4>2 DEF TextsAre, LeftIn
    <3> QED
      BY <3>1, <3>2
  <2>7. SeenNext
    <3> SUFFICES ASSUME NEW d \in Texts, cue'[d].state # "standby", ~cue'[d].waits,
                        d \notin past'.covered
                 PROVE  LET q == trial.plan[d].to IN
                        /\ overlay'[q].text = {d} =>
                             output'[q] = "live" /\ overlay'[q].curtain = "open" /\ Backed(overlay'[q])
                        /\ cue'[d].state = "running" => overlay'[q].text = {d}
      BY DEF SeenNext
    <3>1. CASE d = c
      BY <1>1, <2>3, <2>4, <3>1
    <3>2. CASE d # c
      <4> DEFINE q == trial.plan[d].to
      <4>1. /\ q \in Output /\ cue'[d] = cues[d] /\ d \notin past.covered
            /\ d \notin over[p].text
        BY <2>1, <3>2, TextFacts
      <4>2. /\ over[q].text = {d} => output[q] = "live" /\ over[q].curtain = "open" /\ Backed(over[q])
            /\ cue'[d].state = "running" => over[q].text = {d}
        BY <4>1 DEF TextsAre, SeenIn
      <4> HIDE DEF q
      <4>3. overlay'[q].text = {d} => q # p
        BY <2>3, <3>2
      <4>4. over[q].text = {d} => q # p
        BY <4>1
      <4> QED
        BY <1>1, <2>3, <4>1, <4>2, <4>3, <4>4 DEF q
    <3> QED
      BY <3>1, <3>2
  <2> QED
    BY <2>5, <2>6, <2>7, TextNext
<1>2. CASE Refused(p) /\ overlay' = over /\ past' = [past EXCEPT !.covered = @ \cup {c}]
  <2>1. past'.covered = past.covered \cup {c} /\ past'.left = past.left
    BY <1>0, <1>2 DEF Pasts
  <2>2. \A o \in Output : output'[o] = "live" <=> output[o] = "live"
    BY <1>2 DEF Refused, Typed
  <2>3. \A o \in Output : KeptLayer(o, over)
    BY <1>2, <2>2 DEF KeptLayer
  <2>4. KeptLabel(over)
    BY <1>2 DEF KeptLabel
  <2>5. \A d \in Texts : KeptCue(d, cues, over)
    <3>1. ASSUME NEW d \in Texts \ {c} PROVE KeptCue(d, cues, over)
      <4>1. cue'[d] = cues[d]
        BY <3>1
      <4> QED
        BY <4>1 DEF KeptCue
    <3>2. KeptCue(c, cues, over)
      BY <2>1 DEF KeptCue
    <3> QED
      BY <3>1, <3>2
  <2> QED
    BY <2>1, <2>3, <2>4, <2>5, KeepsStep DEF Keeps
<1> QED
  BY <1>1, <1>2 DEF TextUp

\* A step of another cue leaves the Text Cues as they were.
LEMMA SameCues ==
  ASSUME NEW cues, NEW layers, \A d \in Texts : cue'[d] = cues[d]
  PROVE  \A d \in Texts : KeptCue(d, cues, layers)
BY DEF KeptCue

\* A load leaves the texts of its output where they are, and lifts the curtain over them.
LEMMA StartTexts ==
  ASSUME Typed, Typed', NEW c \in Cue, NEW cues, NEW over \in [Output -> Layers(Texts)],
         TextsAre(cues, over), trial' = trial, label' = label,
         NEW preload \in BOOLEAN, NEW ok \in BOOLEAN, Start(c, preload, ok, over),
         \A d \in Texts : cue'[d] = cues[d]
  PROVE  TextInv'
<1>1. CASE ok
  <2>1. next <= LastVoice /\ ShowContent(c, preload, over)
    BY <1>1 DEF Start
  <2>2. PICK s \in Slot, r \in Contents : Loads(c, preload, over, s, r)
    BY <2>1, ShowContentIs
  <2> DEFINE p == OutputOf(s)
  <2>3. /\ p \in Output /\ output' = output
        /\ overlay' = [over EXCEPT ![p] = [over[p] EXCEPT !.curtain = "open"]]
        /\ past'.covered = past.covered /\ past'.left = past.left
    BY <2>2, Constants DEF Loads, Typed, Pasts
  <2> HIDE DEF p
  <2>4. \A o \in Output : over[o] \in Layers(Texts)
    OBVIOUS
  <2>5. \A o \in Output : /\ overlay'[o].text = over[o].text
                          /\ over[o].curtain = "open" => overlay'[o].curtain = "open"
                          /\ Backed(over[o]) => Backed(overlay'[o])
    BY <2>3, <2>4 DEF Layers, Backed
  <2>6. Keeps(cues, over)
    BY <2>3, <2>5, SameCues DEF Keeps, KeptLayer, KeptLabel
  <2> QED
    BY <2>6, KeepsStep
<1>2. CASE ~ok
  <2>1. Refused(trial.plan[c].to) /\ overlay' = over /\ past' = past
    BY <1>2 DEF Start, OutputFor
  <2>2. \A o \in Output : output'[o] = "live" <=> output[o] = "live"
    BY <2>1 DEF Refused, Typed
  <2>3. Keeps(cues, over)
    BY <2>1, <2>2, SameCues DEF Keeps, KeptLayer, KeptLabel
  <2> QED
    BY <2>3, KeepsStep
<1> QED
  BY <1>1, <1>2

\* What go and the end of a pre-wait lead to.
LEMMA BeginsTexts ==
  ASSUME Typed, Typed', NEW c \in Cue, NEW cues \in [Cue -> Cues],
         NEW over \in [Output -> Layers(Texts)], TextsAre(cues, over), trial' = trial,
         label' = label, Begins(c, cues, over)
  PROVE  TextInv'
<1>0. past \in Pasts(Texts)
  BY DEF Typed
<1>1. CASE trial.plan[c].kind \in {"video", "image"} /\ ShowPreloaded(c, cues, over)
  <2>1. overlay' = over /\ UNCHANGED <<output, past>>
    BY <1>1 DEF ShowPreloaded
  <2>2. \A d \in Texts : cue'[d] = cues[d]
    BY <1>1, Constants DEF ShowPreloaded, Texts, IsKind
  <2>3. Keeps(cues, over)
    BY <2>1, <2>2, SameCues DEF Keeps, KeptLayer, KeptLabel
  <2> QED
    BY <2>3, KeepsStep
<1>2. CASE WaitFirst(c, cues, over)
  <2>1. overlay' = over /\ UNCHANGED <<output, past>>
    BY <1>2 DEF WaitFirst
  <2>2. cue' = [cues EXCEPT ![c] = [cues[c] EXCEPT !.state = "running", !.waits = TRUE]]
    BY <1>2 DEF WaitFirst
  <2>3. /\ \A d \in Cue \ {c} : cue'[d] = cues[d]
        /\ cue'[c].state = "running" /\ cue'[c].waits
    BY <2>2 DEF Cues
  <2>4. \A d \in Texts : KeptCue(d, cues, over)
    <3>1. ASSUME NEW d \in Texts PROVE KeptCue(d, cues, over)
      <4>1. d \in Cue
        BY Constants
      <4>2. cue'[d] = cues[d] \/ (cue'[d].state = "running" /\ cue'[d].waits)
        BY <2>3, <4>1
      <4> QED
        BY <4>2 DEF KeptCue
    <3> QED
      BY <3>1
  <2>5. Keeps(cues, over)
    BY <2>1, <2>4 DEF Keeps, KeptLayer, KeptLabel
  <2> QED
    BY <2>5, KeepsStep
<1>3. CASE trial.plan[c].kind = "text" /\ StartText(c, cues, over)
  <2>1. TextUp(c, over) /\ cue' = [cues EXCEPT ![c] = Playing(None)] /\ c \in Texts
    BY <1>3 DEF StartText, Texts, IsKind
  <2>2. cue'[c].state # "standby"
    BY <2>1 DEF Playing
  <2>3. \A d \in Texts \ {c} : cue'[d] = cues[d]
    BY <2>1, Constants
  <2> QED
    BY <2>1, <2>2, <2>3, TextUpTexts
<1>4. CASE trial.plan[c].kind # "text" /\ StartOrReset(c, cues, over)
  <2>1. PICK ok \in BOOLEAN :
          /\ Start(c, FALSE, ok, over)
          /\ cue' = [cues EXCEPT ![c] = IF ok THEN Playing(next)
                                        ELSE [@ EXCEPT !.state = "standby", !.waits = FALSE]]
    BY <1>4 DEF StartOrReset
  <2>2. \A d \in Texts : cue'[d] = cues[d]
    BY <1>4, <2>1, Constants DEF Texts, IsKind
  <2> QED
    BY <2>1, <2>2, StartTexts
<1> QED
  BY <1>1, <1>2, <1>3, <1>4 DEF Begins

\* What the cues do besides: a Text Cue stopped takes the text off its output, one whose time
\* is over leaves it there, one that resumes finds it or is covered.
LEMMA CallsTexts ==
  ASSUME Typed, Typed', TextInv, NEW c \in Cue,
         \/ LoadText(c) \/ Stop(c) \/ Pause(c) \/ Resume(c) \/ Devamp(c) \/ FadeAtEnd(c)
         \/ TimeDone(c)
  PROVE  TextInv'
<1>0. /\ TextsAre(cue, overlay) /\ past \in Pasts(Texts) /\ "label" \notin Texts
      /\ cue \in [Cue -> Cues] /\ overlay \in [Output -> Layers(Texts)] /\ Texts \subseteq Cue
      /\ \A d \in Texts : trial.plan[d].to \in Output
      /\ trial' = trial /\ label' = label
  BY TextInvIs, TextFacts DEF Typed, LoadText, Stop, Pause, Resume, Devamp, FadeAtEnd, TimeDone,
     Call, above
<1>1. CASE LoadText(c)
  <2> DEFINE w == IF cue[c].state = "running" THEN cue[c].waits ELSE trial.plan[c].waits
  <2>1. c \in Texts /\ cue' = [cue EXCEPT ![c] = [cue[c] EXCEPT !.state = "paused", !.waits = w]]
    BY <1>1 DEF LoadText, Set, Texts
  <2>2. /\ cue[c].state = "running" => w = cue[c].waits
        /\ cue[c].state # "running" /\ trial.plan[c].waits => w = TRUE
    OBVIOUS
  <2> HIDE DEF w
  <2>3. /\ \A d \in Texts \ {c} : cue'[d] = cue[d]
        /\ cue'[c].state = "paused" /\ cue'[c].waits = w
    BY <1>0, <2>1 DEF Cues
  <2>4. CASE TextUp(c, overlay)
    BY <1>0, <2>1, <2>3, <2>4, TextUpTexts
  <2>5. CASE /\ cue[c].state = "running" \/ trial.plan[c].waits
             /\ UNCHANGED <<slot, mpv, sound, output, overlay, status, next, past>>
    <3>1. \A d \in Texts : KeptCue(d, cue, overlay)
      BY <2>2, <2>3, <2>5 DEF KeptCue
    <3>2. Keeps(cue, overlay)
      BY <1>0, <2>5, <3>1 DEF Keeps, KeptLayer, KeptLabel
    <3> QED
      BY <1>0, <3>2, KeepsStep
  <2> QED
    BY <1>1, <2>4, <2>5 DEF LoadText
<1>2. CASE Stop(c) /\ TextStop(c)
  <2>1. /\ c \in Texts /\ cue' = [cue EXCEPT ![c] = Standby] /\ overlay' = TextsOff({c})
        /\ output' = output
    BY <1>2 DEF Stop, TextStop, Set, Texts
  <2>2. past'.covered = past.covered \cup (AlsoCleared({c}) \cap Texts) /\ past'.left = past.left
    BY <1>0, <1>2 DEF TextStop, Pasts
  <2>3. \A o \in Output :
          /\ overlay'[o].text = IF o \in TextOutputs({c}) THEN {} ELSE overlay[o].text
          /\ o \notin TextOutputs({c}) => overlay'[o] = overlay[o]
    BY <2>1, TextsOffIs
  <2>4. \A o \in Output : o \in TextOutputs({c}) <=> output[o] = "live" /\ trial.plan[c].to = o
    BY DEF TextOutputs
  <2>5. \A o \in TextOutputs({c}) : \A d \in Texts : d \in overlay[o].text =>
          d = c \/ d \in past'.covered
    BY <2>2 DEF AlsoCleared
  <2>6. cue'[c].state = "standby" /\ \A d \in Texts \ {c} : cue'[d] = cue[d]
    BY <1>0, <2>1 DEF Standby
  <2>7. \A d \in Texts : KeptCue(d, cue, overlay)
    <3>1. \A d \in Texts \ {c} : KeptCue(d, cue, overlay)
      BY <2>6 DEF KeptCue
    <3>2. KeptCue(c, cue, overlay)
      BY <1>0, <2>1, <2>3, <2>4, <2>6 DEF KeptCue
    <3> QED
      BY <3>1, <3>2
  <2>8. \A o \in Output : KeptLayer(o, overlay)
    BY <2>1, <2>3, <2>4, <2>5, <2>6 DEF KeptLayer
  <2>9. KeptLabel(overlay)
    BY <1>0, <2>3 DEF KeptLabel
  <2>10. Keeps(cue, overlay)
    BY <2>2, <2>7, <2>8, <2>9 DEF Keeps
  <2> QED
    BY <1>0, <2>10, KeepsStep
<1>3. CASE Stop(c) /\ ~TextStop(c)
  <2>1. PICK fade \in BOOLEAN : LetGo(c, fade)
    BY <1>3 DEF Stop, VideoStop, ImageStop, CameraStop
  <2>2. UNCHANGED <<overlay, output, past>>
    BY <1>3, <2>1 DEF Stop, LetGo
  <2>3. \A d \in Texts : cue'[d] = cue[d]
    BY <1>0, <1>3, <2>1 DEF Stop, VideoStop, ImageStop, CameraStop, LetGo, Set, Texts, IsKind
  <2>4. Keeps(cue, overlay)
    BY <1>0, <2>2, <2>3, SameCues DEF Keeps, KeptLayer, KeptLabel
  <2> QED
    BY <1>0, <2>4, KeepsStep
<1>4. CASE Pause(c) \/ Devamp(c) \/ FadeAtEnd(c)
  <2>1. UNCHANGED <<overlay, output, past>>
    BY <1>4 DEF Pause, Devamp, FadeAtEnd, above
  <2>2. \A d \in Texts :
          /\ cue'[d].waits = cue[d].waits
          /\ cue'[d].state = cue[d].state \/ (cue[d].state = "running" /\ cue'[d].state = "paused")
    <3>1. CASE Pause(c)
      <4>1. cue' = [cue EXCEPT ![c] = [cue[c] EXCEPT !.state = "paused"]]
        BY <3>1 DEF Pause, Set
      <4>2. c \in Texts => cue[c].state = "running"
        BY <3>1 DEF Pause, PauseVideo, PauseStill, Texts, IsKind
      <4> QED
        BY <1>0, <4>1, <4>2 DEF Cues
    <3>2. CASE Devamp(c) \/ FadeAtEnd(c)
      BY <3>2 DEF Devamp, FadeAtEnd
    <3> QED
      BY <1>4, <3>1, <3>2
  <2>3. \A d \in Texts : KeptCue(d, cue, overlay)
    BY <2>2 DEF KeptCue
  <2>4. Keeps(cue, overlay)
    BY <1>0, <2>1, <2>3 DEF Keeps, KeptLayer, KeptLabel
  <2> QED
    BY <1>0, <2>4, KeepsStep
<1>5. CASE Resume(c)
  <2>1. UNCHANGED <<overlay, output>>
    BY <1>5 DEF Resume, above
  <2>2. /\ past.covered \subseteq past'.covered /\ past'.left = past.left
        /\ c \in Texts /\ ~Shown(c) => c \in past'.covered
    <3> DEFINE x == IF IsKind(c, "text") /\ ~Shown(c) THEN past.covered \cup {c} ELSE past.covered
    <3>1. past' = [past EXCEPT !.covered = x] /\ past.covered \subseteq x
          /\ (c \in Texts /\ ~Shown(c) => c \in x)
      BY <1>5 DEF Resume, Texts
    <3> HIDE DEF x
    <3> QED
      BY <1>0, <3>1 DEF Pasts
  <2>3. /\ \A d \in Texts \ {c} : cue'[d] = cue[d]
        /\ c \in Texts => /\ cue[c].state = "paused" /\ cue'[c].state = "running"
                          /\ cue'[c].waits = cue[c].waits
    <3>1. cue' = [cue EXCEPT ![c] = [cue[c] EXCEPT !.state = "running", !.preloaded = FALSE]]
      BY <1>5 DEF Resume, Set
    <3>2. c \in Texts => cue[c].state = "paused"
      BY <1>5 DEF Resume, ResumeVideo, ResumeImage, ResumeText, Texts, IsKind
    <3> QED
      BY <1>0, <3>1, <3>2 DEF Cues
  <2>4. \A d \in Texts : KeptCue(d, cue, overlay)
    <3>1. \A d \in Texts \ {c} : KeptCue(d, cue, overlay)
      BY <2>3 DEF KeptCue
    <3>2. c \in Texts => KeptCue(c, cue, overlay)
      BY <2>2, <2>3 DEF KeptCue, Shown
    <3> QED
      BY <3>1, <3>2
  <2>5. Keeps(cue, overlay)
    BY <1>0, <2>1, <2>2, <2>4 DEF Keeps, KeptLayer, KeptLabel
  <2> QED
    BY <1>0, <2>5, KeepsStep
<1>6. CASE TimeDone(c)
  <2>1. UNCHANGED <<overlay, output>> /\ cue' = [cue EXCEPT ![c] = Standby]
    BY <1>6 DEF TimeDone, above, Set
  <2>2. /\ past'.covered = past.covered /\ past.left \subseteq past'.left
        /\ c \in Texts /\ Shown(c) => c \in past'.left
    <3> DEFINE x == past.adrift \cup ({cue[c].voice} \ {None})
               y == IF IsKind(c, "text") /\ Shown(c) THEN past.left \cup {c} ELSE past.left
    <3>1. past' = [past EXCEPT !.adrift = x, !.left = y] /\ past.left \subseteq y
          /\ (c \in Texts /\ Shown(c) => c \in y)
      BY <1>6 DEF TimeDone, Texts
    <3> HIDE DEF x, y
    <3> QED
      BY <1>0, <3>1 DEF Pasts
  <2>3. /\ cue'[c].state = "standby" /\ \A d \in Texts \ {c} : cue'[d] = cue[d]
    BY <1>0, <2>1 DEF Standby
  <2>4. c \in Texts /\ c \in overlay[trial.plan[c].to].text => Shown(c)
    BY <1>0 DEF TextsAre, OneIn, Shown
  <2>5. \A d \in Texts : KeptCue(d, cue, overlay)
    <3>1. \A d \in Texts \ {c} : KeptCue(d, cue, overlay)
      BY <2>3 DEF KeptCue
    <3>2. c \in Texts => KeptCue(c, cue, overlay)
      BY <2>1, <2>2, <2>3, <2>4 DEF KeptCue
    <3> QED
      BY <3>1, <3>2
  <2>6. Keeps(cue, overlay)
    BY <1>0, <2>1, <2>2, <2>5 DEF Keeps, KeptLayer, KeptLabel
  <2> QED
    BY <1>0, <2>6, KeepsStep
<1> QED
  BY <1>1, <1>2, <1>3, <1>4, <1>5, <1>6

\* What is put on the overlays and taken off them: the cues whose text goes are covered.
LEMMA OverlaysTexts ==
  ASSUME Typed, Typed', TextInv,
         \/ \E S \in SUBSET Output : ClearTestPattern(S)
         \/ \E on \in BOOLEAN : SetOutputTimer(on)
         \/ \E o \in Output : TestPattern(o) \/ Identify(o) \/ EndIdentify(o)
  PROVE  TextInv'
<1>0. /\ TextsAre(cue, overlay) /\ past \in Pasts(Texts) /\ MainOutput \in Output
      /\ overlay \in [Output -> Layers(Texts)] /\ \A o \in Output : overlay[o] \in Layers(Texts)
      /\ \A o \in Output : Busy(o) \in BOOLEAN
      /\ "label" \notin Texts /\ trial' = trial /\ cue' = cue
  BY TextInvIs, TextFacts, Constants DEF Typed, ClearTestPattern, SetOutputTimer, TestPattern,
     Identify, EndIdentify, Call, Busy
<1>1. \A d \in Texts : KeptCue(d, cue, overlay)
  BY <1>0, SameCues
<1>2. ASSUME NEW S \in SUBSET Output, ClearTestPattern(S) PROVE TextInv'
  <2>1. /\ overlay' = [o \in Output |-> IF o \in S THEN PatternCleared(overlay[o]) ELSE overlay[o]]
        /\ past'.covered = Hidden(S) /\ past'.left = past.left /\ UNCHANGED <<output, label>>
    BY <1>0, <1>2 DEF ClearTestPattern, Pasts
  <2>2. \A o \in S : overlay'[o].text = overlay[o].text
    BY <1>0, <2>1, LayerFacts
  <2>3. /\ past.covered \subseteq past'.covered
        /\ \A o \in S : \A d \in Texts : d \in overlay[o].text => d \in past'.covered
    BY <2>1 DEF Hidden
  <2>4. \A o \in Output : KeptLayer(o, overlay)
    BY <2>1, <2>2, <2>3 DEF KeptLayer
  <2>5. KeptLabel(overlay)
    BY <2>1, <2>2 DEF KeptLabel
  <2>6. Keeps(cue, overlay)
    BY <1>1, <2>1, <2>3, <2>4, <2>5 DEF Keeps
  <2> QED
    BY <1>0, <2>6, KeepsStep
<1>3. ASSUME NEW on \in BOOLEAN, SetOutputTimer(on) PROVE TextInv'
  <2>1. /\ overlay' = [overlay EXCEPT ![MainOutput] = TimerSet(overlay[MainOutput], on)]
        /\ UNCHANGED <<past, output, label>>
    BY <1>3 DEF SetOutputTimer, Shows
  <2> DEFINE r == TimerSet(overlay[MainOutput], on)
  <2>2. /\ r.text = overlay[MainOutput].text /\ r.curtain = overlay[MainOutput].curtain
        /\ (overlay[MainOutput].text # {} /\ Backed(overlay[MainOutput]) => Backed(r))
    BY <1>0, LayerFacts
  <2>3. \A o \in Output : overlay'[o] = IF o = MainOutput THEN r ELSE overlay[o]
    BY <1>0, <2>1
  <2> HIDE DEF r
  <2>4. Keeps(cue, overlay)
    BY <1>1, <2>1, <2>2, <2>3 DEF Keeps, KeptLayer, KeptLabel
  <2> QED
    BY <1>0, <2>4, KeepsStep
<1>4. ASSUME NEW o \in Output, TestPattern(o) PROVE TextInv'
  <2>1. /\ UNCHANGED <<output, label>> /\ past'.covered = past.covered /\ past'.left = past.left
        /\ overlay' = overlay \/ overlay' = [overlay EXCEPT ![o] = PatternShown(overlay[o])]
    BY <1>0, <1>4 DEF TestPattern, Shows, Pasts
  <2> DEFINE r == PatternShown(overlay[o])
  <2>2. r.text = overlay[o].text /\ r.curtain = "open" /\ Backed(r)
    BY <1>0, LayerFacts
  <2>3. \A p \in Output : overlay'[p] = overlay[p] \/ (p = o /\ overlay'[p] = r)
    BY <1>0, <2>1
  <2> HIDE DEF r
  <2>4. Keeps(cue, overlay)
    BY <1>1, <2>1, <2>2, <2>3 DEF Keeps, KeptLayer, KeptLabel
  <2> QED
    BY <1>0, <2>4, KeepsStep
<1>5. ASSUME NEW o \in Output, Identify(o) PROVE TextInv'
  <2>1. CASE /\ output' = output /\ overlay' = [overlay EXCEPT ![o] = TextShown(overlay[o], "label")]
             /\ label' = {o} /\ past'.covered = Hidden({o}) /\ past'.left = Superseded({o})
    <3>1. TextShown(overlay[o], "label").text = {"label"}
      BY <1>0, LayerFacts
    <3>2. overlay'[o].text = {"label"} /\ \A p \in Output : p # o => overlay'[p] = overlay[p]
      BY <1>0, <2>1, <3>1
    <3>3. /\ past.covered \subseteq past'.covered /\ past.left \subseteq past'.left
          /\ \A d \in Texts : d \in overlay[o].text => d \in past'.covered
      BY <2>1 DEF Hidden, Superseded
    <3>4. \A p \in Output : KeptLayer(p, overlay)
      BY <2>1, <3>2, <3>3, <1>5 DEF KeptLayer, Identify
    <3>5. KeptLabel(overlay)
      <4> SUFFICES ASSUME NEW p \in Output, output[p] = "live", "label" \in overlay'[p].text,
                          "label" \notin past'.left, p # o
                   PROVE  FALSE
        BY <2>1 DEF KeptLabel
      <4>1. label = {p}
        BY <1>0, <3>2, <3>3 DEF TextsAre, LeftIn
      <4> QED
        BY <2>1, <4>1 DEF Superseded
    <3>6. Keeps(cue, overlay)
      BY <1>1, <3>3, <3>4, <3>5 DEF Keeps
    <3> QED
      BY <1>0, <3>6, KeepsStep
  <2>2. CASE /\ Refused(o) /\ label' = {} /\ UNCHANGED overlay
             /\ past'.covered = past.covered /\ past'.left = Superseded({})
    <3>1. \A p \in Output : output'[p] = "live" <=> output[p] = "live"
      BY <2>2 DEF Refused, Typed
    <3>2. past.left \subseteq past'.left
      BY <2>2 DEF Superseded
    <3>3. KeptLabel(overlay)
      <4> SUFFICES ASSUME NEW p \in Output, output[p] = "live", "label" \in overlay[p].text,
                          "label" \notin past'.left
                   PROVE  FALSE
        BY <2>2, <3>1 DEF KeptLabel
      <4>1. label = {p}
        BY <1>0, <3>2 DEF TextsAre, LeftIn
      <4> QED
        BY <2>2, <4>1 DEF Superseded
    <3>4. Keeps(cue, overlay)
      BY <1>1, <2>2, <3>1, <3>2, <3>3 DEF Keeps, KeptLayer
    <3> QED
      BY <1>0, <3>4, KeepsStep
  <2> QED
    BY <1>0, <1>5, <2>1, <2>2 DEF Identify, Shows, Pasts
<1>6. ASSUME NEW o \in Output, EndIdentify(o) PROVE TextInv'
  <2>1. CASE /\ output[o] = "live" /\ output' = output
             /\ overlay' = [overlay EXCEPT ![o] = TextCleared(overlay[o], Busy(o))]
             /\ label' = {} /\ past'.covered = Hidden({o}) /\ past'.left = past.left
    <3>1. TextCleared(overlay[o], Busy(o)).text = {}
      BY <1>0, LayerFacts
    <3>2. overlay'[o].text = {} /\ \A p \in Output : p # o => overlay'[p] = overlay[p]
      BY <1>0, <2>1, <3>1
    <3>3. /\ past.covered \subseteq past'.covered
          /\ \A d \in Texts : d \in overlay[o].text => d \in past'.covered
      BY <2>1 DEF Hidden
    <3>4. \A p \in Output : KeptLayer(p, overlay)
      BY <2>1, <3>2, <3>3 DEF KeptLayer
    <3>5. KeptLabel(overlay)
      <4> SUFFICES ASSUME NEW p \in Output, output[p] = "live", "label" \in overlay'[p].text,
                          "label" \notin past.left
                   PROVE  FALSE
        BY <2>1 DEF KeptLabel
      <4>1. p # o /\ label = {p}
        BY <1>0, <3>2 DEF TextsAre, LeftIn
      <4> QED
        BY <1>6, <4>1 DEF EndIdentify
    <3>6. Keeps(cue, overlay)
      BY <1>1, <2>1, <3>3, <3>4, <3>5 DEF Keeps
    <3> QED
      BY <1>0, <3>6, KeepsStep
  <2>2. CASE output[o] # "live" /\ Refused(o) /\ UNCHANGED <<overlay, past>>
    <3>1. \A p \in Output : output'[p] = "live" <=> output[p] = "live"
      BY <2>2 DEF Refused, Typed
    <3>2. KeptLabel(overlay)
      <4> SUFFICES ASSUME NEW p \in Output, output[p] = "live", "label" \in overlay[p].text,
                          "label" \notin past.left
                   PROVE  FALSE
        BY <2>2, <3>1 DEF KeptLabel
      <4>1. label = {p}
        BY <1>0 DEF TextsAre, LeftIn
      <4> QED
        BY <1>6, <2>2, <4>1 DEF EndIdentify
    <3>3. Keeps(cue, overlay)
      BY <1>1, <2>2, <3>1, <3>2 DEF Keeps, KeptLayer
    <3> QED
      BY <1>0, <3>3, KeepsStep
  <2> QED
    BY <1>0, <1>6, <2>1, <2>2 DEF EndIdentify, Shows, Pasts
<1> QED
  BY <1>2, <1>3, <1>4, <1>5, <1>6

\* A panic clears the texts of the cues it puts to rest, before the surfaces go.
LEMMA PanicTexts ==
  ASSUME Typed, Typed', TextInv, Panic
  PROVE  TextInv'
<1> DEFINE S == { c \in Texts : cue[c].state # "standby" }
<1>0. /\ TextsAre(cue, overlay) /\ trial' = trial /\ UNCHANGED <<output, label, past>>
      /\ "label" \notin Texts
  BY TextInvIs, TextFacts DEF Panic, Call
<1>1. overlay' = [o \in Output |-> IF output[o] = "live" THEN Panicked(TextsOff(S)[o])
                                   ELSE TextsOff(S)[o]]
  BY DEF Panic
<1>2. \A o \in Output : TextsOff(S)[o] \in Layers(Texts)
  <2> HIDE DEF S
  <2> QED
    BY TextsOffTyped
<1>3. \A o \in Output : overlay'[o].text = IF o \in TextOutputs(S) THEN {} ELSE overlay[o].text
  <2> HIDE DEF S
  <2>1. \A o \in Output : TextsOff(S)[o].text = IF o \in TextOutputs(S) THEN {} ELSE overlay[o].text
    BY TextsOffIs
  <2>2. \A o \in Output : Panicked(TextsOff(S)[o]).text = TextsOff(S)[o].text
    BY <1>2, LayerFacts
  <2> QED
    BY <1>1, <2>1, <2>2
<1>4. \A c \in Texts : cue'[c].state = "standby"
  BY TextFacts DEF Panic, Standby
<1>5. \A c \in Texts : cue[c].state # "standby" /\ output[trial.plan[c].to] = "live" =>
        trial.plan[c].to \in TextOutputs(S)
  BY TextFacts DEF TextOutputs
<1> HIDE DEF S
<1>6. \A c \in Texts : KeptCue(c, cue, overlay)
  BY <1>0, <1>3, <1>4, <1>5, TextFacts DEF KeptCue
<1>7. \A o \in Output : KeptLayer(o, overlay)
  BY <1>0, <1>3, <1>4 DEF KeptLayer
<1>8. KeptLabel(overlay)
  BY <1>0, <1>3 DEF KeptLabel
<1>9. Keeps(cue, overlay)
  BY <1>0, <1>6, <1>7, <1>8 DEF Keeps
<1> QED
  BY <1>0, <1>9, KeepsStep

\* What the event loop and the outputs do: an output that opens has no text, and the cues
\* of one that leaves the show are covered.
LEMMA OutputsTexts ==
  ASSUME Typed, Typed', PictureInv, TextInv,
         \/ EventLoopDrains \/ \E v \in Voice : Collect(v)
         \/ \E o \in Output : Built(o) \/ Unregister(o) \/ Retire(o)
         \/ \E extras \in SUBSET trial.extras : SyncOutputs(extras)
  PROVE  TextInv'
<1>0. /\ TextsAre(cue, overlay) /\ past \in Pasts(Texts) /\ trial' = trial
      /\ overlay \in [Output -> Layers(Texts)] /\ output \in [Output -> Presences]
      /\ label' = label /\ Texts \subseteq Cue /\ "label" \notin Texts
  BY TextInvIs, TextFacts, Constants DEF Typed, EventLoopDrains, Collect, Built, Unregister,
     Retire, SyncOutputs, Call, above
<1>1. CASE EventLoopDrains
  <2>1. \A c \in Texts : cue'[c] = cue[c]
    <3>1. \A c \in Texts : cue[c].voice = None
      BY DEF PictureInv, Single
    <3>2. \A m \in status : m.voice # None
      BY Basics, Constants
    <3> QED
      BY <1>0, <1>1, <3>1, <3>2, TickRecords
  <2>2. UNCHANGED <<output, overlay>> /\ past'.covered = past.covered /\ past'.left = past.left
    BY <1>0, <1>1, TickRecords DEF EventLoopDrains, above, Pasts
  <2>3. Keeps(cue, overlay)
    BY <1>0, <2>1, <2>2, SameCues DEF Keeps, KeptLayer, KeptLabel
  <2> QED
    BY <1>0, <2>3, KeepsStep
<1>2. CASE \E v \in Voice : Collect(v)
  <2>1. UNCHANGED <<cue, output, overlay, past>>
    BY <1>2 DEF Collect, above
  <2>2. Keeps(cue, overlay)
    BY <1>0, <2>1, SameCues DEF Keeps, KeptLayer, KeptLabel
  <2> QED
    BY <1>0, <2>2, KeepsStep
<1>3. ASSUME NEW o \in Output, Unregister(o) \/ Retire(o) PROVE TextInv'
  <2>1. UNCHANGED <<cue, overlay, past>>
    BY <1>3 DEF Unregister, Retire, above
  <2>2. \A p \in Output : output'[p] = "live" <=> output[p] = "live"
    BY <1>0, <1>3 DEF Unregister, Retire
  <2>3. Keeps(cue, overlay)
    BY <1>0, <2>1, <2>2, SameCues DEF Keeps, KeptLayer, KeptLabel
  <2> QED
    BY <1>0, <2>3, KeepsStep
<1>4. ASSUME NEW o \in Output, Built(o) PROVE TextInv'
  <2>1. UNCHANGED <<cue, past>> /\ output[o] = "opening" /\ overlay' = [overlay EXCEPT ![o] = Dark]
        /\ \A p \in Output : p # o => output'[p] = output[p]
    BY <1>0, <1>4 DEF Built
  <2>2. overlay'[o].text = {} /\ \A p \in Output : p # o => overlay'[p] = overlay[p]
    BY <1>0, <2>1 DEF Dark
  <2>3. \A d \in Texts : d \in overlay[o].text =>
          d \in past'.covered \/ cue'[d].state = "standby" \/ cue'[d].waits
    BY <1>0, <2>1 DEF TextsAre, OneIn, SeenIn
  <2>4. \A p \in Output : KeptLayer(p, overlay)
    BY <2>1, <2>2, <2>3 DEF KeptLayer
  <2>5. KeptLabel(overlay)
    BY <1>0, <2>2 DEF KeptLabel
  <2>6. Keeps(cue, overlay)
    BY <2>1, <2>4, <2>5, SameCues DEF Keeps
  <2> QED
    BY <1>0, <2>6, KeepsStep
<1>5. ASSUME NEW extras \in SUBSET trial.extras, SyncOutputs(extras) PROVE TextInv'
  <2>1. UNCHANGED <<cue, overlay>> /\ past'.covered = Hidden(Extra \ extras) /\ past'.left = past.left
    BY <1>0, <1>5 DEF SyncOutputs, above, Pasts
  <2>2. \A p \in Output : /\ output'[p] = "live" => output[p] = "live"
                          /\ p \in Extra \ extras \/ (output[p] = "live" => output'[p] = "live")
    BY <1>0, <1>5 DEF SyncOutputs
  <2>3. /\ past.covered \subseteq past'.covered
        /\ \A p \in Extra \ extras : \A d \in Texts : d \in overlay[p].text => d \in past'.covered
    BY <2>1 DEF Hidden
  <2>4. \A p \in Output : KeptLayer(p, overlay)
    BY <2>1, <2>2, <2>3 DEF KeptLayer
  <2>5. KeptLabel(overlay)
    BY <1>0, <2>1 DEF KeptLabel
  <2>6. Keeps(cue, overlay)
    BY <2>1, <2>3, <2>4, <2>5, SameCues DEF Keeps
  <2> QED
    BY <1>0, <2>6, KeepsStep
<1> QED
  BY <1>1, <1>2, <1>3, <1>4, <1>5

\* The texts' invariant is inductive: one case for each action.
LEMMA TextStep ==
  ASSUME Typed, Typed', PictureInv, TextInv, [Next]_vars
  PROVE  TextInv'
<1>0. TextsAre(cue, overlay) /\ past \in Pasts(Texts)
  BY TextInvIs DEF Typed
<1>1. CASE UNCHANGED vars
  <2>1. Keeps(cue, overlay) /\ trial' = trial
    BY <1>1, SameCues DEF Keeps, KeptLayer, KeptLabel, vars, above
  <2> QED
    BY <1>0, <2>1, KeepsStep
<1>2. ASSUME NEW c \in Cue, Go(c) PROVE TextInv'
  <2>1. cue[c].state # "running" /\ trial' = trial /\ label' = label
    BY <1>2, GoBegins
  <2>2. PICK S \in StoppedByGo(c) : Begins(c, Rested(S), TextsOff(S))
    BY <1>2, GoBegins
  <2>3. Rested(S) \in [Cue -> Cues] /\ TextsOff(S) \in [Output -> Layers(Texts)]
    BY RestedTyped, TextsOffTyped
  <2>4. TextsAre(Rested(S), TextsOff(S))
    BY <2>1, RestedTexts
  <2> QED
    BY <2>1, <2>2, <2>3, <2>4, BeginsTexts
<1>3. ASSUME NEW c \in Cue, PreWaitOver(c) \/ LoadCamera(c) PROVE TextInv'
  <2>1. Begins(c, cue, overlay) /\ trial' = trial /\ label' = label
    BY <1>3, WaitBegins, CameraBegins DEF Call
  <2>2. cue \in [Cue -> Cues] /\ overlay \in [Output -> Layers(Texts)]
    BY DEF Typed
  <2> QED
    BY <1>0, <2>1, <2>2, BeginsTexts
<1>4. ASSUME NEW c \in Cue, Preload(c) PROVE TextInv'
  <2>1. PICK ok \in BOOLEAN : /\ Start(c, TRUE, ok, overlay)
                              /\ IF ok THEN Set(c, [state |-> "paused", voice |-> next,
                                                    waits |-> FALSE, preloaded |-> TRUE])
                                 ELSE UNCHANGED cue
    BY <1>4 DEF Preload
  <2>2. trial' = trial /\ label' = label /\ c \notin Texts
    BY <1>4 DEF Preload, Call, Texts, IsKind
  <2>3. \A d \in Texts : cue'[d] = cue[d]
    BY <2>1, <2>2, Constants DEF Set, Typed
  <2>4. overlay \in [Output -> Layers(Texts)] /\ TRUE \in BOOLEAN
    BY DEF Typed
  <2> QED
    BY <1>0, <2>1, <2>2, <2>3, <2>4, StartTexts
<1>5. CASE ControlStep
  <2>1. \A S \in {{o} : o \in Output} \cup {{o \in Output : output[o] = "live"}} :
          S \in SUBSET Output
    OBVIOUS
  <2> QED
    BY <1>2, <1>3, <1>4, <1>5, <2>1, CallsTexts, OverlaysTexts, OutputsTexts, PanicTexts
    DEF ControlStep
<1>6. ASSUME NEW s \in Slot, SlotStep(s) PROVE TextInv'
  <2>1. UNCHANGED <<cue, output, overlay, label, trial>>
    BY <1>6 DEF SlotStep, WatchdogReveals, FadeLands, Release, FileLoaded, FirstFrame, FileEnds,
           SliceEnds, Opens, Fails, Ends, HandStops, HandReveals, HandUnloads, above
  <2>2. past'.covered = past.covered /\ past'.left = past.left
    BY <1>0, <1>6 DEF SlotStep, WatchdogReveals, FadeLands, Release, FileLoaded, FirstFrame, FileEnds,
           SliceEnds, Opens, Fails, Ends, HandStops, HandReveals, HandUnloads, Pasts
  <2>3. Keeps(cue, overlay)
    BY <2>1, <2>2, SameCues DEF Keeps, KeptLayer, KeptLabel
  <2> QED
    BY <1>0, <2>1, <2>3, KeepsStep
<1> QED
  BY <1>1, <1>5, <1>6 DEF Next

---------------------------------------------------------------------------
\* Every state of the stage keeps its types, has its pictures and sounds owned and accounted
\* for, its curtains up and its texts where they are seen.
LEMMA SlotsStart == Init => SlotsInv
<1> SUFFICES ASSUME Init PROVE SlotsInv
  OBVIOUS
<1> USE DEF Init
<1>0. /\ None = 0 /\ MainOutput \in Output /\ Extra \subseteq Output /\ LastVoice \in Nat \ {0}
      /\ Standby.voice = None /\ Standby.state = "standby" /\ IdleSlot.voice = None
      /\ ~IdleSlot.unload /\ Free.do = "nothing" /\ Free.voice = None /\ Dark.text = {}
      /\ trial.extras \subseteq Extra /\ trial.calls \in Nat /\ Texts \subseteq Cue
  BY SlotsAssumption, Constants DEF Standby, IdleSlot, Free, Dark
<1>1. Typed
  <2>1. Standby \in Cues /\ IdleSlot \in Contents /\ Free \in Tasks /\ Dark \in Layers(Texts)
    BY DEF Standby, Cues, IdleSlot, Contents, Free, Tasks, Dark, Layers, Surfaces
  <2>2. IdlePlayer \in Players /\ IdlePlayer.at = "idle"
    BY DEF IdlePlayer, Players
  <2>3. past \in Pasts(Texts)
    BY DEF Pasts
  <2>4. /\ sound \in [Voice -> Sounds] /\ output \in [Output -> Presences] /\ config \in SUBSET Extra
        /\ next \in 1..(LastVoice + 1) /\ calls \in 0..trial.calls
    BY <1>0 DEF Sounds, Presences
  <2> QED
    BY <2>1, <2>2, <2>3, <2>4 DEF Typed
<1>2. PictureInv
  <2>1. Numbered /\ Single /\ Settled /\ Vacated
    BY <1>0 DEF Numbered, Single, Settled, Vacated
  <2>2. Disowned /\ Hushed /\ HeldBack /\ RevealFits /\ UnloadFits
    BY <1>0 DEF Disowned, Hushed, HeldBack, RevealFits, UnloadFits
  <2>3. Accounted /\ PictureIsOwned /\ SoundHasPicture
    BY <1>0 DEF Accounted, PictureIsOwned, SoundHasPicture
  <2> QED
    BY <2>1, <2>2, <2>3 DEF PictureInv
<1>3. CurtainIsUp
  BY <1>0 DEF CurtainIsUp
<1>4. TextInv
  BY <1>0 DEF TextInv, OneText, ShownIsSeen, NoTextLeft
<1> QED
  BY <1>1, <1>2, <1>3, <1>4 DEF SlotsInv

\* The whole invariant is inductive ...
LEMMA SlotsStep == SlotsInv /\ [Next]_vars => SlotsInv'
<1> SUFFICES ASSUME SlotsInv, [Next]_vars PROVE SlotsInv'
  OBVIOUS
<1>1. Typed /\ PictureInv /\ CurtainIsUp /\ TextInv
  BY DEF SlotsInv
<1>2. Typed'
  BY <1>1, TypedStep
<1>3. PictureInv'
  BY <1>1, <1>2, PictureStep
<1>4. CurtainIsUp'
  BY <1>1, CurtainStep
<1>5. TextInv'
  BY <1>1, <1>2, TextStep
<1> QED
  BY <1>2, <1>3, <1>4, <1>5 DEF SlotsInv

\* ... and it holds what the runs check.
LEMMA SlotsAreSafe == SlotsInv => OutputSafety
<1> SUFFICES ASSUME SlotsInv PROVE OutputSafety
  OBVIOUS
<1>1. TypeOK
  BY TypesAgree DEF SlotsInv
<1>2. PictureIsOwned /\ SoundHasPicture /\ CurtainIsUp /\ NoTextLeft
  BY DEF SlotsInv, PictureInv, TextInv
<1>3. RunningIsAccounted
  BY DEF SlotsInv, PictureInv, Accounted, RunningIsAccounted
<1>4. TextIsSeen
  BY DEF SlotsInv, TextInv, ShownIsSeen, TextIsSeen, Stripped
<1> QED
  BY <1>1, <1>2, <1>3, <1>4 DEF OutputSafety

\* What is seen and heard is somebody's, and nobody waits for what is not there: of every
\* number of cues, outputs, slots and loads, whatever control calls meet the render, event
\* and teardown threads and the player half way through what they do to a slot.
THEOREM OutputsAreSafe == Spec => []OutputSafety
<1>1. Init => SlotsInv
  BY SlotsStart
<1>2. SlotsInv /\ [Next]_vars => SlotsInv'
  BY SlotsStep
<1>3. SlotsInv => OutputSafety
  BY SlotsAreSafe
<1> QED
  BY <1>1, <1>2, <1>3, PTL DEF Spec

=============================================================================
