---------------------------- MODULE CueEditing ----------------------------
(***************************************************************************)
(* Editing the active cue list while its cues play and their files are      *)
(* decoded: the hierarchy of cues and groups, the Playhead, undo and redo.  *)
(*                                                                          *)
(* An edit command first takes a snapshot of the list for undo, lets go of  *)
(* the workspace, and takes it again to change the list: the event loop and *)
(* the decoding threads may come in between.  Undo and redo hold it all     *)
(* along.  Names, numbers, colours and triggers are left out.               *)
(***************************************************************************)
EXTENDS Naturals, FiniteSets, SequencesExt

CONSTANTS Cue,       \* identifiers, none of which is used for two cues
          File,      \* media files, all of which can be decoded
          NoFile,    \* no file assigned; no samples
          NoCue,     \* no Playhead
          Root,      \* the list itself, as the holder of the top-level cues
          Seeds,     \* the lists a behaviour may begin with
          Operator,  \* what the operator does
          MaxUndo,   \* MAX_UNDO
          MaxEdits   \* edit commands in a behaviour

\* group_playhead and ungroup_playhead: whether the Playhead may be on what is grouped,
\* and on a cue that ungroup is asked of and that is not a group.
Commands == {"add", "remove", "move", "group", "group_playhead", "ungroup",
             "ungroup_playhead", "add_to_group", "leave_group", "to_top_level",
             "duplicate", "relink", "edit", "undo", "redo", "set_playhead", "go", "start"}

Place == Cue \cup {Root}
Media == File \cup {NoFile}

Image == [kids: [Place -> Seq(Cue)], file: [Cue -> Media], samples: [Cue -> Media],
          playhead: Cue \cup {NoCue}]

ASSUME NamesDiffer == Root \notin Cue /\ NoCue \notin Cue /\ NoFile \notin File
ASSUME CuesAreFinite == IsFiniteSet(Cue)
ASSUME BoundsAreNaturals == MaxUndo \in Nat \ {0} /\ MaxEdits \in Nat
ASSUME OperatorAssumption == Operator \subseteq Commands
ASSUME SeedAssumption ==
  /\ Seeds \subseteq [image: Image, kind: [Cue -> {"unused", "audio", "group"}]]
  /\ \A seed \in Seeds, c \in Cue : seed.image.samples[c] \in {NoFile, seed.image.file[c]}

VARIABLES
  list,      \* the hierarchy, the files, the decoded samples and the Playhead
  kind,      \* what an identifier was created as
  live,      \* cues that are Running; an Audio Cue among them owns a voice
  orphans,   \* voices the last step left to sound on with no cue that owns them
  decodes,   \* decoding threads: <<cue, file>>
  past,      \* snapshots to undo to
  future,    \* snapshots to redo
  busy,      \* an edit command is between its snapshot and its change
  edits      \* edit commands begun

vars == <<list, kind, live, orphans, decodes, past, future, busy, edits>>

TypeOK ==
  /\ list \in Image /\ kind \in [Cue -> {"unused", "audio", "group"}]
  /\ live \subseteq Cue /\ orphans \subseteq Cue /\ decodes \subseteq Cue \X File
  /\ past \in Seq(Image) /\ future \in Seq(Image) /\ Len(past) + Len(future) <= MaxUndo
  /\ busy \in BOOLEAN /\ edits \in 0..MaxEdits

Init ==
  /\ \E seed \in Seeds : list = seed.image /\ kind = seed.kind
  /\ live = {} /\ orphans = {} /\ decodes = {}
  /\ past = <<>> /\ future = <<>> /\ busy = FALSE /\ edits = 0

---------------------------------------------------------------------------
\* The hierarchy.

With(kids, S) == S \cup UNION {ToSet(kids[p]) : p \in S}

\* p and everything inside it.
Below(kids, p) ==
  LET down[n \in 0..Cardinality(Cue)] == IF n = 0 THEN {p} ELSE With(kids, down[n - 1])
  IN  down[Cardinality(Cue)]

Present(kids) == Below(kids, Root) \ {Root}

\* No cue is twice in the hierarchy.
Apart(kids) ==
  \A p, q \in Place : \A i \in DOMAIN kids[p], j \in DOMAIN kids[q] :
    kids[p][i] = kids[q][j] => p = q /\ i = j

\* The lists a behaviour begins with are hierarchies: nothing is in them twice, or
\* inside a cue that is not there, and the Playhead is on the top level.
ASSUME SeedsAreTrees ==
  \A seed \in Seeds :
    LET kids == seed.image.kids
    IN  /\ Apart(kids) /\ \A p \in Place \ Below(kids, Root) : kids[p] = <<>>
        /\ \A c \in Present(kids) : seed.kind[c] # "unused"
        /\ seed.image.playhead \in ToSet(kids[Root]) \cup {NoCue}

Kids     == list.kids
TopLevel == ToSet(Kids[Root])
InList   == Present(Kids)
Unused   == {c \in Cue : kind[c] = "unused"}
NewId    == CHOOSE c \in Unused : TRUE
Sounding == {c \in live : kind[c] = "audio"}

\* What of s is not in S, in its order.
Without(s, S) ==
  LET kept[n \in 0..Len(s)] ==
        IF n = 0 THEN <<>>
        ELSE IF s[n] \in S THEN kept[n - 1] ELSE Append(kept[n - 1], s[n])
  IN  kept[Len(s)]

Extract(kids, S) == [p \in Place |-> Without(kids[p], S)]

At(s, c) == CHOOSE i \in DOMAIN s : s[i] = c

\* Mutant of Before: with no cue to go before, nothing is put in.
BeforeOnly(s, c, t) ==
  IF c \in ToSet(s)
  THEN SubSeq(s, 1, At(s, c) - 1) \o t \o SubSeq(s, At(s, c), Len(s))
  ELSE s

\* t put into s before the cue c, or at the end.
Before(s, c, t) ==
  IF c \in ToSet(s)
  THEN SubSeq(s, 1, At(s, c) - 1) \o t \o SubSeq(s, At(s, c), Len(s))
  ELSE s \o t

FirstOf(s) == IF s = <<>> THEN NoCue ELSE s[1]

\* The top-level cue whose subtree contains c.
Ancestor(c) == CHOOSE t \in TopLevel : c \in Below(Kids, t)

---------------------------------------------------------------------------
\* What an edit leaves.

\* stop_if_live: a running cue is stopped; a group stops its running children and
\* resets the others.
Stopped(S) ==
  {d \in live : \E c \in S : /\ d \in Below(Kids, c)
                             /\ \A a \in Below(Kids, c) : d \in Below(Kids, a) => a \in live}

Forgotten(S) == UNION {Below(Kids, c) : c \in S \cap live}

Forget(now, stopped, forgotten) ==
  LET owned == Present(now.kids) \ forgotten
  IN  /\ live' = (live \cap owned) \ stopped
      /\ orphans' = Sounding \ (stopped \cup owned)

\* A cue that is not in the list is dropped with all it holds.
Kept(now) ==
  LET here == Below(now.kids, Root)
  IN  [kids     |-> [p \in Place |-> IF p \in here THEN now.kids[p] ELSE <<>>],
       file     |-> [c \in Cue |-> IF c \in here THEN now.file[c] ELSE NoFile],
       samples  |-> [c \in Cue |-> IF c \in here THEN now.samples[c] ELSE NoFile],
       playhead |-> now.playhead]

Edit(name, now, stopped, forgotten) ==
  /\ name \in Operator /\ busy /\ busy' = FALSE
  /\ list' = Kept(now)
  /\ Forget(now, stopped, forgotten)
  /\ UNCHANGED <<past, future, edits>>

Reorder(name, now) == Edit(name, now, {}, {}) /\ UNCHANGED <<kind, decodes>>

Push ==
  /\ past' = (IF Len(past) < MaxUndo THEN past ELSE Tail(past)) \o <<list>>
  /\ future' = <<>>

BeginEdit ==
  /\ ~busy /\ busy' = TRUE
  /\ edits < MaxEdits /\ edits' = edits + 1
  /\ Push
  /\ orphans' = {}
  /\ UNCHANGED <<list, kind, live, decodes>>

\* The command is refused before it changes anything, or changes only what is left out.
EndEdit ==
  /\ busy /\ busy' = FALSE
  /\ orphans' = {}
  /\ UNCHANGED <<list, kind, live, decodes, past, future, edits>>

---------------------------------------------------------------------------
\* Edit commands.

AddCue(c, sort, i) ==
  LET top == Kids[Root]
  IN  /\ Unused # {} /\ c = NewId
      /\ i \in 1..(Len(top) + 1)
      /\ Edit("add", [list EXCEPT
                        !.kids[Root] = InsertAt(@, i, c),
                        !.playhead = IF top = <<>> \/ (@ = NoCue /\ i <= Len(top))
                                     THEN c ELSE @], {}, {})
      /\ kind' = [kind EXCEPT ![c] = sort]
      /\ UNCHANGED decodes

\* The cue the Playhead goes to when the cues of S are removed: the next one that
\* stays, else the last one.
NextTo(c, S) ==
  LET top   == Kids[Root]
      stays == {i \in DOMAIN top : top[i] \notin S}
      after == {i \in stays : i > At(top, c)}
  IN  CASE after # {}                 -> top[Min(after)]
        [] after = {} /\ stays # {}   -> top[Max(stays)]
        [] stays = {}                 -> NoCue

\* Mutant of Silenced: nothing is stopped.
NothingSilenced(S) == {}

\* A cue is stopped before it is removed.
Silenced(S) == Stopped(S)

RemoveCues(S) ==
  /\ S # {} /\ S \subseteq InList
  /\ Edit("remove", [list EXCEPT
                       !.kids = Extract(@, S),
                       !.playhead = IF @ \in S \cap TopLevel THEN NextTo(@, S) ELSE @],
          Silenced(S), Forgotten(S))
  /\ UNCHANGED <<kind, decodes>>

\* A selection: distinct cues in the order they were selected.
Selections == {<<c>> : c \in Cue} \cup {s \in Cue \X Cue : s[1] # s[2]}

MoveCues(ids, before) ==
  /\ ToSet(ids) \subseteq TopLevel /\ before \in (TopLevel \ ToSet(ids)) \cup {NoCue}
  /\ Reorder("move",
       [list EXCEPT !.kids[Root] =
          Before(Without(@, ToSet(ids)), before, ids)])

\* The new group takes the place of the first of them; nested ones are passed over.
GroupCues(g, ids) ==
  LET top    == Kids[Root]
      chosen == Without(ids, Cue \ TopLevel)
      first  == Min({At(top, chosen[i]) : i \in DOMAIN chosen})
      left   == Extract(Kids, ToSet(chosen))
  IN  /\ Unused # {} /\ g = NewId
      /\ ToSet(ids) \subseteq InList /\ chosen # <<>>
      /\ list.playhead \in ToSet(ids) => "group_playhead" \in Operator
      /\ Edit("group",
           [list EXCEPT !.kids = [left EXCEPT ![Root] = InsertAt(@, first, g), ![g] = chosen]],
           {}, {})
      /\ kind' = [kind EXCEPT ![g] = "group"]
      /\ UNCHANGED decodes

Ungroup(g) ==
  /\ g \in TopLevel /\ kind[g] = "group"
  /\ Reorder("ungroup",
       [list EXCEPT
          !.kids = [Extract(@, {g}) EXCEPT ![Root] =
                      Without(Before(Kids[Root], g, Kids[g]), {g})],
          !.playhead = IF @ = g THEN FirstOf(Kids[g]) ELSE @])

\* Mutant of Left: the cue stays where it was, too.
LeftBehind(c) == Kids

\* The hierarchy without c, which is in hand.
Left(c) == Extract(Kids, {c})

\* A cue is removed before it is asked for its children, and one that is no group has none
\* to give: the command fails with the cue in hand, and the Playhead stays on it.
UngroupRefused(c) ==
  /\ c \in TopLevel /\ kind[c] # "group"
  /\ list.playhead = c => "ungroup_playhead" \in Operator
  /\ Reorder("ungroup", [list EXCEPT !.kids = Left(c)])

\* Mutant of Parked: the Playhead goes with the cue.
ParkedOnIt(c, kids) == list.playhead

\* The Playhead does not follow a cue that is taken away.
Parked(c, kids) == IF list.playhead = c THEN FirstOf(kids[Root]) ELSE list.playhead

AddToGroup(c, g, i) ==
  LET left == Left(c)
  IN  /\ c \in InList /\ g \in InList \ Below(Kids, c) /\ kind[g] = "group"
      /\ i \in 1..(Len(left[g]) + 1)
      /\ Reorder("add_to_group",
           [list EXCEPT !.kids = [left EXCEPT ![g] = InsertAt(@, i, c)],
                        !.playhead = Parked(c, left)])

\* The target is missing, is not a group, is the cue in hand or is inside it: the command
\* fails when it looks for it, with the cue already taken out.
AddRefused(c, g) ==
  LET left == Left(c)
  IN  /\ c \in InList
      /\ g \in InList \ Below(Kids, c) => kind[g] # "group"
      /\ Reorder("add_to_group", [list EXCEPT !.kids = left, !.playhead = Parked(c, left)])

LeaveGroup(g, c) ==
  LET left == Left(c)
  IN  /\ g \in TopLevel /\ c \in ToSet(Kids[g])
      /\ Edit("leave_group",
           [list EXCEPT !.kids = [left EXCEPT ![Root] = InsertAt(@, At(@, g) + 1, c)]],
           Stopped({c}), Forgotten({c}))
      /\ UNCHANGED <<kind, decodes>>

ToTopLevel(c, before) ==
  LET left == Left(c)
  IN  /\ c \in InList /\ before \in ToSet(left[Root]) \cup {NoCue}
      /\ Reorder("to_top_level",
           [list EXCEPT !.kids = [left EXCEPT ![Root] = Before(@, before, <<c>>)],
                        !.playhead = Parked(c, left)])

\* The cue and all it holds, with fresh identifiers, next to the source.
Duplicate(c) ==
  LET source == Below(Kids, c) \cap Cue
      copies == {f \in [source -> Unused] : \A x, y \in source : f[x] = f[y] => x = y}
      copy   == CHOOSE f \in copies : TRUE
      of(n)  == CHOOSE x \in source : copy[x] = n
      fresh  == {copy[x] : x \in source}
      holder == CHOOSE p \in Place : c \in ToSet(Kids[p])
      taken(f) == [x \in Cue |-> IF x \in fresh THEN f[of(x)] ELSE f[x]]
  IN  /\ c \in InList /\ copies # {}
      /\ Edit("duplicate",
           [list EXCEPT
              !.kids = [p \in Place |->
                         CASE p \in fresh  -> [i \in DOMAIN Kids[of(p)] |-> copy[Kids[of(p)][i]]]
                           [] p = holder   -> InsertAt(Kids[p], At(Kids[p], c) + 1, copy[c])
                           [] OTHER        -> Kids[p]],
              !.file = taken(@), !.samples = taken(@)], {}, {})
      /\ kind' = taken(kind)
      /\ UNCHANGED decodes

\* set_audio_file: the cue is stopped and rebuilt, and its file is decoded.
Relink(c, f) ==
  /\ c \in InList /\ kind[c] = "audio"
  /\ Edit("relink", [list EXCEPT !.file[c] = f, !.samples[c] = NoFile],
          Stopped({c}), Forgotten({c}))
  /\ decodes' = decodes \cup {<<c, f>>}
  /\ UNCHANGED kind

\* update_cue on a group: it is rebuilt, Standby, with all its children.
EditGroup(g) ==
  /\ g \in InList /\ kind[g] = "group"
  /\ Edit("edit", list, {}, Below(Kids, g))
  /\ UNCHANGED <<kind, decodes>>

---------------------------------------------------------------------------
\* Undo and redo rebuild every cue.

\* Mutant of Restore: the decoded samples are kept.
RestoreKeepingSamples(s) ==
  /\ list' = [s EXCEPT !.samples = list.samples]
  /\ Forget(list', {}, Cue)

Restore(s) ==
  LET now == [s EXCEPT !.playhead = IF @ \in ToSet(s.kids[Root]) THEN @ ELSE NoCue]
  IN  /\ list' = now
      /\ Forget(now, {}, Cue)

Undo ==
  /\ "undo" \in Operator /\ ~busy /\ past # <<>>
  /\ Restore(Last(past))
  /\ past' = Front(past) /\ future' = Append(future, list)
  /\ UNCHANGED <<kind, decodes, busy, edits>>

Redo ==
  /\ "redo" \in Operator /\ ~busy /\ future # <<>>
  /\ Restore(Last(future))
  /\ future' = Front(future) /\ past' = Append(past, list)
  /\ UNCHANGED <<kind, decodes, busy, edits>>

---------------------------------------------------------------------------
\* The transport, the event loop and the decoding threads.

SetPlayhead(c) ==
  /\ "set_playhead" \in Operator /\ ~busy /\ c \in InList
  /\ list' = [list EXCEPT !.playhead = Ancestor(c)]
  /\ orphans' = {}
  /\ UNCHANGED <<kind, live, decodes, past, future, busy, edits>>

\* go() succeeds on these: an Audio Cue needs its samples, a group does not.
Startable(S) == {c \in S : kind[c] = "group" \/ list.samples[c] # NoFile}

Loading(c) == kind[c] = "audio" /\ list.file[c] # NoFile /\ list.samples[c] = NoFile

\* A Simultaneous group fires all its children.  A GO at a nested Playhead finds no
\* cue and fails.
Go ==
  /\ "go" \in Operator /\ ~busy
  /\ list.playhead \in TopLevel /\ ~Loading(list.playhead)
  /\ live' = live \cup Startable(Below(Kids, list.playhead))
  /\ list' = [list EXCEPT !.playhead = LET i == At(Kids[Root], @)
                                       IN  FirstOf(SubSeq(Kids[Root], i + 1, Len(Kids[Root])))]
  /\ orphans' = {}
  /\ UNCHANGED <<kind, decodes, past, future, busy, edits>>

\* A Command Cue starts one cue, wherever it is.
Start(c) ==
  /\ "start" \in Operator /\ ~busy /\ c \in Startable(InList) /\ kind[c] = "audio"
  /\ live' = live \cup {c}
  /\ orphans' = {}
  /\ UNCHANGED <<list, kind, decodes, past, future, busy, edits>>

\* The voice has ended, and the loop resets its cue, at any depth.
Finish(c) ==
  /\ c \in Sounding
  /\ live' = live \ {c}
  /\ orphans' = {}
  /\ UNCHANGED <<list, kind, decodes, past, future, busy, edits>>

\* The loop completes a top-level group none of whose children runs.
GroupDone(g) ==
  /\ g \in live \cap TopLevel /\ kind[g] = "group" /\ ToSet(Kids[g]) \cap live = {}
  /\ Forget(list, {}, Below(Kids, g))
  /\ UNCHANGED <<list, kind, decodes, past, future, busy, edits>>

\* Mutant of StillWanted: a result is taken by whatever the cue now plays.
WantedAnyway(c, f) == c \in InList

\* The cue is still there, and still names the file that was decoded.
StillWanted(c, f) == c \in InList /\ list.file[c] = f

DecodeDone(c, f) ==
  /\ <<c, f>> \in decodes /\ decodes' = decodes \ {<<c, f>>}
  /\ list' = IF StillWanted(c, f) THEN [list EXCEPT !.samples[c] = f] ELSE list
  /\ orphans' = {}
  /\ UNCHANGED <<kind, live, past, future, busy, edits>>

---------------------------------------------------------------------------
Rearranges ==
  \/ \E ids \in Selections, b \in Cue \cup {NoCue} : MoveCues(ids, b)
  \/ \E g \in Cue, ids \in Selections : GroupCues(g, ids)
  \/ \E g \in Cue : Ungroup(g)
  \/ \E c, g \in Cue, i \in 1..Cardinality(Cue) : AddToGroup(c, g, i)
  \/ \E c, g \in Cue : LeaveGroup(g, c)
  \/ \E c \in Cue, b \in Cue \cup {NoCue} : ToTopLevel(c, b)

\* A command on c that fails, and loses c with all it holds.
Refused(c) == UngroupRefused(c) \/ \E g \in Cue : AddRefused(c, g)

Changes ==
  \/ \E c \in Cue, sort \in {"audio", "group"}, i \in 1..Cardinality(Cue) : AddCue(c, sort, i)
  \/ \E S \in SUBSET Cue : RemoveCues(S)
  \/ \E c \in Cue : Duplicate(c) \/ EditGroup(c) \/ \E f \in File : Relink(c, f)

Next ==
  \/ BeginEdit \/ EndEdit
  \/ busy /\ (Rearranges \/ Changes \/ \E c \in Cue : Refused(c))
  \/ Undo \/ Redo \/ Go
  \/ \E c \in Cue : SetPlayhead(c) \/ Start(c) \/ Finish(c) \/ GroupDone(c)
  \/ \E c \in Cue, f \in File : DecodeDone(c, f)

Spec == Init /\ [][Next]_vars

---------------------------------------------------------------------------
\* A cue is at one place of the hierarchy, and no group is inside itself.
OnePlace ==
  /\ Apart(Kids)
  /\ \A c \in InList : c \notin UNION {Below(Kids, k) : k \in ToSet(Kids[c])}

\* The Playhead holds a top-level cue, the only kind a GO finds.
PlayheadTopLevel == list.playhead \in TopLevel \cup {NoCue}

\* The samples of a cue are those of the file it names, in the list and in every
\* snapshot, however the decoding threads, the relinking and the undoing interleave.
SamplesMatchFile ==
  \A image \in {list} \cup ToSet(past) \cup ToSet(future) :
    \A c \in Cue : image.samples[c] \in {NoFile, image.file[c]}

AudioCues == {c \in InList : kind[c] = "audio"}

\* Rearranging the list neither loses a cue that sounds nor brings one back.  A command
\* that fails with the cue in hand loses that cue and what is inside it, and no other.
RearrangingKeepsCues ==
  [][AudioCues' # AudioCues =>
       /\ ~Rearranges
       /\ \A c \in Cue : Refused(c) => /\ AudioCues' \subseteq AudioCues
                                       /\ AudioCues \ AudioCues' \subseteq Below(Kids, c)]_vars

\* A cue that is removed while the groups around it run is silenced: its voice is not left
\* without an owner.  This is about the removals only: Undo and Redo rebuild every cue and
\* forget what plays, and a refused command drops a cue that may sound.
RemovalSilences ==
  [][\A c \in Sounding \cap (InList \ InList') :
        (c \in orphans' /\ \A g \in InList : c \in Below(Kids, g) => g \in live)
          => ~\E S \in SUBSET Cue : RemoveCues(S)]_vars

\* Undo and redo walk along one line of history, the list being the place reached on
\* it: neither loses, changes or repeats a step, and only a new command cuts it.
Timeline == past \o <<list>> \o Reverse(future)

HistoryIsWalked == [][Undo \/ Redo => Timeline' = Timeline]_vars

\* The list is a forest, with a history of bounded length.
ListIsSound == TypeOK /\ OnePlace
============================================================================
