------------------------- MODULE CueEditing_proofs -------------------------
(***************************************************************************)
(* Proofs about CueEditing, for every number of cues, files, edit commands  *)
(* and undo levels: no cue ever has the samples of a file it does not name; *)
(* the list and every snapshot stay trees of cues in use; the Playhead is   *)
(* where a GO finds it; undo and redo walk along one line; rearranging      *)
(* loses no cue, and what is removed is silenced.                           *)
(***************************************************************************)
EXTENDS CueEditing, SequenceTheorems, FiniteSetTheorems, WellFoundedInduction, TLAPS

---------------------------------------------------------------------------
\* The inductive invariant.  A result that comes late is compared with the file the
\* cue names, so the list must agree with itself wherever an undo may lead: the same
\* is required of every snapshot.

Matches(i) ==
  /\ i.file \in [Cue -> Media] /\ i.samples \in [Cue -> Media]
  /\ \A c \in Cue : i.samples[c] \in {NoFile, i.file[c]}

Agrees(i) ==
  /\ i = [kids |-> i.kids, file |-> i.file, samples |-> i.samples, playhead |-> i.playhead]
  /\ Matches(i)

Recorded == {list} \cup ToSet(past) \cup ToSet(future)

AgreementInv ==
  /\ \A i \in Recorded : Agrees(i)
  /\ past \in Seq(Recorded) /\ future \in Seq(Recorded)
  /\ decodes \subseteq Cue \X File

\* What a sequence over S holds is in S.
LEMMA Elements ==
  ASSUME NEW S, NEW s \in Seq(S)
  PROVE  ToSet(s) \subseteq S /\ \A T : ToSet(s) \subseteq T => s \in Seq(T)
<1>1. s \in [1..Len(s) -> S] /\ Len(s) \in Nat /\ DOMAIN s = 1..Len(s)
  BY LenProperties
<1>2. ToSet(s) \subseteq S
  BY <1>1 DEF ToSet
<1>3. ASSUME NEW T, ToSet(s) \subseteq T PROVE s \in Seq(T)
  <2>1. s \in [1..Len(s) -> T]
    BY <1>1, <1>3 DEF ToSet
  <2> QED
    BY <2>1, <1>1, SeqDef
<1> QED
  BY <1>2, <1>3

\* Removing what is not in the list any more keeps the agreement.
LEMMA KeptAgrees ==
  ASSUME NEW now, Matches(now)
  PROVE  Agrees(Kept(now))
<1> DEFINE here == Below(now.kids, Root)
           file == [c \in Cue |-> IF c \in here THEN now.file[c] ELSE NoFile]
           samples == [c \in Cue |-> IF c \in here THEN now.samples[c] ELSE NoFile]
<1>1. file \in [Cue -> Media] /\ samples \in [Cue -> Media]
  BY DEF Matches, Media
<1>2. \A c \in Cue : samples[c] \in {NoFile, file[c]}
  BY DEF Matches
<1>3. Kept(now).file = file /\ Kept(now).samples = samples
  BY DEF Kept
<1>4. Kept(now) = [kids |-> Kept(now).kids, file |-> Kept(now).file,
                   samples |-> Kept(now).samples, playhead |-> Kept(now).playhead]
  BY DEF Kept
<1> QED
  BY <1>1, <1>2, <1>3, <1>4 DEF Agrees, Matches

\* An edit of an agreeing list leaves an agreeing list.
LEMMA EditAgrees ==
  ASSUME AgreementInv, NEW now, Matches(now), list' = Kept(now), UNCHANGED <<past, future>>,
         decodes' \subseteq Cue \X File
  PROVE  AgreementInv'
<1>1. Agrees(list')
  BY KeptAgrees
<1>2. ToSet(past) \subseteq Recorded' /\ ToSet(future) \subseteq Recorded'
  BY DEF Recorded
<1>3. past \in Seq(Recorded') /\ future \in Seq(Recorded')
  BY <1>2, Elements DEF AgreementInv
<1> QED
  BY <1>1, <1>3 DEF AgreementInv, Recorded

\* Undo and redo move images between the list and the history, and drop none but by
\* the bound.
LEMMA HistoryAgrees ==
  ASSUME AgreementInv, NEW S, past' \in Seq(S), future' \in Seq(S), list' \in S,
         \A i \in S : Agrees(i), decodes' = decodes
  PROVE  AgreementInv'
<1>1. ToSet(past') \subseteq S /\ ToSet(future') \subseteq S
  BY Elements
<1>2. ToSet(past') \subseteq Recorded' /\ ToSet(future') \subseteq Recorded'
  BY DEF Recorded
<1>3. past' \in Seq(Recorded') /\ future' \in Seq(Recorded')
  BY <1>2, Elements
<1> QED
  BY <1>1, <1>3 DEF AgreementInv, Recorded

---------------------------------------------------------------------------
\* The steps.

LEMMA InitAgreement == Init => AgreementInv
<1> SUFFICES ASSUME Init PROVE AgreementInv
  OBVIOUS
<1>1. PICK seed \in Seeds : list = seed.image
  BY DEF Init
<1>2. list \in Image /\ \A c \in Cue : list.samples[c] \in {NoFile, list.file[c]}
  BY <1>1, SeedAssumption
<1>3. Agrees(list)
  BY <1>2 DEF Image, Agrees, Matches
<1>4. ToSet(past) = {} /\ ToSet(future) = {}
  BY DEF Init, ToSet
<1> QED
  BY <1>3, <1>4 DEF Init, AgreementInv, Recorded

\* Moving cues about leaves their files alone.
LEMMA ReorderMatches ==
  ASSUME AgreementInv, NEW k, NEW p
  PROVE  /\ Matches([list EXCEPT !.kids = k]) /\ Matches([list EXCEPT !.playhead = p])
         /\ Matches([list EXCEPT !.kids = k, !.playhead = p])
<1>1. PICK a, f, s, b : list = [kids |-> a, file |-> f, samples |-> s, playhead |-> b]
  BY DEF AgreementInv, Recorded, Agrees
<1>2. Matches(list)
  BY DEF AgreementInv, Recorded, Agrees
<1> QED
  BY <1>1, <1>2 DEF Matches

\* An edit that leaves every file with its samples.
LEMMA Moved ==
  ASSUME AgreementInv, NEW name, NEW k, NEW p, NEW S, NEW T,
         \/ Edit(name, [list EXCEPT !.kids = k], S, T)
         \/ Edit(name, [list EXCEPT !.kids = k, !.playhead = p], S, T),
         UNCHANGED decodes
  PROVE  AgreementInv'
<1>1. decodes' \subseteq Cue \X File
  BY DEF AgreementInv
<1>2. CASE Edit(name, [list EXCEPT !.kids = k], S, T)
  BY <1>1, <1>2, ReorderMatches, EditAgrees DEF Edit
<1>3. CASE Edit(name, [list EXCEPT !.kids = k, !.playhead = p], S, T)
  BY <1>1, <1>3, ReorderMatches, EditAgrees DEF Edit
<1> QED
  BY <1>2, <1>3

LEMMA RearrangesAgree ==
  ASSUME AgreementInv, Rearranges
  PROVE  AgreementInv'
<1>1. ASSUME NEW ids \in Selections, NEW b \in Cue \cup {NoCue}, MoveCues(ids, b)
      PROVE  AgreementInv'
  BY <1>1, Moved DEF MoveCues, Reorder
<1>2. ASSUME NEW g \in Cue, NEW ids \in Selections, GroupCues(g, ids)
      PROVE  AgreementInv'
  BY <1>2, Moved DEF GroupCues
<1>3. ASSUME NEW g \in Cue, Ungroup(g)
      PROVE  AgreementInv'
  BY <1>3, Moved DEF Ungroup, Reorder
<1>4. ASSUME NEW c \in Cue, NEW g \in Cue, NEW i \in 1..Cardinality(Cue), AddToGroup(c, g, i)
      PROVE  AgreementInv'
  BY <1>4, Moved DEF AddToGroup, Reorder
<1>5. ASSUME NEW c \in Cue, NEW g \in Cue, LeaveGroup(g, c)
      PROVE  AgreementInv'
  BY <1>5, Moved DEF LeaveGroup
<1>6. ASSUME NEW c \in Cue, NEW b \in Cue \cup {NoCue}, ToTopLevel(c, b)
      PROVE  AgreementInv'
  BY <1>6, Moved DEF ToTopLevel, Reorder
<1> QED
  BY <1>1, <1>2, <1>3, <1>4, <1>5, <1>6 DEF Rearranges

\* So does losing a cue.
LEMMA RefusedAgree ==
  ASSUME AgreementInv, NEW c \in Cue, Refused(c)
  PROVE  AgreementInv'
<1>1. CASE UngroupRefused(c)
  BY <1>1, Moved DEF UngroupRefused, Reorder
<1>2. ASSUME NEW g \in Cue, AddRefused(c, g)
      PROVE  AgreementInv'
  BY <1>2, Moved DEF AddRefused, Reorder
<1> QED
  BY <1>1, <1>2 DEF Refused

\* The copy takes file and samples from the same cue.
LEMMA DuplicateAgrees ==
  ASSUME AgreementInv, NEW c \in Cue, Duplicate(c)
  PROVE  AgreementInv'
<1> DEFINE source == Below(Kids, c) \cap Cue
           copies == {f \in [source -> Unused] : \A x, y \in source : f[x] = f[y] => x = y}
           copy   == CHOOSE f \in copies : TRUE
           of(n)  == CHOOSE x \in source : copy[x] = n
           fresh  == {copy[x] : x \in source}
           taken(f) == [x \in Cue |-> IF x \in fresh THEN f[of(x)] ELSE f[x]]
<1>1. \A x \in fresh : of(x) \in Cue
  OBVIOUS
<1>2. Matches(list)
  BY DEF AgreementInv, Recorded, Agrees
<1>3. PICK a, f, s, b : list = [kids |-> a, file |-> f, samples |-> s, playhead |-> b]
  BY DEF AgreementInv, Recorded, Agrees
<1> HIDE DEF copy, copies, of, fresh
<1>4. /\ taken(list.file) \in [Cue -> Media] /\ taken(list.samples) \in [Cue -> Media]
      /\ \A x \in Cue : taken(list.samples)[x] \in {NoFile, taken(list.file)[x]}
  BY <1>1, <1>2 DEF Matches
<1> HIDE DEF taken
<1>5. \A k : Matches([list EXCEPT !.kids = k, !.file = taken(list.file),
                                  !.samples = taken(list.samples)])
  BY <1>3, <1>4 DEF Matches
<1>6. PICK k : /\ list' = Kept([list EXCEPT !.kids = k, !.file = taken(list.file),
                                             !.samples = taken(list.samples)])
               /\ UNCHANGED <<past, future, decodes>>
  BY Zenon DEF Duplicate, Edit, taken, of, fresh, copy, copies
<1>7. decodes' \subseteq Cue \X File
  BY <1>6 DEF AgreementInv
<1> QED
  BY <1>5, <1>6, <1>7, EditAgrees

LEMMA ChangesAgree ==
  ASSUME AgreementInv, Changes
  PROVE  AgreementInv'
<1>0. PICK a, f, s, b : list = [kids |-> a, file |-> f, samples |-> s, playhead |-> b]
  BY DEF AgreementInv, Recorded, Agrees
<1>1. Matches(list)
  BY DEF AgreementInv, Recorded, Agrees
<1>2. ASSUME NEW c \in Cue, NEW sort \in {"audio", "group"}, NEW i \in 1..Cardinality(Cue),
             AddCue(c, sort, i)
      PROVE  AgreementInv'
  BY <1>2, Moved DEF AddCue
<1>3. ASSUME NEW S \in SUBSET Cue, RemoveCues(S)
      PROVE  AgreementInv'
  BY <1>3, Moved DEF RemoveCues
<1>4. ASSUME NEW g \in Cue, EditGroup(g)
      PROVE  AgreementInv'
  <2>1. list' = Kept(list) /\ UNCHANGED <<past, future, decodes>>
    BY <1>4 DEF EditGroup, Edit
  <2> QED
    BY <2>1, <1>1, EditAgrees DEF AgreementInv
<1>5. ASSUME NEW c \in Cue, NEW m \in File, Relink(c, m)
      PROVE  AgreementInv'
  <2> DEFINE now == [list EXCEPT !.file[c] = m, !.samples[c] = NoFile]
  <2>1. now.file = [f EXCEPT ![c] = m] /\ now.samples = [s EXCEPT ![c] = NoFile]
    BY <1>0
  <2>2. Matches(now)
    BY <1>0, <1>1, <2>1 DEF Matches, Media
  <2>3. list' = Kept(now) /\ UNCHANGED <<past, future>> /\ decodes' \subseteq Cue \X File
    BY <1>5 DEF Relink, Edit, AgreementInv
  <2> QED
    BY <2>2, <2>3, EditAgrees
<1> QED
  BY <1>2, <1>3, <1>4, <1>5, DuplicateAgrees DEF Changes

\* Pushing a snapshot keeps the history a sequence of agreeing images.
LEMMA BeginEditAgrees ==
  ASSUME AgreementInv, BeginEdit
  PROVE  AgreementInv'
<1> DEFINE kept == IF Len(past) < MaxUndo THEN past ELSE Tail(past)
<1>1. past \in Seq(Recorded) /\ list \in Recorded
  BY DEF AgreementInv, Recorded
<1>2. kept \in Seq(Recorded)
  <2>1. CASE Len(past) < MaxUndo
    BY <1>1, <2>1
  <2>2. CASE ~(Len(past) < MaxUndo)
    <3>1. past # <<>>
      BY <2>2, BoundsAreNaturals, EmptySeq
    <3> QED
      BY <1>1, <2>2, <3>1, HeadTailProperties
  <2> QED
    BY <2>1, <2>2
<1>3. <<list>> \in Seq(Recorded) /\ <<>> \in Seq(Recorded)
  BY <1>1
<1>4. kept \o <<list>> \in Seq(Recorded)
  BY <1>2, <1>3, ConcatProperties
<1>5. past' \in Seq(Recorded) /\ future' \in Seq(Recorded) /\ list' \in Recorded /\ decodes' = decodes
  BY <1>1, <1>3, <1>4 DEF BeginEdit, Push
<1>6. \A i \in Recorded : Agrees(i)
  BY DEF AgreementInv
<1> QED
  BY <1>5, <1>6, HistoryAgrees

\* The last image of a history, and those before it.
LEMMA Popped ==
  ASSUME NEW S, NEW s \in Seq(S), s # <<>>
  PROVE  Last(s) \in S /\ Front(s) \in Seq(S)
<1>1. Len(s) \in Nat \ {0}
  BY EmptySeq
<1>2. \A i \in 1..Len(s) : s[i] \in S
  BY ElementOfSeq
<1>3. Front(s) \in Seq(S)
  <2>1. \A i \in 1..(Len(s) - 1) : s[i] \in S
    BY <1>1, <1>2
  <2> QED
    BY <1>1, <2>1, SubSeqProperties DEF Front
<1> QED
  BY <1>1, <1>2, <1>3 DEF Last

\* What is restored from a snapshot agrees, wherever its Playhead goes.
LEMMA RestoreAgrees ==
  ASSUME AgreementInv, NEW s \in Recorded, Restore(s)
  PROVE  Agrees(list')
<1>1. Agrees(s)
  BY DEF AgreementInv
<1>2. PICK k, f, m, p : s = [kids |-> k, file |-> f, samples |-> m, playhead |-> p]
  BY <1>1 DEF Agrees
<1>3. PICK q : list' = [s EXCEPT !.playhead = q]
  BY DEF Restore
<1>4. list' = [kids |-> k, file |-> f, samples |-> m, playhead |-> q]
  BY <1>2, <1>3
<1> QED
  BY <1>1, <1>2, <1>4 DEF Agrees, Matches

LEMMA UndoRedoAgree ==
  ASSUME AgreementInv, Undo \/ Redo
  PROVE  AgreementInv'
<1> DEFINE S == Recorded \cup {list'}
<1>1. past \in Seq(Recorded) /\ future \in Seq(Recorded) /\ list \in Recorded
  BY DEF AgreementInv, Recorded
<1>2. past \in Seq(S) /\ future \in Seq(S) /\ list \in S /\ list' \in S
  BY <1>1, SeqMonotonic
<1>3. CASE Undo
  <2>1. Last(past) \in Recorded /\ Front(past) \in Seq(S)
    BY <1>1, <1>2, <1>3, Popped DEF Undo
  <2>2. Agrees(list')
    BY <1>3, <2>1, RestoreAgrees DEF Undo
  <2>3. past' \in Seq(S) /\ future' \in Seq(S) /\ decodes' = decodes
    BY <1>2, <1>3, <2>1, AppendProperties DEF Undo
  <2>4. \A i \in S : Agrees(i)
    BY <2>2 DEF AgreementInv
  <2> QED
    BY <1>2, <2>3, <2>4, HistoryAgrees
<1>4. CASE Redo
  <2>1. Last(future) \in Recorded /\ Front(future) \in Seq(S)
    BY <1>1, <1>2, <1>4, Popped DEF Redo
  <2>2. Agrees(list')
    BY <1>4, <2>1, RestoreAgrees DEF Redo
  <2>3. past' \in Seq(S) /\ future' \in Seq(S) /\ decodes' = decodes
    BY <1>2, <1>4, <2>1, AppendProperties DEF Redo
  <2>4. \A i \in S : Agrees(i)
    BY <2>2 DEF AgreementInv
  <2> QED
    BY <1>2, <2>3, <2>4, HistoryAgrees
<1> QED
  BY <1>3, <1>4

\* The transport, the loop and the decoding threads.  A result is taken only when the
\* cue still names the file that was decoded.
LEMMA OtherStepsAgree ==
  ASSUME AgreementInv,
         \/ EndEdit \/ Go
         \/ \E c \in Cue : SetPlayhead(c) \/ Start(c) \/ Finish(c) \/ GroupDone(c)
         \/ \E c \in Cue, f \in File : DecodeDone(c, f)
         \/ UNCHANGED vars
  PROVE  AgreementInv'
<1>0. PICK k, f, m, p : list = [kids |-> k, file |-> f, samples |-> m, playhead |-> p]
  BY DEF AgreementInv, Recorded, Agrees
<1>1. Agrees(list) /\ past \in Seq(Recorded) /\ future \in Seq(Recorded)
  BY DEF AgreementInv, Recorded
<1> DEFINE S == Recorded \cup {list'}
<1>2. past \in Seq(S) /\ future \in Seq(S)
  BY <1>1, SeqMonotonic
<1>3. ASSUME Agrees(list'), UNCHANGED <<past, future>>, decodes' \subseteq decodes
      PROVE  AgreementInv'
  <2>1. \A i \in S : Agrees(i)
    BY <1>3 DEF AgreementInv
  <2>2. ToSet(past) \subseteq Recorded' /\ ToSet(future) \subseteq Recorded'
    BY <1>3 DEF Recorded
  <2>3. past' \in Seq(Recorded') /\ future' \in Seq(Recorded')
    BY <1>2, <1>3, <2>2, Elements
  <2>4. \A i \in Recorded' : Agrees(i)
    BY <1>3, <2>1 DEF Recorded
  <2> QED
    BY <1>3, <2>3, <2>4 DEF AgreementInv
<1>4. CASE UNCHANGED <<list, past, future>> /\ decodes' \subseteq decodes
  BY <1>1, <1>3, <1>4
<1>5. ASSUME NEW q, list' = [list EXCEPT !.playhead = q], UNCHANGED <<past, future, decodes>>
      PROVE  AgreementInv'
  <2>1. list' = [kids |-> k, file |-> f, samples |-> m, playhead |-> q]
    BY <1>0, <1>5
  <2>2. Agrees(list')
    BY <1>0, <1>1, <2>1 DEF Agrees, Matches
  <2> QED
    BY <1>3, <1>5, <2>2
<1>6. CASE Go
  BY <1>5, <1>6 DEF Go
<1>7. ASSUME NEW c \in Cue, SetPlayhead(c) PROVE AgreementInv'
  BY <1>5, <1>7 DEF SetPlayhead
<1>8. ASSUME NEW c \in Cue, NEW n \in File, DecodeDone(c, n) PROVE AgreementInv'
  <2>1. CASE StillWanted(c, n)
    <3>1. list' = [kids |-> k, file |-> f, samples |-> [m EXCEPT ![c] = n], playhead |-> p]
      BY <1>0, <1>8, <2>1 DEF DecodeDone
    <3>2. f[c] = n
      BY <1>0, <2>1 DEF StillWanted
    <3>3. Agrees(list')
      BY <1>0, <1>1, <3>1, <3>2 DEF Agrees, Matches, Media
    <3> QED
      BY <1>3, <1>8, <3>3 DEF DecodeDone
  <2>2. CASE ~StillWanted(c, n)
    BY <1>4, <1>8, <2>2 DEF DecodeDone
  <2> QED
    BY <2>1, <2>2
<1>9. CASE EndEdit \/ (\E c \in Cue : Start(c) \/ Finish(c) \/ GroupDone(c)) \/ UNCHANGED vars
  BY <1>4, <1>9 DEF EndEdit, Start, Finish, GroupDone, vars
<1> QED
  BY <1>6, <1>7, <1>8, <1>9

---------------------------------------------------------------------------
\* In the list and in every snapshot, the samples of a cue are those of the file it
\* names, however decoding, relinking, duplicating, undoing and redoing interleave.
THEOREM SamplesAreOfTheFile == Spec => []SamplesMatchFile
<1>1. AgreementInv /\ [Next]_vars => AgreementInv'
  BY BeginEditAgrees, UndoRedoAgree, RearrangesAgree, RefusedAgree, ChangesAgree,
     OtherStepsAgree DEF Next
<1>2. AgreementInv => SamplesMatchFile
  BY DEF AgreementInv, Recorded, Agrees, Matches, SamplesMatchFile
<1> QED
  BY InitAgreement, <1>1, <1>2, PTL DEF Spec
---------------------------------------------------------------------------
(***************************************************************************)
(* The sequences of a hierarchy: what stays of one, what is put into one.   *)
(***************************************************************************)
Distinct(s) == \A i, j \in DOMAIN s : s[i] = s[j] => i = j

\* A nonempty set of naturals has a least element.
LEMMA Least ==
  ASSUME NEW T \in SUBSET Nat, T # {}
  PROVE  \E x \in T : \A y \in T : x <= y
<1> DEFINE R == {p \in Nat \X Nat : p[1] < p[2]}
<1>1. R = OpToRel(<, Nat)
  BY DEF OpToRel
<1>2. IsWellFoundedOn(R, Nat)
  BY <1>1, NatLessThanWellFounded
<1>3. \E x \in T : \A y \in T : ~(<<y, x>> \in R)
  <2> HIDE DEF R
  <2> QED
    BY <1>2, WFMin
<1>4. \A x, y \in Nat : <<y, x>> \in R <=> y < x
  OBVIOUS
<1>5. \A x, y \in Nat : ~(y < x) => x <= y
  OBVIOUS
<1> QED
  <2> HIDE DEF R
  <2> QED
    BY <1>3, <1>4, <1>5

\* A nonempty set of numbers up to a bound has a greatest element.
LEMMA Greatest ==
  ASSUME NEW N \in Nat, NEW T \in SUBSET (1..N), T # {}
  PROVE  \E x \in T : \A y \in T : x >= y
<1> DEFINE R == {N - x : x \in T}
<1>0. \A x \in T : x \in Nat /\ N - x \in Nat
  OBVIOUS
<1>1. R \in SUBSET Nat /\ R # {}
  BY <1>0
<1>2. PICK r \in R : \A q \in R : r <= q
  <2> HIDE DEF R
  <2> QED
    BY <1>1, Least
<1>3. PICK x \in T : r = N - x
  OBVIOUS
<1>4. \A y \in T : N - x <= N - y
  BY <1>2, <1>3
<1> QED
  BY <1>4

\* What holds at 0 and, with a number, at the one above it, holds up to any bound.
LEMMA UpTo ==
  ASSUME NEW N \in Nat, NEW S, 0 \in S, \A k \in 1..N : k - 1 \in S => k \in S
  PROVE  0..N \subseteq S
<1> DEFINE T == {k \in 0..N : k \notin S}
<1> SUFFICES ASSUME T # {} PROVE FALSE
  OBVIOUS
<1>0. T \in SUBSET Nat
  OBVIOUS
<1>1. PICK x \in T : \A y \in T : x <= y
  <2> HIDE DEF T
  <2> QED
    BY <1>0, Least
<1>2. x \in 1..N /\ x - 1 \in 0..N /\ ~(x <= x - 1)
  BY <1>1
<1>3. x - 1 \in S
  BY <1>1, <1>2
<1> QED
  BY <1>1, <1>2, <1>3

\* A value that is worked out step by step, each from the one before, exists.
Steps(N, V, a, step) ==
  \E f \in [0..N -> V] : f[0] = a /\ \A k \in 1..N : f[k] = step[k][f[k - 1]]
LEMMA Stepwise ==
  \A N \in Nat : \A V : \A a \in V : \A step \in [1..N -> [V -> V]] : Steps(N, V, a, step)
<1> SUFFICES ASSUME NEW N \in Nat, NEW V, NEW a \in V, NEW step \in [1..N -> [V -> V]]
             PROVE  Steps(N, V, a, step)
  BY Zenon
<1> DEFINE Works(n, f) == f[0] = a /\ \A k \in 1..n : f[k] = step[k][f[k - 1]]
           S == {n \in 0..N : \E f \in [0..n -> V] : Works(n, f)}
<1>1. 0 \in S
  <2> DEFINE f == [k \in 0..0 |-> a]
  <2>1. f \in [0..0 -> V] /\ f[0] = a /\ 1..0 = {} /\ 0 \in 0..N
    OBVIOUS
  <2>2. Works(0, f)
    BY <2>1
  <2> HIDE DEF Works, f
  <2> QED
    BY <2>1, <2>2
<1>2. ASSUME NEW k \in 1..N, k - 1 \in S PROVE k \in S
  <2>1. PICK f \in [0..(k - 1) -> V] : Works(k - 1, f)
    BY <1>2
  <2>2. k - 1 \in 0..(k - 1) /\ f[k - 1] \in V
    OBVIOUS
  <2>3. step[k] \in [V -> V]
    OBVIOUS
  <2> DEFINE v == step[k][f[k - 1]]
             g == [i \in 0..k |-> IF i = k THEN v ELSE f[i]]
  <2>4. v \in V
    BY <2>2, <2>3
  <2>5. g \in [0..k -> V] /\ (\A i \in 0..(k - 1) : g[i] = f[i]) /\ g[k] = v
    <3> HIDE DEF v
    <3>1. \A i \in 0..k : i # k => i \in 0..(k - 1)
      OBVIOUS
    <3>2. \A i \in 0..k : (IF i = k THEN v ELSE f[i]) \in V
      BY <2>4, <3>1
    <3>3. \A i \in 0..(k - 1) : i \in 0..k /\ i # k
      OBVIOUS
    <3>4. g \in [0..k -> V]
      BY <3>2
    <3>6. g[k] = v
      BY k \in 0..k
    <3>5. \A i \in 0..(k - 1) : g[i] = f[i]
      BY <3>3
    <3> QED
      BY <3>4, <3>5, <3>6
  <2>6. g[k] = step[k][g[k - 1]]
    BY <2>2, <2>5
  <2>7. f[0] = a /\ \A i \in 1..(k - 1) : f[i] = step[i][f[i - 1]]
    BY <2>1
  <2> HIDE DEF g
  <2>8. \A i \in 1..k : i = k \/ (i \in 1..(k - 1) /\ i \in 0..(k - 1) /\ i - 1 \in 0..(k - 1))
    OBVIOUS
  <2>9. \A i \in 1..k : g[i] = step[i][g[i - 1]]
    BY <2>5, <2>6, <2>7, <2>8
  <2>10. g[0] = a
    BY <2>5, <2>7
  <2>11. Works(k, g)
    BY <2>9, <2>10
  <2> HIDE DEF Works
  <2> QED
    BY <2>5, <2>11, k \in 0..N
<1>3. 0..N \subseteq S
  <2> HIDE DEF S
  <2> QED
    BY <1>1, <1>2, UpTo
<1>4. PICK f \in [0..N -> V] : Works(N, f)
  <2> HIDE DEF Works
  <2> QED
    BY <1>3, N \in 0..N
<1> QED
  BY <1>4 DEF Steps

\* The walk of Without over a sequence takes one element after the other.
Walks(s, S, f) ==
  /\ f[0] = <<>> /\ Without(s, S) = f[Len(s)]
  /\ \A n \in 1..Len(s) : f[n] = IF s[n] \in S THEN f[n - 1] ELSE Append(f[n - 1], s[n])
LEMMA Walk ==
  ASSUME NEW T, NEW s \in Seq(T), NEW S
  PROVE  \E f \in [0..Len(s) -> Seq(T)] : Walks(s, S, f)
<1> DEFINE step == [n \in 1..Len(s) |->
                     [t \in Seq(T) |-> IF s[n] \in S THEN t ELSE Append(t, s[n])]]
           Is(f) == f = [n \in 0..Len(s) |->
                          IF n = 0 THEN <<>>
                          ELSE IF s[n] \in S THEN f[n - 1] ELSE Append(f[n - 1], s[n])]
<1>1. Len(s) \in Nat /\ <<>> \in Seq(T) /\ \A n \in 1..Len(s) : s[n] \in T
  BY ElementOfSeq
<1>2. step \in [1..Len(s) -> [Seq(T) -> Seq(T)]]
  BY <1>1
<1>3. PICK f \in [0..Len(s) -> Seq(T)] : f[0] = <<>> /\ \A n \in 1..Len(s) : f[n] = step[n][f[n - 1]]
  <2>1. \A V : \A a \in V : \A m \in [1..Len(s) -> [V -> V]] : Steps(Len(s), V, a, m)
    BY <1>1, Stepwise, Zenon
  <2>2. \A a \in Seq(T) : \A m \in [1..Len(s) -> [Seq(T) -> Seq(T)]] : Steps(Len(s), Seq(T), a, m)
    BY <2>1, Zenon
  <2> HIDE DEF step
  <2>3. Steps(Len(s), Seq(T), <<>>, step)
    BY <1>1, <1>2, <2>2, Zenon
  <2> QED
    BY <2>3 DEF Steps
<1>4. \A n \in 1..Len(s) : f[n] = IF s[n] \in S THEN f[n - 1] ELSE Append(f[n - 1], s[n])
  <2> TAKE n \in 1..Len(s)
  <2>0. n - 1 \in 0..Len(s)
    BY <1>1
  <2>1. f[n - 1] \in Seq(T)
    BY <2>0
  <2>2. f[n] = step[n][f[n - 1]]
    BY <1>3
  <2> QED
    BY <2>1, <2>2
<1>5. Is(f)
  <2>1. \A n \in 0..Len(s) : n # 0 => n \in 1..Len(s)
    BY <1>1
  <2>2. \A n \in 0..Len(s) : f[n] = IF n = 0 THEN <<>>
                          ELSE IF s[n] \in S THEN f[n - 1] ELSE Append(f[n - 1], s[n])
    BY <1>3, <1>4, <2>1
  <2> QED
    BY <2>2
<1>6. ASSUME NEW g, Is(g) PROVE g = f
  <2> DEFINE H == {n \in 0..Len(s) : g[n] = f[n]}
  <2>1. 0 \in H
    BY <1>1, <1>3, <1>6
  <2>2. ASSUME NEW n \in 1..Len(s), n - 1 \in H PROVE n \in H
    <3>1. n \in 0..Len(s) /\ n # 0 /\ g[n - 1] = f[n - 1]
      BY <1>1, <2>2
    <3>2. g[n] = IF s[n] \in S THEN g[n - 1] ELSE Append(g[n - 1], s[n])
      BY <1>6, <3>1
    <3> QED
      BY <1>4, <3>1, <3>2
  <2>3. 0..Len(s) \subseteq H
    <3> HIDE DEF H
    <3> QED
      BY <1>1, <2>1, <2>2, UpTo
  <2> QED
    BY <1>5, <1>6, <2>3
<1>7. Without(s, S) = (CHOOSE g : Is(g))[Len(s)]
  BY Zenon DEF Without
<1>8. (CHOOSE g : Is(g)) = f
  <2> HIDE DEF Is
  <2> QED
    BY <1>5, <1>6, Zenon
<1> QED
  BY <1>3, <1>4, <1>7, <1>8 DEF Walks

\* One more element at the end.
LEMMA Appended ==
  ASSUME NEW T, NEW t \in Seq(T), NEW e \in T
  PROVE  /\ Append(t, e) \in Seq(T) /\ ToSet(Append(t, e)) = ToSet(t) \cup {e}
         /\ Distinct(t) /\ e \notin ToSet(t) => Distinct(Append(t, e))
<1> DEFINE r == Append(t, e)
<1>1. /\ r \in Seq(T) /\ Len(r) = Len(t) + 1 /\ Len(t) \in Nat /\ r[Len(t) + 1] = e
      /\ DOMAIN t = 1..Len(t) /\ DOMAIN r = 1..(Len(t) + 1) /\ \A i \in 1..Len(t) : r[i] = t[i]
  BY AppendProperties, LenProperties
<1> HIDE DEF r
<1>2. \A i \in 1..(Len(t) + 1) : i \in 1..Len(t) \/ i = Len(t) + 1
  BY <1>1
<1>3. ToSet(r) = ToSet(t) \cup {e}
  <2>1. ToSet(r) \subseteq ToSet(t) \cup {e}
    BY <1>1, <1>2 DEF ToSet
  <2>2. ToSet(t) \cup {e} \subseteq ToSet(r)
    BY <1>1 DEF ToSet
  <2> QED
    BY <2>1, <2>2
<1>4. ASSUME Distinct(t), e \notin ToSet(t) PROVE Distinct(r)
  <2>1. \A i \in 1..Len(t) : t[i] # e
    BY <1>1, <1>4 DEF ToSet
  <2> QED
    BY <1>1, <1>2, <1>4, <2>1 DEF Distinct
<1> QED
  BY <1>1, <1>3, <1>4 DEF r

\* What stays: all but S, once each if they were, and all of a beginning without S.
LEMMA WithoutIs ==
  ASSUME NEW T, NEW s \in Seq(T), NEW S
  PROVE  /\ Without(s, S) \in Seq(T) /\ ToSet(Without(s, S)) = ToSet(s) \ S
         /\ Distinct(s) => Distinct(Without(s, S))
         /\ \A k \in 0..Len(s) : (\A i \in 1..k : s[i] \notin S) => k <= Len(Without(s, S))
<1>0. PICK f \in [0..Len(s) -> Seq(T)] : Walks(s, S, f)
  BY Walk
<1>1. /\ f[0] = <<>> /\ Without(s, S) = f[Len(s)]
      /\ \A n \in 1..Len(s) : f[n] = IF s[n] \in S THEN f[n - 1] ELSE Append(f[n - 1], s[n])
  BY <1>0 DEF Walks
<1>2. Len(s) \in Nat /\ DOMAIN s = 1..Len(s) /\ \A i \in 1..Len(s) : s[i] \in T
  BY ElementOfSeq, LenProperties
<1> DEFINE First(n) == {s[i] : i \in 1..n}
           Inv(n) == /\ ToSet(f[n]) = First(n) \ S
                     /\ Distinct(s) => Distinct(f[n])
                     /\ \A k \in 0..n : (\A i \in 1..k : s[i] \notin S) => k <= Len(f[n])
           H == {n \in 0..Len(s) : Inv(n)}
<1>3. 0 \in H
  <2>1. ToSet(<<>>) = {} /\ First(0) = {} /\ Distinct(<<>>) /\ Len(<<>>) = 0
    BY DEF ToSet, Distinct
  <2>2. \A k \in 0..0 : k <= 0
    OBVIOUS
  <2> QED
    BY <1>1, <1>2, <2>1, <2>2
<1>4. ASSUME NEW n \in 1..Len(s), n - 1 \in H PROVE n \in H
  <2>1. n \in 0..Len(s) /\ n - 1 \in 0..Len(s) /\ f[n - 1] \in Seq(T) /\ s[n] \in T
    BY <1>2
  <2>2. Inv(n - 1)
    BY <1>4
  <2>3. First(n) = First(n - 1) \cup {s[n]}
    BY <1>2
  <2>4. \A k \in 0..n : k \in 0..(n - 1) \/ k = n
    BY <1>2
  <2>5. Len(f[n - 1]) \in Nat
    BY <2>1, LenProperties
  <2>6. CASE s[n] \in S
    <3>1. f[n] = f[n - 1]
      BY <1>1, <2>6
    <3>2. First(n) \ S = First(n - 1) \ S
      BY <2>3, <2>6
    <3>3. ~(\A i \in 1..n : s[i] \notin S)
      BY <1>2, <2>6
    <3> HIDE DEF First
    <3>4. Inv(n)
      BY <2>2, <2>4, <3>1, <3>2, <3>3
    <3> QED
      BY <2>1, <3>4
  <2>7. CASE s[n] \notin S
    <3>1. f[n] = Append(f[n - 1], s[n])
      BY <1>1, <2>7
    <3>2. ToSet(f[n]) = ToSet(f[n - 1]) \cup {s[n]}
      BY <2>1, <3>1, Appended
    <3>3. First(n) \ S = (First(n - 1) \ S) \cup {s[n]}
      BY <2>3, <2>7
    <3>4. Distinct(s) => s[n] \notin First(n - 1)
      BY <1>2 DEF Distinct
    <3>5. Len(f[n]) = Len(f[n - 1]) + 1
      BY <2>1, <3>1, AppendProperties
    <3> HIDE DEF First
    <3>6. Distinct(s) => Distinct(f[n])
      BY <2>1, <2>2, <3>1, <3>4, Appended
    <3>7. ASSUME NEW k \in 0..n, \A i \in 1..k : s[i] \notin S PROVE k <= Len(f[n])
      <4>1. CASE k \in 0..(n - 1)
        <5>1. k <= Len(f[n - 1])
          BY <2>2, <3>7, <4>1
        <5> QED
          BY <2>5, <3>5, <5>1
      <4>2. CASE k = n
        <5>1. n - 1 \in 0..(n - 1) /\ \A i \in 1..(n - 1) : s[i] \notin S
          BY <3>7, <4>2
        <5>2. n - 1 <= Len(f[n - 1])
          BY <2>2, <5>1
        <5> QED
          BY <2>5, <3>5, <4>2, <5>2
      <4> QED
        BY <2>4, <4>1, <4>2
    <3>8. Inv(n)
      BY <2>2, <3>2, <3>3, <3>6, <3>7
    <3> QED
      BY <2>1, <3>8
  <2> QED
    BY <2>6, <2>7
<1>5. 0..Len(s) \subseteq H
  <2> HIDE DEF H
  <2> QED
    BY <1>2, <1>3, <1>4, UpTo
<1>6. Inv(Len(s)) /\ f[Len(s)] \in Seq(T)
  <2>1. Len(s) \in 0..Len(s)
    BY <1>2
  <2> HIDE DEF Inv
  <2> QED
    BY <1>5, <2>1
<1>7. First(Len(s)) = ToSet(s)
  BY <1>2 DEF ToSet
<1> QED
  BY <1>1, <1>6, <1>7

Spliced(s, k, t) == SubSeq(s, 1, k - 1) \o t \o SubSeq(s, k, Len(s))

\* A sequence put into another holds what both did, in one place each.
LEMMA SplicedIs ==
  ASSUME NEW T, NEW s \in Seq(T), NEW t \in Seq(T), NEW k \in 1..(Len(s) + 1)
  PROVE  /\ Spliced(s, k, t) \in Seq(T) /\ ToSet(Spliced(s, k, t)) = ToSet(s) \cup ToSet(t)
         /\ Distinct(s) /\ Distinct(t) /\ ToSet(s) \cap ToSet(t) = {} => Distinct(Spliced(s, k, t))
<1> DEFINE a == SubSeq(s, 1, k - 1)
           b == SubSeq(s, k, Len(s))
           r == Spliced(s, k, t)
           n == Len(s)
           m == Len(t)
<1>1. n \in Nat /\ m \in Nat /\ DOMAIN s = 1..n /\ DOMAIN t = 1..m /\ k \in Nat \ {0} /\ k <= n + 1
  BY LenProperties
<1>2. a \in Seq(T) /\ Len(a) = k - 1 /\ \A i \in 1..(k - 1) : a[i] = s[i]
  <2>1. k - 1 <= n /\ \A i \in 1..(k - 1) : i \in 1..n /\ s[i] \in T
    BY <1>1, ElementOfSeq
  <2> QED
    BY <1>1, <2>1, SubSeqProperties
<1>3. b \in Seq(T) /\ Len(b) = n - k + 1 /\ \A i \in 1..(n - k + 1) : b[i] = s[k + i - 1]
  <2>1. \A i \in k..n : i \in 1..n /\ s[i] \in T
    BY <1>1, ElementOfSeq
  <2> QED
    BY <1>1, <2>1, SubSeqProperties
<1>4. a \o t \in Seq(T) /\ Len(a \o t) = k - 1 + m
      /\ \A i \in 1..(k - 1 + m) : (a \o t)[i] = IF i <= k - 1 THEN a[i] ELSE t[i - (k - 1)]
  BY <1>1, <1>2, ConcatProperties
<1>5. r \in Seq(T) /\ Len(r) = n + m
      /\ \A i \in 1..(n + m) : r[i] = IF i <= k - 1 + m THEN (a \o t)[i] ELSE b[i - (k - 1 + m)]
  <2> HIDE DEF a, b
  <2>1. r = (a \o t) \o b
    BY DEF a, b, Spliced
  <2> HIDE DEF r
  <2>2. k - 1 + m + (n - k + 1) = n + m
    BY <1>1
  <2> DEFINE c == a \o t
  <2>3. c \in Seq(T) /\ Len(c) = k - 1 + m
    BY <1>4
  <2> HIDE DEF c
  <2>4. /\ c \o b \in Seq(T) /\ Len(c \o b) = Len(c) + Len(b)
        /\ \A i \in 1..(Len(c) + Len(b)) : (c \o b)[i] = IF i <= Len(c) THEN c[i] ELSE b[i - Len(c)]
    <3>1. c \in Seq(T) /\ b \in Seq(T)
      BY <1>3, <2>3
    <3>2. c \o b \in Seq(T) /\ Len(c \o b) = Len(c) + Len(b)
      BY <3>1
    <3>3. \A i \in 1..(Len(c) + Len(b)) : (c \o b)[i] = IF i <= Len(c) THEN c[i] ELSE b[i - Len(c)]
      BY <3>1
    <3> QED
      BY <3>2, <3>3
  <2>5. r = c \o b
    BY <2>1 DEF c
  <2>6. /\ r \in Seq(T) /\ Len(r) = n + m
        /\ \A i \in 1..(n + m) : r[i] = IF i <= k - 1 + m THEN c[i] ELSE b[i - (k - 1 + m)]
    BY <1>3, <2>2, <2>3, <2>4, <2>5
  <2> QED
    BY <2>6 DEF c
<1> HIDE DEF a, b, r
<1>6. DOMAIN r = 1..(n + m)
  BY <1>1, <1>5, LenProperties
<1>7. /\ \A i \in 1..(k - 1) : i \in 1..(n + m) /\ r[i] = s[i]
      /\ \A i \in k..(k + m - 1) : i \in 1..(n + m) /\ r[i] = t[i - k + 1]
      /\ \A i \in (k + m)..(n + m) : i \in 1..(n + m) /\ r[i] = s[i - m]
  <2>1. \A i \in 1..(k - 1) : i \in 1..(n + m) /\ i \in 1..(k - 1 + m)
    BY <1>1
  <2>2. \A i \in k..(k + m - 1) : i \in 1..(n + m) /\ i \in 1..(k - 1 + m) /\ ~(i <= k - 1) /\ i - (k - 1) = i - k + 1
    BY <1>1
  <2>3. \A i \in (k + m)..(n + m) : /\ i \in 1..(n + m) /\ ~(i <= k - 1 + m) /\ i - (k - 1 + m) \in 1..(n - k + 1)
                                    /\ k + (i - (k - 1 + m)) - 1 = i - m
    BY <1>1
  <2>4. \A i \in 1..(k - 1) : r[i] = s[i]
    BY <1>1, <1>2, <1>4, <1>5, <2>1
  <2>5. \A i \in k..(k + m - 1) : r[i] = t[i - k + 1]
    BY <1>1, <1>4, <1>5, <2>2
  <2>6. \A i \in (k + m)..(n + m) : r[i] = s[i - m]
    BY <1>1, <1>3, <1>5, <2>3
  <2> QED
    BY <2>1, <2>2, <2>3, <2>4, <2>5, <2>6
<1>8. \A i \in 1..(n + m) : i \in 1..(k - 1) \/ i \in k..(k + m - 1) \/ i \in (k + m)..(n + m)
  BY <1>1
<1>9. ToSet(r) = ToSet(s) \cup ToSet(t)
  <2>1. ToSet(r) \subseteq ToSet(s) \cup ToSet(t)
    <3>1. \A i \in 1..(k - 1) : i \in 1..n
      BY <1>1
    <3>2. \A i \in k..(k + m - 1) : i - k + 1 \in 1..m
      BY <1>1
    <3>3. \A i \in (k + m)..(n + m) : i - m \in 1..n
      BY <1>1
    <3> QED
      BY <1>1, <1>6, <1>7, <1>8, <3>1, <3>2, <3>3 DEF ToSet
  <2>2. ToSet(s) \subseteq ToSet(r)
    <3>1. \A i \in 1..n : i \in 1..(k - 1) \/ (i + m \in (k + m)..(n + m) /\ (i + m) - m = i)
      BY <1>1
    <3>2. \A i \in 1..n : \E j \in 1..(n + m) : r[j] = s[i]
      BY <1>7, <3>1
    <3> QED
      BY <1>1, <1>6, <3>2 DEF ToSet
  <2>3. ToSet(t) \subseteq ToSet(r)
    <3>1. \A i \in 1..m : i + k - 1 \in k..(k + m - 1) /\ (i + k - 1) - k + 1 = i
      BY <1>1
    <3>2. \A i \in 1..m : \E j \in 1..(n + m) : r[j] = t[i]
      BY <1>7, <3>1
    <3> QED
      BY <1>1, <1>6, <3>2 DEF ToSet
  <2> QED
    BY <2>1, <2>2, <2>3
<1>10. ASSUME Distinct(s), Distinct(t), ToSet(s) \cap ToSet(t) = {} PROVE Distinct(r)
  <2>1. \A i \in 1..n, j \in 1..m : s[i] # t[j]
    BY <1>1, <1>10 DEF ToSet
  <2>2. \A i, j \in 1..n : s[i] = s[j] => i = j
    BY <1>1, <1>10 DEF Distinct
  <2>3. \A i, j \in 1..m : t[i] = t[j] => i = j
    BY <1>1, <1>10 DEF Distinct
  <2> DEFINE of(i) == IF i \in k..(k + m - 1) THEN i - k + 1 ELSE IF i <= k - 1 THEN i ELSE i - m
             Mid(i) == i \in k..(k + m - 1)
  <2>4. \A i \in 1..(n + m) : /\ Mid(i) => of(i) \in 1..m /\ r[i] = t[of(i)]
                              /\ ~Mid(i) => of(i) \in 1..n /\ r[i] = s[of(i)]
    <3> TAKE i \in 1..(n + m)
    <3>1. CASE i \in 1..(k - 1)
      BY <1>1, <1>7, <3>1
    <3>2. CASE i \in k..(k + m - 1)
      BY <1>1, <1>7, <3>2
    <3>3. CASE i \in (k + m)..(n + m)
      BY <1>1, <1>7, <3>3
    <3> QED
      BY <1>8, <3>1, <3>2, <3>3
  <2>5. \A i, j \in 1..(n + m) : (Mid(i) <=> Mid(j)) /\ of(i) = of(j) => i = j
    BY <1>1
  <2> HIDE DEF of, Mid
  <2>6. ASSUME NEW i \in 1..(n + m), NEW j \in 1..(n + m), r[i] = r[j] PROVE i = j
    <3>1. (Mid(i) <=> Mid(j)) /\ of(i) = of(j)
      <4>1. CASE Mid(i) /\ Mid(j)
        BY <2>3, <2>4, <2>6, <4>1
      <4>2. CASE ~Mid(i) /\ ~Mid(j)
        BY <2>2, <2>4, <2>6, <4>2
      <4>3. CASE Mid(i) /\ ~Mid(j)
        BY <2>1, <2>4, <2>6, <4>3
      <4>4. CASE ~Mid(i) /\ Mid(j)
        BY <2>1, <2>4, <2>6, <4>4
      <4> QED
        BY <4>1, <4>2, <4>3, <4>4
    <3> QED
      BY <2>5, <3>1
  <2> QED
    BY <1>6, <2>6 DEF Distinct
<1> QED
  BY <1>5, <1>9, <1>10 DEF r

---------------------------------------------------------------------------
(***************************************************************************)
(* The hierarchy: what is below a cue.                                      *)
(***************************************************************************)
Hierarchy == [Place -> Seq(Cue)]
Closed(kids, S) == \A p \in S : ToSet(kids[p]) \subseteq S

Descends(kids, p, f) ==
  /\ f[0] = {p} /\ Below(kids, p) = f[Cardinality(Cue)]
  /\ \A n \in 1..Cardinality(Cue) : f[n] = With(kids, f[n - 1])

\* The children of a place are cues, and one level more leads to places.
LEMMA KidsAreCues ==
  ASSUME NEW kids \in Hierarchy
  PROVE  /\ \A p \in Place : kids[p] \in Seq(Cue) /\ ToSet(kids[p]) \subseteq Cue
         /\ \A S \in SUBSET Place : With(kids, S) \in SUBSET Place
<1>1. \A p \in Place : kids[p] \in Seq(Cue)
  BY DEF Hierarchy
<1>2. \A p \in Place : ToSet(kids[p]) \subseteq Cue
  BY <1>1, Elements
<1> QED
  BY <1>1, <1>2 DEF With, Place

\* The iteration of Below.
LEMMA Down ==
  ASSUME NEW kids \in Hierarchy, NEW p \in Place
  PROVE  \E f \in [0..Cardinality(Cue) -> SUBSET Place] : Descends(kids, p, f)
<1> DEFINE N == Cardinality(Cue)
           V == SUBSET Place
           step == [n \in 1..N |-> [S \in V |-> With(kids, S)]]
           Is(f) == f = [n \in 0..N |-> IF n = 0 THEN {p} ELSE With(kids, f[n - 1])]
<1>1. N \in Nat
  BY CuesAreFinite, FS_CardinalityType
<1>2. {p} \in V /\ step \in [1..N -> [V -> V]]
  <2>1. \A S \in V : With(kids, S) \in V
    BY KidsAreCues
  <2> HIDE DEF V
  <2>2. [S \in V |-> With(kids, S)] \in [V -> V]
    BY <2>1
  <2> QED
    BY <2>2 DEF V
<1>3. PICK f \in [0..N -> V] : f[0] = {p} /\ \A n \in 1..N : f[n] = step[n][f[n - 1]]
  <2> HIDE DEF N, V, step
  <2>1. \A W : \A a \in W : \A m \in [1..N -> [W -> W]] : Steps(N, W, a, m)
    BY <1>1, Stepwise, Zenon
  <2>2. \A a \in V : \A m \in [1..N -> [V -> V]] : Steps(N, V, a, m)
    BY <2>1, Zenon
  <2>3. Steps(N, V, {p}, step)
    BY <1>2, <2>2, Zenon
  <2> QED
    BY <2>3 DEF Steps
<1> HIDE DEF N
<1>4. \A n \in 1..N : f[n] = With(kids, f[n - 1])
  <2> TAKE n \in 1..N
  <2>0. n - 1 \in 0..N
    BY <1>1
  <2>1. f[n - 1] \in V
    BY <2>0
  <2>2. f[n] = step[n][f[n - 1]]
    BY <1>3
  <2> HIDE DEF V
  <2> QED
    BY <2>1, <2>2
<1>5. Is(f)
  <2>1. \A n \in 0..N : n # 0 => n \in 1..N
    BY <1>1
  <2>2. \A n \in 0..N : f[n] = IF n = 0 THEN {p} ELSE With(kids, f[n - 1])
    BY <1>3, <1>4, <2>1
  <2> QED
    BY <2>2
<1>6. ASSUME NEW g, Is(g) PROVE g = f
  <2> DEFINE H == {n \in 0..N : g[n] = f[n]}
  <2>1. 0 \in H
    BY <1>1, <1>3, <1>6
  <2>2. ASSUME NEW n \in 1..N, n - 1 \in H PROVE n \in H
    <3>1. n \in 0..N /\ n # 0 /\ g[n - 1] = f[n - 1]
      BY <1>1, <2>2
    <3>2. g[n] = With(kids, g[n - 1])
      BY <1>6, <3>1
    <3> QED
      BY <1>4, <3>1, <3>2
  <2>3. 0..N \subseteq H
    <3> HIDE DEF H
    <3> QED
      BY <1>1, <2>1, <2>2, UpTo
  <2> QED
    BY <1>5, <1>6, <2>3
<1>7. Below(kids, p) = (CHOOSE g : Is(g))[N]
  BY Zenon DEF Below, N
<1>8. (CHOOSE g : Is(g)) = f
  <2> HIDE DEF Is
  <2> QED
    BY <1>5, <1>6, Zenon
<1>9. Descends(kids, p, f)
  BY <1>3, <1>4, <1>7, <1>8 DEF Descends, N
<1> QED
  BY <1>9 DEF N

\* Iterating as often as there are cues is enough: Below is the least set that holds p
\* and, with a cue, its children.
LEMMA BelowIs ==
  ASSUME NEW kids \in Hierarchy, NEW p \in Place
  PROVE  /\ p \in Below(kids, p) /\ Below(kids, p) \subseteq {p} \cup Cue
         /\ Closed(kids, Below(kids, p))
         /\ \A S \in SUBSET Place : p \in S /\ Closed(kids, S) => Below(kids, p) \subseteq S
<1> DEFINE N == Cardinality(Cue)
<1>1. PICK f \in [0..N -> SUBSET Place] : Descends(kids, p, f)
  BY Down
<1>2. N \in Nat /\ IsFiniteSet(Cue) /\ {p} \cup Cue \in SUBSET Place
  BY CuesAreFinite, FS_CardinalityType DEF Place
<1> HIDE DEF N
<1>3. f[0] = {p} /\ Below(kids, p) = f[N] /\ \A n \in 1..N : f[n] = With(kids, f[n - 1])
  BY <1>1 DEF Descends, N
<1>4. \A n \in 0..N : f[n] \in SUBSET Place
  OBVIOUS
<1>5. \A n \in 1..N : n - 1 \in 0..N
  BY <1>2
<1> DEFINE All == {p} \cup Cue
<1>6. IsFiniteSet(All) /\ Cardinality(All) \in Nat /\ Cardinality(All) <= N + 1
  <2>1. Cue \cup {p} = All
    OBVIOUS
  <2>2. /\ IsFiniteSet(Cue \cup {p})
        /\ Cardinality(Cue \cup {p}) = N \/ Cardinality(Cue \cup {p}) = N + 1
    BY <1>2, FS_AddElement, Zenon DEF N
  <2>3. Cardinality(All) = N \/ Cardinality(All) = N + 1
    BY <2>1, <2>2, Zenon
  <2>4. IsFiniteSet(All)
    BY <2>1, <2>2, Zenon
  <2> HIDE DEF All
  <2> QED
    BY <1>2, <2>3, <2>4
<1>7. Closed(kids, All)
  BY <1>2, KidsAreCues DEF Closed
<1> DEFINE I == {n \in 0..N : /\ p \in f[n] /\ f[n] \subseteq All
                               /\ \/ Closed(kids, f[n])
                                  \/ Cardinality(f[n]) >= n + 1}
<1>8. 0..N \subseteq I
  <2>1. 0 \in I
    <3>1. Cardinality({p}) = 1
      BY FS_Singleton
    <3>2. 0 \in 0..N /\ p \in f[0] /\ f[0] \subseteq All
      BY <1>2, <1>3
    <3>3. Cardinality(f[0]) >= 0 + 1
      BY <1>3, <3>1
    <3> HIDE DEF All
    <3> QED
      BY <3>2, <3>3
  <2>2. ASSUME NEW n \in 1..N, n - 1 \in I PROVE n \in I
    <3> DEFINE d == f[n - 1]
    <3>1. d \in SUBSET Place /\ p \in d /\ d \subseteq All /\ f[n] = With(kids, d) /\ n \in 0..N
      BY <1>2, <1>3, <1>4, <1>5, <2>2
    <3>2. Closed(kids, d) \/ Cardinality(d) >= n
      BY <1>2, <2>2
    <3> HIDE DEF d
    <3>3. f[n] \subseteq All /\ p \in f[n] /\ d \subseteq f[n]
      BY <3>1, <1>7 DEF With, Closed
    <3> HIDE DEF All
    <3>4. CASE Closed(kids, d)
      <4>1. f[n] = d
        BY <3>1, <3>4 DEF With, Closed
      <4> QED
        BY <3>1, <3>4, <4>1
    <3>5. CASE ~Closed(kids, d)
      <4>1. PICK x \in f[n] : x \notin d
        BY <3>1, <3>5 DEF With, Closed
      <4>2. IsFiniteSet(d) /\ IsFiniteSet(f[n])
        BY <1>6, <3>1, <3>3, FS_Subset
      <4>3. Cardinality(d \cup {x}) = Cardinality(d) + 1
        BY <4>1, <4>2, FS_AddElement
      <4>4. d \cup {x} \in SUBSET f[n]
        BY <3>3, <4>1
      <4>5. Cardinality(d \cup {x}) <= Cardinality(f[n])
        BY <4>2, <4>4, FS_Subset
      <4>6. Cardinality(d) \in Nat /\ Cardinality(f[n]) \in Nat /\ Cardinality(d) >= n
        BY <4>2, FS_CardinalityType, <3>2, <3>5
      <4>7. Cardinality(f[n]) >= n + 1
        BY <4>3, <4>5, <4>6
      <4> QED
        BY <3>1, <3>3, <4>7
    <3> QED
      BY <3>4, <3>5
  <2> QED
    <3> HIDE DEF I
    <3> QED
      BY <1>2, <2>1, <2>2, UpTo
<1>9. N \in I
  BY <1>2, <1>8
<1>10. Closed(kids, f[N])
  <2> SUFFICES ASSUME ~Closed(kids, f[N]) PROVE FALSE
    OBVIOUS
  <2>1. Cardinality(f[N]) >= N + 1 /\ f[N] \in SUBSET All
    BY <1>9
  <2> HIDE DEF All, I
  <2>2. /\ IsFiniteSet(f[N]) /\ Cardinality(f[N]) <= Cardinality(All)
        /\ (Cardinality(All) = Cardinality(f[N]) => All = f[N])
    BY <1>6, <2>1, FS_Subset
  <2>3. Cardinality(f[N]) \in Nat
    BY <2>2, FS_CardinalityType
  <2>4. Cardinality(f[N]) = Cardinality(All)
    BY <1>2, <1>6, <2>1, <2>2, <2>3
  <2> QED
    BY <1>7, <2>2, <2>4
<1>11. ASSUME NEW S \in SUBSET Place, p \in S, Closed(kids, S) PROVE f[N] \subseteq S
  <2> DEFINE J == {n \in 0..N : f[n] \subseteq S}
  <2>1. 0 \in J
    BY <1>2, <1>3, <1>11
  <2>2. ASSUME NEW n \in 1..N, n - 1 \in J PROVE n \in J
    BY <1>2, <1>3, <1>11, <2>2 DEF With, Closed
  <2>3. 0..N \subseteq J
    <3> HIDE DEF J
    <3> QED
      BY <1>2, <2>1, <2>2, UpTo
  <2> QED
    BY <1>2, <2>3
<1> QED
  BY <1>3, <1>9, <1>10, <1>11

---------------------------------------------------------------------------
(***************************************************************************)
(* Trees: no cue at two places, and none but what is below the list.        *)
(***************************************************************************)

\* Apart, by what the places hold and not by where they hold it.
Separate(kids, S) ==
  /\ \A p \in S : Distinct(kids[p])
  /\ \A p, q \in S : p # q => ToSet(kids[p]) \cap ToSet(kids[q]) = {}

LEMMA ApartIs ==
  ASSUME NEW kids \in Hierarchy
  PROVE  Apart(kids) <=> Separate(kids, Place)
<1>1. ASSUME Apart(kids) PROVE Separate(kids, Place)
  <2>1. \A p \in Place : Distinct(kids[p])
    BY <1>1 DEF Apart, Distinct
  <2>2. ASSUME NEW p \in Place, NEW q \in Place, NEW c \in ToSet(kids[p]) \cap ToSet(kids[q])
        PROVE  p = q
    BY <1>1, <2>2 DEF Apart, ToSet
  <2> QED
    BY <2>1, <2>2 DEF Separate
<1>2. ASSUME Separate(kids, Place) PROVE Apart(kids)
  <2> SUFFICES ASSUME NEW p \in Place, NEW q \in Place, NEW i \in DOMAIN kids[p],
                      NEW j \in DOMAIN kids[q], kids[p][i] = kids[q][j]
               PROVE  p = q /\ i = j
    BY DEF Apart
  <2>1. kids[p][i] \in ToSet(kids[p]) /\ kids[p][i] \in ToSet(kids[q])
    BY DEF ToSet
  <2>2. p = q
    BY <1>2, <2>1 DEF Separate
  <2> QED
    BY <1>2, <2>2 DEF Separate, Distinct
<1> QED
  BY <1>1, <1>2

\* What is inside something below p is below p, and all but p itself is inside
\* something that is.
LEMMA Inside ==
  ASSUME NEW kids \in Hierarchy, NEW p \in Place
  PROVE  /\ \A q \in Below(kids, p) : q \in Place /\ Below(kids, q) \subseteq Below(kids, p)
         /\ \A c \in Below(kids, p) \ {p} : \E q \in Below(kids, p) : c \in ToSet(kids[q])
<1> DEFINE B == Below(kids, p)
           S == {c \in B : c = p \/ \E q \in B : c \in ToSet(kids[q])}
<1>1. p \in B /\ B \in SUBSET Place /\ Closed(kids, B)
  BY BelowIs DEF Place
<1>2. \A T \in SUBSET Place : p \in T /\ Closed(kids, T) => B \subseteq T
  BY BelowIs
<1> HIDE DEF B
<1>3. ASSUME NEW q \in B PROVE q \in Place /\ Below(kids, q) \subseteq B
  BY <1>1, BelowIs
<1>4. p \in S /\ S \in SUBSET Place /\ Closed(kids, S)
  BY <1>1 DEF Closed
<1>5. B \subseteq S
  <2> HIDE DEF S
  <2> QED
    BY <1>2, <1>4
<1> QED
  BY <1>3, <1>5 DEF B

\* The list itself is inside nothing.
LEMMA RootIsOnTop ==
  ASSUME NEW kids \in Hierarchy
  PROVE  /\ \A p \in Place : Root \notin ToSet(kids[p])
         /\ \A c \in Cue : Root \notin Below(kids, c) /\ Below(kids, c) \subseteq Cue
         /\ Present(kids) = Below(kids, Root) \cap Cue /\ Below(kids, Root) = Present(kids) \cup {Root}
<1>1. \A p \in Place : ToSet(kids[p]) \subseteq Cue
  BY KidsAreCues
<1>2. \A c \in Cue : Below(kids, c) \subseteq Cue
  BY BelowIs DEF Place
<1>3. Root \in Below(kids, Root) /\ Below(kids, Root) \subseteq {Root} \cup Cue
  BY BelowIs DEF Place
<1> QED
  BY <1>1, <1>2, <1>3, NamesDiffer DEF Present

\* In a list whose cues are apart no group is inside itself.
LEMMA NoCycle ==
  ASSUME NEW kids \in Hierarchy, Separate(kids, Place), NEW g \in Below(kids, Root),
         NEW c \in ToSet(kids[g])
  PROVE  g \notin Below(kids, c)
<1> SUFFICES ASSUME g \in Below(kids, c) PROVE FALSE
  OBVIOUS
<1> DEFINE B == Below(kids, Root)
           C == Below(kids, c)
           D == B \ C
<1>1. Root \in Place /\ g \in Place /\ c \in Cue /\ c \in Place
  BY Inside, KidsAreCues DEF Place
<1>2. B \in SUBSET Place /\ Root \in B /\ Closed(kids, B)
  BY BelowIs DEF Place
<1>3. C \in SUBSET Place /\ Root \notin C
  BY <1>1, BelowIs, RootIsOnTop DEF Place
<1>4. \A x \in C : \E q \in C : x \in ToSet(kids[q])
  BY <1>1, Inside
<1> HIDE DEF B, C
<1>5. Closed(kids, D)
  <2> SUFFICES ASSUME NEW x \in D, NEW y \in ToSet(kids[x]) PROVE y \notin C
    BY <1>2 DEF Closed
  <2> SUFFICES ASSUME y \in C PROVE FALSE
    OBVIOUS
  <2>1. PICK q \in C : y \in ToSet(kids[q])
    BY <1>4
  <2>2. q \in Place /\ x \in Place /\ q # x
    BY <1>2, <1>3, <2>1
  <2> QED
    BY <2>1, <2>2 DEF Separate
<1>6. Root \in D /\ D \in SUBSET Place
  BY <1>2, <1>3
<1>7. B \subseteq D
  <2> HIDE DEF D
  <2> QED
    BY <1>1, <1>5, <1>6, BelowIs DEF B
<1> QED
  BY <1>7 DEF B, C

\* What is in the list is inside a top-level cue.
LEMMA TopLevelCovers ==
  ASSUME NEW kids \in Hierarchy, NEW c \in Present(kids)
  PROVE  \E t \in ToSet(kids[Root]) : c \in Below(kids, t)
<1> DEFINE S == {Root} \cup UNION {Below(kids, t) : t \in ToSet(kids[Root])}
<1>1. Root \in Place /\ ToSet(kids[Root]) \subseteq Cue
  BY KidsAreCues DEF Place
<1>2. \A t \in ToSet(kids[Root]) : /\ t \in Below(kids, t) /\ Below(kids, t) \subseteq Place
                                   /\ Closed(kids, Below(kids, t))
  BY <1>1, BelowIs DEF Place
<1>3. S \in SUBSET Place /\ Root \in S
  BY <1>1, <1>2
<1>4. Closed(kids, S)
  <2> SUFFICES ASSUME NEW x \in S, NEW y \in ToSet(kids[x]) PROVE y \in S
    BY DEF Closed
  <2>1. CASE x = Root
    BY <1>2, <2>1
  <2>2. ASSUME NEW t \in ToSet(kids[Root]), x \in Below(kids, t) PROVE y \in S
    BY <1>2, <2>2 DEF Closed
  <2> QED
    BY <2>1, <2>2
<1>5. Below(kids, Root) \subseteq S
  <2> HIDE DEF S
  <2> QED
    BY <1>1, <1>3, <1>4, BelowIs
<1> QED
  BY <1>5 DEF Present

\* A hierarchy that is changed only out of reach is the same from the list down.
LEMMA SameBelow ==
  ASSUME NEW old \in Hierarchy, NEW new \in Hierarchy,
         \A p \in Below(old, Root) : new[p] = old[p]
  PROVE  Below(new, Root) = Below(old, Root)
<1> DEFINE A == Below(old, Root)
           B == Below(new, Root)
<1>1. Root \in Place
  BY DEF Place
<1>2. /\ Root \in A /\ A \in SUBSET Place /\ Closed(old, A)
      /\ \A S \in SUBSET Place : Root \in S /\ Closed(old, S) => A \subseteq S
  BY <1>1, BelowIs DEF Place
<1>3. /\ Root \in B /\ B \in SUBSET Place /\ Closed(new, B)
      /\ \A S \in SUBSET Place : Root \in S /\ Closed(new, S) => B \subseteq S
  BY <1>1, BelowIs DEF Place
<1>4. \A p \in A : new[p] = old[p]
  OBVIOUS
<1> HIDE DEF A, B
<1>5. B \subseteq A
  BY <1>2, <1>3, <1>4 DEF Closed
<1>6. Closed(old, B)
  BY <1>3, <1>4, <1>5 DEF Closed
<1>7. A \subseteq B
  BY <1>2, <1>3, <1>6
<1> QED
  BY <1>5, <1>7 DEF A, B

---------------------------------------------------------------------------
(***************************************************************************)
(* The invariant: the list and every snapshot are trees of cues in use.     *)
(***************************************************************************)
TreeOf(i, kd) ==
  /\ i \in Image /\ Separate(i.kids, Place)
  /\ \A p \in Place \ Below(i.kids, Root) : i.kids[p] = <<>>
  /\ \A c \in Present(i.kids) : kd[c] # "unused"

TreeInv == TypeOK /\ \A i \in Recorded : TreeOf(i, kind)

Kinds == [Cue -> {"unused", "audio", "group"}]

\* A hierarchy that is a tree of used cues from the list down, whatever is elsewhere.
Fits(kids, kd) ==
  \E H \in SUBSET Place :
    /\ Root \in H /\ Closed(kids, H) /\ Separate(kids, H)
    /\ \A c \in H \cap Cue : kd[c] # "unused"

\* What the invariant says of the list as it is.
LEMMA TheList ==
  ASSUME TreeInv
  PROVE  /\ list \in Image /\ Kids \in Hierarchy /\ kind \in Kinds
         /\ Separate(Kids, Place) /\ Root \in Below(Kids, Root)
         /\ Closed(Kids, Below(Kids, Root)) /\ Below(Kids, Root) \in SUBSET Place
         /\ InList = Below(Kids, Root) \cap Cue /\ Below(Kids, Root) = InList \cup {Root}
         /\ TopLevel \subseteq InList
         /\ \A c \in InList : kind[c] # "unused"
         /\ \A p \in Place \ Below(Kids, Root) : Kids[p] = <<>>
         /\ \A c \in Unused : /\ c \notin Below(Kids, Root) /\ Kids[c] = <<>>
                              /\ \A p \in Place : c \notin ToSet(Kids[p])
<1>1. TreeOf(list, kind) /\ TypeOK
  BY DEF TreeInv, Recorded
<1>2. list \in Image /\ Kids \in Hierarchy /\ kind \in Kinds
  BY <1>1 DEF TypeOK, Image, Hierarchy, Kids, Kinds
<1>3. Root \in Place /\ Place = Cue \cup {Root}
  BY DEF Place
<1>4. Root \in Below(Kids, Root) /\ Below(Kids, Root) \subseteq Place /\ Closed(Kids, Below(Kids, Root))
  BY <1>2, <1>3, BelowIs
<1>5. InList = Below(Kids, Root) \cap Cue /\ Below(Kids, Root) = InList \cup {Root}
  BY <1>2, RootIsOnTop DEF InList
<1>6. TopLevel \subseteq InList
  BY <1>2, <1>3, <1>4, <1>5, KidsAreCues DEF TopLevel, Closed
<1>7. /\ Separate(Kids, Place) /\ \A c \in InList : kind[c] # "unused"
      /\ \A p \in Place \ Below(Kids, Root) : Kids[p] = <<>>
  BY <1>1 DEF TreeOf, InList, Kids
<1>8. ASSUME NEW c \in Unused
      PROVE  /\ c \notin Below(Kids, Root) /\ Kids[c] = <<>>
             /\ \A p \in Place : c \notin ToSet(Kids[p])
  <2>1. c \in Cue /\ c \in Place /\ kind[c] = "unused"
    BY <1>3 DEF Unused
  <2>2. c \notin Below(Kids, Root)
    BY <1>5, <1>7, <2>1
  <2>3. ASSUME NEW p \in Place PROVE c \notin ToSet(Kids[p])
    <3>1. CASE p \in Below(Kids, Root)
      BY <1>4, <2>2, <3>1 DEF Closed
    <3>2. CASE p \notin Below(Kids, Root)
      <4>1. ToSet(Kids[p]) = {}
        BY <1>7, <3>2 DEF ToSet
      <4> QED
        BY <4>1
    <3> QED
      BY <3>1, <3>2
  <2> QED
    BY <1>7, <2>1, <2>2, <2>3
<1> QED
  BY <1>2, <1>4, <1>5, <1>6, <1>7, <1>8

\* What an edit leaves is a tree when what it made is one from the list down.
LEMMA KeptIsTree ==
  ASSUME NEW now \in Image, NEW kd, Fits(now.kids, kd)
  PROVE  /\ TreeOf(Kept(now), kd) /\ Below(Kept(now).kids, Root) = Below(now.kids, Root)
         /\ Kept(now).kids[Root] = now.kids[Root] /\ Kept(now).playhead = now.playhead
<1> DEFINE kids == now.kids
           new == Kept(now).kids
           B == Below(kids, Root)
<1>1. kids \in Hierarchy /\ Root \in Place
  BY DEF Image, Hierarchy, Place
<1>2. new = [p \in Place |-> IF p \in B THEN kids[p] ELSE <<>>]
  BY DEF Kept
<1>3. new \in Hierarchy
  BY <1>1, <1>2 DEF Hierarchy
<1>4. /\ Root \in B /\ B \in SUBSET Place /\ Closed(kids, B)
      /\ \A S \in SUBSET Place : Root \in S /\ Closed(kids, S) => B \subseteq S
  BY <1>1, BelowIs DEF Place
<1>5. /\ \A p \in B : new[p] = kids[p]
      /\ \A p \in Place \ B : new[p] = <<>>
  BY <1>2, <1>4
<1>6. Below(new, Root) = B
  BY <1>1, <1>3, <1>5, SameBelow
<1>7. PICK H \in SUBSET Place : /\ Root \in H /\ Closed(kids, H) /\ Separate(kids, H)
                                /\ \A c \in H \cap Cue : kd[c] # "unused"
  BY DEF Fits
<1>8. Kept(now) \in Image
  <2>1. [c \in Cue |-> IF c \in B THEN now.file[c] ELSE NoFile] \in [Cue -> Media]
    BY DEF Image, Media
  <2>2. [c \in Cue |-> IF c \in B THEN now.samples[c] ELSE NoFile] \in [Cue -> Media]
    BY DEF Image, Media
  <2>3. new \in [Place -> Seq(Cue)]
    BY <1>3 DEF Hierarchy
  <2>4. now.playhead \in Cue \cup {NoCue}
    BY DEF Image
  <2> HIDE DEF B
  <2> QED
    BY <1>2, <2>1, <2>2, <2>3, <2>4 DEF Kept, Image, B
<1>9. Present(new) = B \cap Cue
  BY <1>3, <1>6, RootIsOnTop
<1>10. Kept(now).playhead = now.playhead
  BY DEF Kept
<1> HIDE DEF B, kids, new
<1>11. B \subseteq H
  BY <1>4, <1>7
<1>12. Separate(new, Place)
  <2>1. ToSet(<<>>) = {} /\ Distinct(<<>>)
    BY DEF ToSet, Distinct
  <2>2. \A p \in Place : p \in B \/ (ToSet(new[p]) = {} /\ Distinct(new[p]))
    BY <1>5, <2>1
  <2> QED
    BY <1>5, <1>7, <1>11, <2>2 DEF Separate
<1>13. /\ \A p \in Place \ B : new[p] = <<>>
       /\ \A c \in B \cap Cue : kd[c] # "unused"
  BY <1>5, <1>7, <1>11
<1> QED
  BY <1>4, <1>5, <1>6, <1>8, <1>9, <1>10, <1>12, <1>13 DEF TreeOf, kids, new, B

\* Cues that come into use do not make a tree less of one.
LEMMA TreesStay ==
  ASSUME NEW i, NEW kd, NEW more, TreeOf(i, kd),
         \A c \in Cue : kd[c] # "unused" => more[c] # "unused"
  PROVE  TreeOf(i, more)
<1>1. i.kids \in Hierarchy
  BY DEF TreeOf, Image, Hierarchy
<1>2. Present(i.kids) \subseteq Cue
  BY <1>1, RootIsOnTop
<1> QED
  BY <1>2 DEF TreeOf

\* An edit that makes such a hierarchy keeps the invariant.
LEMMA EditKeepsTrees ==
  ASSUME TreeInv, NEW name, NEW now \in Image, NEW S, NEW T, Edit(name, now, S, T),
         Fits(now.kids, kind'), kind' \in Kinds, decodes' \subseteq Cue \X File,
         \A c \in Cue : kind[c] # "unused" => kind'[c] # "unused"
  PROVE  TreeInv'
<1>1. TreeOf(list', kind')
  BY KeptIsTree DEF Edit
<1>2. \A i \in Recorded : TreeOf(i, kind')
  BY TreesStay DEF TreeInv
<1>3. past' = past /\ future' = future /\ edits' = edits /\ busy' = FALSE
  BY DEF Edit
<1>4. \A i \in Recorded' : TreeOf(i, kind')
  BY <1>1, <1>2, <1>3 DEF Recorded
<1>5. live' \subseteq live /\ orphans' \subseteq live
  BY DEF Edit, Forget, Sounding
<1>6. list' \in Image
  BY <1>1 DEF TreeOf
<1> QED
  BY <1>3, <1>4, <1>5, <1>6 DEF TreeInv, TypeOK, Kinds

---------------------------------------------------------------------------
(***************************************************************************)
(* What the edit commands make of the hierarchy.                            *)
(***************************************************************************)

\* Where a cue is in a sequence.
LEMMA AtIs ==
  ASSUME NEW T, NEW s \in Seq(T), NEW c \in ToSet(s)
  PROVE  At(s, c) \in 1..Len(s) /\ s[At(s, c)] = c
<1>1. DOMAIN s = 1..Len(s)
  BY LenProperties
<1>2. \E i \in DOMAIN s : s[i] = c
  BY DEF ToSet
<1> QED
  BY <1>1, <1>2 DEF At

LEMMA InsertedIs ==
  ASSUME NEW T, NEW s \in Seq(T), NEW e \in T, NEW i \in 1..(Len(s) + 1)
  PROVE  /\ InsertAt(s, i, e) \in Seq(T) /\ ToSet(InsertAt(s, i, e)) = ToSet(s) \cup {e}
         /\ Distinct(s) /\ e \notin ToSet(s) => Distinct(InsertAt(s, i, e))
<1>1. InsertAt(s, i, e) = Spliced(s, i, <<e>>)
  BY DEF InsertAt, Spliced
<1>2. <<e>> \in Seq(T) /\ ToSet(<<e>>) = {e} /\ Distinct(<<e>>)
  BY DEF ToSet, Distinct
<1> DEFINE t == <<e>>
<1> HIDE DEF t
<1>3. /\ Spliced(s, i, t) \in Seq(T) /\ ToSet(Spliced(s, i, t)) = ToSet(s) \cup ToSet(t)
      /\ Distinct(s) /\ Distinct(t) /\ ToSet(s) \cap ToSet(t) = {} => Distinct(Spliced(s, i, t))
  <2>1. t \in Seq(T)
    BY <1>2 DEF t
  <2> QED
    BY <2>1, SplicedIs
<1> QED
  BY <1>1, <1>2, <1>3, Zenon DEF t

LEMMA BeforeIs ==
  ASSUME NEW T, NEW s \in Seq(T), NEW t \in Seq(T), NEW c
  PROVE  /\ Before(s, c, t) \in Seq(T) /\ ToSet(Before(s, c, t)) = ToSet(s) \cup ToSet(t)
         /\ Distinct(s) /\ Distinct(t) /\ ToSet(s) \cap ToSet(t) = {} => Distinct(Before(s, c, t))
<1>1. Len(s) \in Nat
  BY LenProperties
<1>2. CASE c \in ToSet(s)
  <2>1. At(s, c) \in 1..(Len(s) + 1)
    BY <1>1, <1>2, AtIs
  <2>2. Before(s, c, t) = Spliced(s, At(s, c), t)
    BY <1>2 DEF Before, Spliced
  <2> QED
    BY <2>1, <2>2, SplicedIs
<1>3. CASE c \notin ToSet(s)
  <2>1. Len(s) + 1 \in 1..(Len(s) + 1)
    BY <1>1
  <2>2. SubSeq(s, 1, Len(s)) = s
    BY SubSeqFull
  <2>3. SubSeq(s, Len(s) + 1, Len(s)) = <<>>
    BY <1>1, SubSeqEmpty
  <2>4. s \o t \in Seq(T) /\ (s \o t) \o <<>> = s \o t
    BY ConcatProperties, ConcatEmptySeq
  <2>5. Before(s, c, t) = s \o t /\ Len(s) + 1 - 1 = Len(s)
    BY <1>1, <1>3 DEF Before
  <2>6. Before(s, c, t) = Spliced(s, Len(s) + 1, t)
    BY <2>2, <2>3, <2>4, <2>5 DEF Spliced
  <2> DEFINE k == Len(s) + 1
  <2>7. k \in 1..(Len(s) + 1) /\ Before(s, c, t) = Spliced(s, k, t)
    BY <2>1, <2>6
  <2> HIDE DEF k
  <2> QED
    BY <2>7, SplicedIs
<1> QED
  BY <1>2, <1>3

\* Taking cues out of every place.
LEMMA Extracted ==
  ASSUME NEW kids \in Hierarchy, NEW S
  PROVE  /\ Extract(kids, S) \in Hierarchy
         /\ \A p \in Place : /\ Extract(kids, S)[p] = Without(kids[p], S)
                             /\ ToSet(Extract(kids, S)[p]) = ToSet(kids[p]) \ S
         /\ Separate(kids, Place) => Separate(Extract(kids, S), Place)
         /\ \A H \in SUBSET Place : Closed(kids, H) => Closed(Extract(kids, S), H)
<1> DEFINE new == Extract(kids, S)
<1>1. \A p \in Place : kids[p] \in Seq(Cue)
  BY DEF Hierarchy
<1>2. \A p \in Place : /\ Without(kids[p], S) \in Seq(Cue)
                       /\ ToSet(Without(kids[p], S)) = ToSet(kids[p]) \ S
                       /\ Distinct(kids[p]) => Distinct(Without(kids[p], S))
  BY <1>1, WithoutIs
<1>3. new = [p \in Place |-> Without(kids[p], S)]
  BY DEF Extract
<1> HIDE DEF new
<1>4. \A p \in Place : new[p] = Without(kids[p], S)
  BY <1>3
<1>5. new \in Hierarchy
  BY <1>2, <1>3 DEF Hierarchy
<1>6. \A p \in Place : ToSet(new[p]) = ToSet(kids[p]) \ S
  BY <1>2, <1>4
<1>7. ASSUME Separate(kids, Place) PROVE Separate(new, Place)
  BY <1>2, <1>4, <1>6, <1>7 DEF Separate
<1>8. ASSUME NEW H \in SUBSET Place, Closed(kids, H) PROVE Closed(new, H)
  BY <1>6, <1>8 DEF Closed
<1> QED
  BY <1>4, <1>5, <1>6, <1>7, <1>8 DEF new

\* Giving one place other children, which are nowhere else.
LEMMA Put ==
  ASSUME NEW kids \in Hierarchy, NEW H \in SUBSET Place, Separate(kids, H), NEW p \in Place,
         NEW s \in Seq(Cue), Distinct(s),
         \A q \in H \ {p} : ToSet(kids[q]) \cap ToSet(s) = {}
  PROVE  /\ [kids EXCEPT ![p] = s] \in Hierarchy /\ Separate([kids EXCEPT ![p] = s], H)
         /\ [kids EXCEPT ![p] = s][p] = s
         /\ \A q \in Place \ {p} : [kids EXCEPT ![p] = s][q] = kids[q]
<1> DEFINE new == [kids EXCEPT ![p] = s]
<1>1. new \in Hierarchy /\ new[p] = s /\ \A q \in Place \ {p} : new[q] = kids[q]
  BY DEF Hierarchy
<1> HIDE DEF new
<1>2. ASSUME NEW q \in H PROVE Distinct(new[q])
  BY <1>1 DEF Separate
<1>3. ASSUME NEW q \in H, NEW r \in H, q # r PROVE ToSet(new[q]) \cap ToSet(new[r]) = {}
  <2>1. CASE q = p
    <3>1. new[q] = s /\ new[r] = kids[r] /\ ToSet(kids[r]) \cap ToSet(s) = {}
      BY <1>1, <1>3, <2>1
    <3> QED
      BY <3>1
  <2>2. CASE r = p
    <3>1. new[r] = s /\ new[q] = kids[q] /\ ToSet(kids[q]) \cap ToSet(s) = {}
      BY <1>1, <1>3, <2>2
    <3> QED
      BY <3>1
  <2>3. CASE q # p /\ r # p
    <3>1. new[r] = kids[r] /\ new[q] = kids[q]
      BY <1>1, <2>3
    <3> QED
      BY <1>3, <3>1 DEF Separate
  <2> QED
    BY <2>1, <2>2, <2>3
<1>4. Separate(new, H)
  BY <1>2, <1>3 DEF Separate
<1> QED
  BY <1>1, <1>4 DEF new

\* The list with another hierarchy and another Playhead.
LEMMA OtherKids ==
  ASSUME TreeInv, NEW k \in Hierarchy, NEW p \in Cue \cup {NoCue}
  PROVE  /\ [list EXCEPT !.kids = k] \in Image /\ [list EXCEPT !.kids = k].kids = k
         /\ [list EXCEPT !.kids = k].playhead = list.playhead
         /\ [list EXCEPT !.kids = k, !.playhead = p] \in Image
         /\ [list EXCEPT !.kids = k, !.playhead = p].kids = k
         /\ [list EXCEPT !.kids = k, !.playhead = p].playhead = p
<1>1. list \in [kids: [Place -> Seq(Cue)], file: [Cue -> Media], samples: [Cue -> Media],
                playhead: Cue \cup {NoCue}]
  BY TheList DEF Image
<1> QED
  BY <1>1 DEF Image, Hierarchy

\* The list after an edit, from the hierarchy the edit makes.
LEMMA Changed ==
  ASSUME TreeInv, NEW name, NEW k \in Hierarchy, NEW now \in Image, now.kids = k, NEW S, NEW T,
         Edit(name, now, S, T), Fits(k, kind'), kind' \in Kinds, decodes' \subseteq Cue \X File,
         \A c \in Cue : kind[c] # "unused" => kind'[c] # "unused"
  PROVE  /\ TreeInv' /\ TopLevel' = ToSet(k[Root]) /\ list'.playhead = now.playhead
         /\ InList' = Below(k, Root) \cap Cue
<1>1. TreeInv'
  BY EditKeepsTrees
<1>2. /\ Below(list'.kids, Root) = Below(k, Root) /\ list'.kids[Root] = k[Root]
      /\ list'.playhead = now.playhead
  BY KeptIsTree DEF Edit
<1>3. InList' = Below(list'.kids, Root) \cap Cue
  <2>1. list'.kids \in Hierarchy
    BY <1>1 DEF TreeInv, TypeOK, Image, Hierarchy
  <2> QED
    BY <2>1, RootIsOnTop DEF InList, Kids
<1> QED
  BY <1>1, <1>2, <1>3 DEF TopLevel, Kids

\* Nothing is lost when all the cues of a set that is closed under what they held are
\* still there.
LEMMA NothingLost ==
  ASSUME TreeInv, NEW T \in SUBSET Place, Root \in T, Closed(Kids, T)
  PROVE  InList \subseteq T
<1>1. Root \in Place
  BY DEF Place
<1> QED
  BY <1>1, TheList, BelowIs

\* What is reached in a hierarchy is closed.
LEMMA Reached ==
  ASSUME NEW k \in Hierarchy
  PROVE  /\ Below(k, Root) \in SUBSET Place /\ Root \in Below(k, Root)
         /\ \A p \in Below(k, Root) : ToSet(k[p]) \subseteq Below(k, Root)
<1>1. Root \in Place
  BY DEF Place
<1> QED
  BY <1>1, BelowIs DEF Closed, Place

Parks == PlayheadTopLevel => PlayheadTopLevel'
KeepsAll == InList \subseteq InList'

LEMMA KidsStay ==
  ASSUME TreeInv, NEW name, NEW now \in Image, now.kids = Kids, now.playhead = list.playhead,
         NEW S, NEW T, Edit(name, now, S, T), UNCHANGED kind, decodes' \subseteq Cue \X File
  PROVE  TreeInv' /\ Parks /\ KeepsAll
<1> DEFINE O == Below(Kids, Root)
<1>1. O \in SUBSET Place /\ Root \in O /\ Closed(Kids, O) /\ Separate(Kids, O)
      /\ \A c \in O \cap Cue : kind'[c] # "unused"
  BY TheList DEF Separate
<1>2. Fits(Kids, kind')
  <2> HIDE DEF O
  <2> QED
    BY <1>1 DEF Fits
<1>3. kind' \in Kinds /\ \A c \in Cue : kind[c] # "unused" => kind'[c] # "unused"
  BY TheList
<1>4. /\ TreeInv' /\ TopLevel' = ToSet(Kids[Root]) /\ list'.playhead = now.playhead
      /\ InList' = Below(Kids, Root) \cap Cue
  BY <1>2, <1>3, TheList, Changed
<1> QED
  BY <1>4, TheList DEF Parks, KeepsAll, PlayheadTopLevel, TopLevel

\* Relinking a cue and editing a group leave every cue where it is.
LEMMA RelinkTree ==
  ASSUME TreeInv, NEW c \in Cue, NEW f \in File, Relink(c, f)
  PROVE  TreeInv' /\ Parks /\ KeepsAll
<1> DEFINE now == [list EXCEPT !.file[c] = f, !.samples[c] = NoFile]
<1>1. list \in [kids: [Place -> Seq(Cue)], file: [Cue -> Media], samples: [Cue -> Media],
                playhead: Cue \cup {NoCue}]
  BY TheList DEF Image
<1>2. now \in Image /\ now.kids = Kids /\ now.playhead = list.playhead
  BY <1>1 DEF Image, Media, Kids
<1>3. Edit("relink", now, Stopped({c}), Forgotten({c}))
  BY DEF Relink
<1>4. UNCHANGED kind /\ decodes' \subseteq Cue \X File
  BY DEF Relink, TreeInv, TypeOK
<1> HIDE DEF now
<1> QED
  BY <1>2, <1>3, <1>4, KidsStay

LEMMA EditGroupTree ==
  ASSUME TreeInv, NEW g \in Cue, EditGroup(g)
  PROVE  TreeInv' /\ Parks /\ KeepsAll
<1>1. list \in Image /\ list.kids = Kids
  BY TheList DEF Kids
<1>2. Edit("edit", list, {}, Below(Kids, g)) /\ UNCHANGED kind /\ decodes' \subseteq Cue \X File
  BY DEF EditGroup, TreeInv, TypeOK
<1> QED
  BY <1>1, <1>2, KidsStay

\* A new cue is nowhere in the list before it is put on the top level.
LEMMA AddTree ==
  ASSUME TreeInv, NEW c \in Cue, NEW sort \in {"audio", "group"}, NEW i \in Nat,
         AddCue(c, sort, i)
  PROVE  TreeInv' /\ Parks /\ KeepsAll
<1> DEFINE top == Kids[Root]
           s == InsertAt(top, i, c)
           k == [Kids EXCEPT ![Root] = s]
           p == IF top = <<>> \/ (list.playhead = NoCue /\ i <= Len(top)) THEN c ELSE list.playhead
           now == [list EXCEPT !.kids = k, !.playhead = p]
           O == Below(Kids, Root)
           H == O \cup {c}
<1>1. c \in Unused /\ i \in 1..(Len(top) + 1)
  BY DEF AddCue, NewId
<1>2. Root \in Place /\ c \in Place /\ Place = Cue \cup {Root} /\ Kids \in Hierarchy /\ top \in Seq(Cue)
  BY TheList DEF Place, Hierarchy
<1>3. \A q \in Place : c \notin ToSet(Kids[q])
  BY <1>1, TheList
<1>4. /\ Separate(Kids, Place) /\ Distinct(top)
      /\ \A q \in Place \ {Root} : ToSet(Kids[q]) \cap ToSet(top) = {}
  BY <1>2, TheList DEF Separate
<1>5. s \in Seq(Cue) /\ ToSet(s) = ToSet(top) \cup {c} /\ Distinct(s)
  <2> HIDE DEF top
  <2> QED
    BY <1>1, <1>2, <1>3, <1>4, InsertedIs DEF top
<1> HIDE DEF s, top
<1>6. \A q \in Place \ {Root} : ToSet(Kids[q]) \cap ToSet(s) = {}
  BY <1>3, <1>4, <1>5
<1>7. /\ k \in Hierarchy /\ Separate(k, Place) /\ k[Root] = s
      /\ \A q \in Place \ {Root} : k[q] = Kids[q]
  BY <1>2, <1>4, <1>5, <1>6, Put
<1> HIDE DEF k
<1>8. p \in Cue \cup {NoCue}
  BY TheList DEF Image
<1> HIDE DEF p
<1>9. now \in Image /\ now.kids = k /\ now.playhead = p
  BY <1>7, <1>8, OtherKids
<1>10. /\ Edit("add", now, {}, {}) /\ kind' = [kind EXCEPT ![c] = sort] /\ UNCHANGED decodes
  BY DEF AddCue, now, k, s, top, p, Kids
<1> HIDE DEF now
<1>11. kind' \in Kinds /\ kind'[c] = sort /\ (\A d \in Cue \ {c} : kind'[d] = kind[d])
       /\ \A d \in Cue : kind[d] # "unused" => kind'[d] # "unused"
  BY <1>10, TheList DEF Kinds
<1>12. Fits(k, kind')
  <2>1. H \in SUBSET Place /\ Root \in H
    BY <1>2, TheList
  <2>2. Closed(k, H)
    <3> SUFFICES ASSUME NEW q \in H PROVE ToSet(k[q]) \subseteq H
      BY DEF Closed
    <3>1. CASE q = Root
      BY <1>5, <1>7, <3>1, TheList DEF top, Closed
    <3>2. CASE q \in O /\ q # Root
      BY <1>7, <3>2, TheList DEF Closed
    <3>3. CASE q = c
      <4>1. k[q] = <<>> /\ ToSet(<<>>) = {}
        BY <1>1, <1>2, <1>7, <3>3, TheList, NamesDiffer DEF ToSet
      <4> QED
        BY <4>1
    <3> QED
      BY <3>1, <3>2, <3>3
  <2>3. Separate(k, H)
    BY <1>7, <2>1 DEF Separate
  <2>4. \A d \in H \cap Cue : kind'[d] # "unused"
    BY <1>11, TheList
  <2> HIDE DEF H
  <2> QED
    BY <2>1, <2>2, <2>3, <2>4 DEF Fits
<1>13. decodes' \subseteq Cue \X File
  BY <1>10 DEF TreeInv, TypeOK
<1>14. /\ TreeInv' /\ TopLevel' = ToSet(k[Root]) /\ list'.playhead = now.playhead
       /\ InList' = Below(k, Root) \cap Cue
  BY <1>7, <1>9, <1>10, <1>11, <1>12, <1>13, Changed
<1>15. Parks
  BY <1>5, <1>7, <1>9, <1>14 DEF Parks, PlayheadTopLevel, TopLevel, top, p
<1>16. KeepsAll
  <2>1. Closed(Kids, Below(k, Root))
    <3> SUFFICES ASSUME NEW q \in Below(k, Root) PROVE ToSet(Kids[q]) \subseteq ToSet(k[q])
      BY <1>7, Reached DEF Closed
    <3>1. q \in Place
      BY <1>7, Reached
    <3> QED
      BY <1>5, <1>7, <3>1 DEF top
  <2> QED
    BY <1>7, <1>14, <2>1, TheList, Reached, NothingLost DEF KeepsAll
<1> QED
  BY <1>14, <1>15, <1>16

\* An edit that makes no new cue.
LEMMA Rearranged ==
  ASSUME TreeInv, NEW name, NEW k \in Hierarchy, NEW now \in Image, now.kids = k, NEW S, NEW T,
         Edit(name, now, S, T), UNCHANGED <<kind, decodes>>,
         Closed(k, Below(Kids, Root)), Separate(k, Below(Kids, Root))
  PROVE  /\ TreeInv' /\ TopLevel' = ToSet(k[Root]) /\ list'.playhead = now.playhead
         /\ InList' = Below(k, Root) \cap Cue /\ InList' \subseteq InList
<1> DEFINE O == Below(Kids, Root)
<1>1. /\ O \in SUBSET Place /\ Root \in O /\ Closed(k, O) /\ Separate(k, O)
      /\ \A c \in O \cap Cue : kind'[c] # "unused"
  BY TheList
<1>2. Root \in Place
  BY DEF Place
<1>3. Fits(k, kind') /\ Below(k, Root) \subseteq O
  <2> HIDE DEF O
  <2> QED
    BY <1>1, <1>2, BelowIs DEF Fits
<1>4. /\ kind' \in Kinds /\ \A c \in Cue : kind[c] # "unused" => kind'[c] # "unused"
      /\ decodes' \subseteq Cue \X File
  BY TheList DEF TreeInv, TypeOK
<1>5. /\ TreeInv' /\ TopLevel' = ToSet(k[Root]) /\ list'.playhead = now.playhead
      /\ InList' = Below(k, Root) \cap Cue
  BY <1>3, <1>4, Changed
<1> QED
  BY <1>3, <1>5, TheList

\* The Playhead goes to a cue that stays on the top level, or to none.
LEMMA NextToIs ==
  ASSUME TreeInv, NEW c \in TopLevel, NEW S
  PROVE  NextTo(c, S) \in (TopLevel \ S) \cup {NoCue}
<1> DEFINE top   == Kids[Root]
           stays == {i \in DOMAIN top : top[i] \notin S}
           after == {i \in stays : i > At(top, c)}
<1>1. top \in Seq(Cue) /\ TopLevel = ToSet(top)
  BY TheList DEF Hierarchy, Place, TopLevel
<1>2. DOMAIN top = 1..Len(top) /\ Len(top) \in Nat
  BY <1>1, LenProperties
<1>3. NextTo(c, S) = CASE after # {}                 -> top[Min(after)]
                       [] after = {} /\ stays # {}   -> top[Max(stays)]
                       [] stays = {}                 -> NoCue
  BY Zenon DEF NextTo
<1>4. stays \in SUBSET (1..Len(top)) /\ after \in SUBSET stays
  BY <1>2
<1>5. \A i \in stays : top[i] \in TopLevel \ S
  BY <1>1 DEF ToSet
<1> HIDE DEF top, stays, after
<1>6. CASE after # {}
  <2>1. after \in SUBSET Nat
    BY <1>4
  <2>2. Min(after) \in after
    BY <1>6, <2>1, Least DEF Min
  <2> QED
    BY <1>3, <1>4, <1>5, <1>6, <2>2
<1>7. CASE after = {} /\ stays # {}
  <2>1. Max(stays) \in stays
    BY <1>2, <1>4, <1>7, Greatest DEF Max
  <2> QED
    BY <1>3, <1>5, <1>7, <2>1
<1>8. CASE stays = {}
  BY <1>3, <1>4, <1>8
<1> QED
  BY <1>6, <1>7, <1>8

\* Taking cues out takes away what is below them and nothing else.
LEMMA TakenOut ==
  ASSUME TreeInv, NEW S \in SUBSET Cue, NEW now \in Image, now.kids = Extract(Kids, S),
         NEW name, NEW X, NEW Y, Edit(name, now, X, Y), UNCHANGED <<kind, decodes>>
  PROVE  /\ TreeInv' /\ TopLevel' = TopLevel \ S /\ list'.playhead = now.playhead
         /\ InList' \subseteq InList
         /\ InList \ InList' \subseteq UNION {Below(Kids, c) : c \in S}
<1> DEFINE k == Extract(Kids, S)
           O == Below(Kids, Root)
<1>1. k \in Hierarchy /\ Closed(k, O) /\ Separate(k, O)
      /\ \A q \in Place : ToSet(k[q]) = ToSet(Kids[q]) \ S
  BY TheList, Extracted DEF Separate
<1>2. Root \in Place
  BY DEF Place
<1>3. now.kids = k
  OBVIOUS
<1> HIDE DEF k, O
<1>4. /\ TreeInv' /\ TopLevel' = ToSet(k[Root]) /\ list'.playhead = now.playhead
      /\ InList' = Below(k, Root) \cap Cue /\ InList' \subseteq InList
  BY <1>1, <1>3, Rearranged DEF O
<1>5. TopLevel' = TopLevel \ S
  BY <1>1, <1>2, <1>4 DEF TopLevel
<1>6. InList \ InList' \subseteq UNION {Below(Kids, c) : c \in S}
  <2> DEFINE gone == UNION {Below(Kids, c) : c \in S}
             T == Below(k, Root) \cup gone
  <2>1. \A c \in S : c \in Below(Kids, c) /\ Below(Kids, c) \subseteq Place /\ Closed(Kids, Below(Kids, c))
    BY TheList, BelowIs DEF Place
  <2>2. gone \subseteq Place /\ S \subseteq gone /\ Closed(Kids, gone)
    BY <2>1 DEF Closed
  <2> HIDE DEF gone
  <2>3. T \in SUBSET Place /\ Root \in T
    BY <1>1, <2>2, Reached
  <2>4. Closed(Kids, T)
    <3> SUFFICES ASSUME NEW q \in T PROVE ToSet(Kids[q]) \subseteq T
      BY DEF Closed
    <3>1. CASE q \in gone
      BY <2>2, <3>1 DEF Closed
    <3>2. CASE q \in Below(k, Root)
      BY <1>1, <2>2, <2>3, <3>2, Reached
    <3> QED
      BY <3>1, <3>2
  <2>5. InList \subseteq T
    <3> HIDE DEF T
    <3> QED
      BY <2>3, <2>4, NothingLost
  <2> QED
    BY <1>4, <2>5, TheList DEF gone
<1> QED
  BY <1>4, <1>5, <1>6

\* So does a removal, and it moves the Playhead on.
LEMMA RemoveTree ==
  ASSUME TreeInv, NEW S \in SUBSET Cue, RemoveCues(S)
  PROVE  TreeInv' /\ Parks /\ InList \ InList' \subseteq UNION {Below(Kids, c) : c \in S}
<1> DEFINE k == Extract(Kids, S)
           p == IF list.playhead \in S \cap TopLevel THEN NextTo(list.playhead, S) ELSE list.playhead
           now == [list EXCEPT !.kids = k, !.playhead = p]
<1>1. k \in Hierarchy
  BY TheList, Extracted
<1>2. TopLevel \subseteq Cue
  BY TheList
<1>3. p \in Cue \cup {NoCue}
  BY <1>2, TheList, NextToIs DEF Image
<1>4. PlayheadTopLevel => p \in (TopLevel \ S) \cup {NoCue}
  BY NextToIs, NamesDiffer DEF PlayheadTopLevel
<1> HIDE DEF k, p
<1>5. now \in Image /\ now.kids = k /\ now.playhead = p
  BY <1>1, <1>3, OtherKids
<1>6. Edit("remove", now, Silenced(S), Forgotten(S)) /\ UNCHANGED <<kind, decodes>>
  BY DEF RemoveCues, now, k, p, Kids
<1> HIDE DEF now
<1>7. /\ TreeInv' /\ TopLevel' = TopLevel \ S /\ list'.playhead = p
      /\ InList \ InList' \subseteq UNION {Below(Kids, c) : c \in S}
  BY <1>5, <1>6, TakenOut DEF k
<1> QED
  BY <1>4, <1>7 DEF Parks, PlayheadTopLevel

\* A selection names distinct cues.
LEMMA SelectionIs ==
  ASSUME NEW ids \in Selections
  PROVE  ids \in Seq(Cue) /\ Distinct(ids)
<1>1. ASSUME NEW c \in Cue, ids = <<c>> PROVE ids \in Seq(Cue) /\ Distinct(ids)
  BY <1>1 DEF Distinct
<1>2. ASSUME ids \in Cue \X Cue, ids[1] # ids[2] PROVE ids \in Seq(Cue) /\ Distinct(ids)
  <2>1. PICK a \in Cue, b \in Cue : ids = <<a, b>>
    BY <1>2
  <2>2. a # b
    BY <1>2, <2>1
  <2>3. <<a, b>> \in Seq(Cue)
    OBVIOUS
  <2>4. Distinct(<<a, b>>)
    BY <2>2 DEF Distinct
  <2> QED
    BY <2>1, <2>3, <2>4
<1> QED
  BY <1>1, <1>2 DEF Selections

LEMMA MoveTree ==
  ASSUME TreeInv, NEW ids \in Selections, NEW b, MoveCues(ids, b)
  PROVE  TreeInv' /\ Parks /\ InList' = InList /\ kind' = kind
<1> DEFINE top == Kids[Root]
           rest == Without(top, ToSet(ids))
           s == Before(rest, b, ids)
           k == [Kids EXCEPT ![Root] = s]
           now == [list EXCEPT !.kids = k]
           O == Below(Kids, Root)
<1>1. Root \in Place /\ Root \in O /\ O \in SUBSET Place /\ Closed(Kids, O) /\ Separate(Kids, O)
  BY TheList DEF Place, Separate
<1>2. top \in Seq(Cue) /\ ToSet(top) = TopLevel /\ Distinct(top) /\ ToSet(ids) \subseteq TopLevel
  BY TheList DEF Hierarchy, Separate, Place, TopLevel, MoveCues
<1>3. ids \in Seq(Cue) /\ Distinct(ids)
  BY SelectionIs
<1> HIDE DEF top
<1>4. rest \in Seq(Cue) /\ ToSet(rest) = TopLevel \ ToSet(ids) /\ Distinct(rest)
  BY <1>2, WithoutIs
<1> HIDE DEF rest
<1>5. s \in Seq(Cue) /\ ToSet(s) = TopLevel /\ Distinct(s)
  <2>1. ToSet(rest) \cap ToSet(ids) = {}
    BY <1>4
  <2>2. s \in Seq(Cue) /\ ToSet(s) = ToSet(rest) \cup ToSet(ids) /\ Distinct(s)
    BY <1>3, <1>4, <2>1, BeforeIs
  <2> QED
    BY <1>2, <1>4, <2>2
<1> HIDE DEF s
<1>6. \A q \in O \ {Root} : ToSet(Kids[q]) \cap ToSet(s) = {}
  BY <1>1, <1>2, <1>5 DEF Separate, top
<1>7. /\ k \in Hierarchy /\ Separate(k, O) /\ k[Root] = s
      /\ \A q \in Place \ {Root} : k[q] = Kids[q]
  BY <1>1, <1>5, <1>6, TheList, Put
<1> HIDE DEF k
<1>8. \A q \in Place : ToSet(k[q]) = ToSet(Kids[q])
  BY <1>2, <1>5, <1>7 DEF top
<1>9. Closed(k, O)
  BY <1>1, <1>8 DEF Closed
<1>10. now \in Image /\ now.kids = k /\ now.playhead = list.playhead
  BY <1>7, OtherKids
<1>11. Edit("move", now, {}, {}) /\ UNCHANGED <<kind, decodes>>
  BY DEF MoveCues, Reorder, now, k, s, rest, top, Kids
<1> HIDE DEF now, O
<1>12. /\ TreeInv' /\ TopLevel' = ToSet(k[Root]) /\ list'.playhead = now.playhead
       /\ InList' = Below(k, Root) \cap Cue /\ InList' \subseteq InList
  BY <1>7, <1>9, <1>10, <1>11, Rearranged DEF O
<1>13. InList \subseteq InList'
  <2>1. Closed(Kids, Below(k, Root))
    BY <1>7, <1>8, Reached DEF Closed
  <2> QED
    BY <1>7, <1>12, <2>1, TheList, Reached, NothingLost
<1>14. Parks
  BY <1>5, <1>7, <1>10, <1>12 DEF Parks, PlayheadTopLevel
<1> QED
  BY <1>11, <1>12, <1>13, <1>14

LEMMA FirstIs ==
  ASSUME NEW T, NEW s \in Seq(T)
  PROVE  FirstOf(s) \in ToSet(s) \cup {NoCue} /\ ToSet(s) \subseteq T
<1>1. ToSet(s) \subseteq T
  BY Elements
<1>2. CASE s # <<>>
  <2>1. 1 \in DOMAIN s
    BY <1>2, EmptySeq, LenProperties
  <2> QED
    BY <1>1, <2>1 DEF FirstOf, ToSet
<1>3. CASE s = <<>>
  BY <1>1, <1>3 DEF FirstOf
<1> QED
  BY <1>2, <1>3

\* A cue is taken from where it is and put on the top level.
LEMMA Raised ==
  ASSUME TreeInv, NEW c \in InList, NEW s \in Seq(Cue), Distinct(s), ToSet(s) = TopLevel \cup {c},
         NEW k, k = [Left(c) EXCEPT ![Root] = s]
  PROVE  /\ k \in Hierarchy /\ k[Root] = s /\ Closed(k, Below(Kids, Root))
         /\ Separate(k, Below(Kids, Root)) /\ InList \subseteq Below(k, Root)
<1> DEFINE O == Below(Kids, Root)
           left == Left(c)
<1>1. /\ Root \in Place /\ Root \in O /\ O \in SUBSET Place /\ Closed(Kids, O) /\ O \subseteq Place
      /\ c \in O /\ TopLevel = ToSet(Kids[Root]) /\ Separate(Kids, Place)
  BY TheList DEF Place, TopLevel
<1>2. left \in Hierarchy /\ Separate(left, Place)
      /\ \A q \in Place : ToSet(left[q]) = ToSet(Kids[q]) \ {c}
  BY TheList, Extracted DEF Left
<1>3. ASSUME NEW q \in Place \ {Root} PROVE ToSet(left[q]) \cap ToSet(s) = {}
  <2>1. ToSet(Kids[q]) \cap ToSet(Kids[Root]) = {}
    BY <1>1 DEF Separate
  <2>2. ToSet(left[q]) = ToSet(Kids[q]) \ {c}
    BY <1>2
  <2> QED
    BY <1>1, <2>1, <2>2
<1> HIDE DEF O, left
<1>4. /\ k \in Hierarchy /\ Separate(k, Place) /\ k[Root] = s
      /\ \A q \in Place \ {Root} : k[q] = left[q]
  <2>1. /\ [left EXCEPT ![Root] = s] \in Hierarchy /\ Separate([left EXCEPT ![Root] = s], Place)
        /\ [left EXCEPT ![Root] = s][Root] = s
        /\ \A q \in Place \ {Root} : [left EXCEPT ![Root] = s][q] = left[q]
    BY <1>1, <1>2, <1>3, Put
  <2>2. k = [left EXCEPT ![Root] = s]
    BY DEF left
  <2> QED
    BY <2>1, <2>2, Zenon
<1>5. Separate(k, O)
  BY <1>1, <1>4 DEF Separate
<1>6. /\ \A q \in Place : ToSet(k[q]) \subseteq ToSet(Kids[q]) \cup {c}
      /\ \A q \in Place : ToSet(Kids[q]) \subseteq ToSet(k[q]) \cup {c}
  BY <1>1, <1>2, <1>4
<1>7. Closed(k, O)
  BY <1>1, <1>6 DEF Closed
<1>8. c \in Below(k, Root)
  BY <1>4, Reached
<1>9. Closed(Kids, Below(k, Root))
  <2> SUFFICES ASSUME NEW q \in Below(k, Root) PROVE ToSet(Kids[q]) \subseteq Below(k, Root)
    BY DEF Closed
  <2>1. q \in Place /\ ToSet(k[q]) \subseteq Below(k, Root)
    BY <1>4, Reached
  <2> QED
    BY <1>6, <1>8, <2>1
<1>10. InList \subseteq Below(k, Root)
  BY <1>4, <1>9, Reached, NothingLost
<1> QED
  BY <1>4, <1>5, <1>7, <1>10 DEF O

LEMMA ToTopLevelTree ==
  ASSUME TreeInv, NEW c \in Cue, NEW b, ToTopLevel(c, b)
  PROVE  TreeInv' /\ Parks /\ InList' = InList /\ kind' = kind
<1> DEFINE left == Left(c)
           s == Before(left[Root], b, <<c>>)
           k == [left EXCEPT ![Root] = s]
           p == Parked(c, left)
           now == [list EXCEPT !.kids = k, !.playhead = p]
<1>1. c \in InList /\ Root \in Place /\ TopLevel = ToSet(Kids[Root]) /\ TopLevel \subseteq Cue
  BY TheList DEF ToTopLevel, Place, TopLevel
<1>2. left \in Hierarchy /\ Separate(left, Place) /\ ToSet(left[Root]) = TopLevel \ {c}
  BY <1>1, TheList, Extracted DEF Left
<1>3. left[Root] \in Seq(Cue) /\ Distinct(left[Root])
  BY <1>1, <1>2 DEF Hierarchy, Separate
<1>4. <<c>> \in Seq(Cue) /\ ToSet(<<c>>) = {c} /\ Distinct(<<c>>)
  BY DEF ToSet, Distinct
<1>5. p \in (TopLevel \ {c}) \cup {NoCue} \/ p = list.playhead
  BY <1>2, <1>3, FirstIs DEF Parked
<1>6. p \in Cue \cup {NoCue}
  BY <1>1, <1>5, TheList DEF Image
<1> HIDE DEF p, left
<1>7. s \in Seq(Cue) /\ ToSet(s) = TopLevel \cup {c} /\ Distinct(s)
  <2> DEFINE t == <<c>>
             r == left[Root]
  <2>1. r \in Seq(Cue) /\ t \in Seq(Cue) /\ Distinct(r) /\ Distinct(t) /\ ToSet(r) \cap ToSet(t) = {}
    BY <1>2, <1>3, <1>4
  <2>2. s = Before(r, b, t) /\ ToSet(r) \cup ToSet(t) = TopLevel \cup {c}
    BY <1>2, <1>4
  <2> HIDE DEF s, t, r
  <2> QED
    BY <2>1, <2>2, BeforeIs
<1> HIDE DEF s
<1>8. /\ k \in Hierarchy /\ k[Root] = s /\ Closed(k, Below(Kids, Root))
      /\ Separate(k, Below(Kids, Root)) /\ InList \subseteq Below(k, Root)
  <2>1. k = [Left(c) EXCEPT ![Root] = s]
    BY DEF left
  <2> QED
    BY <1>1, <1>7, <2>1, Raised
<1> HIDE DEF k
<1>9. now \in Image /\ now.kids = k /\ now.playhead = p
  BY <1>6, <1>8, OtherKids
<1>10. Edit("to_top_level", now, {}, {}) /\ UNCHANGED <<kind, decodes>>
  BY DEF ToTopLevel, Reorder, now, k, s, left, p, Kids
<1> HIDE DEF now
<1>11. /\ TreeInv' /\ TopLevel' = ToSet(k[Root]) /\ list'.playhead = now.playhead
       /\ InList' = Below(k, Root) \cap Cue /\ InList' \subseteq InList
  BY <1>8, <1>9, <1>10, Rearranged
<1>12. Parks
  BY <1>5, <1>7, <1>8, <1>9, <1>11 DEF Parks, PlayheadTopLevel
<1> QED
  BY <1>8, <1>10, <1>11, <1>12, TheList

\* The group a cue leaves is on the top level, and is not that cue.
LEMMA LeaveGroupTree ==
  ASSUME TreeInv, NEW g \in Cue, NEW c \in Cue, LeaveGroup(g, c)
  PROVE  TreeInv' /\ Parks /\ InList' = InList /\ kind' = kind
<1> DEFINE left == Left(c)
           r == left[Root]
           s == InsertAt(r, At(r, g) + 1, c)
           k == [left EXCEPT ![Root] = s]
           now == [list EXCEPT !.kids = k]
<1>1. g \in TopLevel /\ c \in ToSet(Kids[g])
  BY DEF LeaveGroup
<1>2. /\ Root \in Place /\ g \in Place /\ g # Root /\ TopLevel = ToSet(Kids[Root])
      /\ Closed(Kids, Below(Kids, Root)) /\ g \in Below(Kids, Root) /\ Separate(Kids, Place)
  BY <1>1, TheList, NamesDiffer DEF Place, TopLevel
<1>3. c \in InList /\ g # c
  BY <1>1, <1>2, TheList DEF Closed, Separate
<1>4. left \in Hierarchy /\ Separate(left, Place) /\ ToSet(r) = TopLevel \ {c}
  BY <1>2, TheList, Extracted DEF Left
<1>5. r \in Seq(Cue) /\ Distinct(r) /\ g \in ToSet(r)
  BY <1>1, <1>2, <1>3, <1>4 DEF Hierarchy, Separate
<1> HIDE DEF r, left
<1>6. At(r, g) + 1 \in 1..(Len(r) + 1)
  <2>1. At(r, g) \in 1..Len(r) /\ Len(r) \in Nat
    BY <1>5, AtIs, LenProperties
  <2> QED
    BY <2>1
<1>7. s \in Seq(Cue) /\ ToSet(s) = TopLevel \cup {c} /\ Distinct(s)
  <2>1. s \in Seq(Cue) /\ ToSet(s) = ToSet(r) \cup {c} /\ Distinct(s)
    <3> DEFINE i == At(r, g) + 1
    <3>1. i \in 1..(Len(r) + 1) /\ s = InsertAt(r, i, c)
      BY <1>6
    <3> HIDE DEF i, s
    <3> QED
      BY <1>4, <1>5, <3>1, InsertedIs
  <2> QED
    BY <1>4, <2>1
<1> HIDE DEF s
<1>8. /\ k \in Hierarchy /\ k[Root] = s /\ Closed(k, Below(Kids, Root))
      /\ Separate(k, Below(Kids, Root)) /\ InList \subseteq Below(k, Root)
  <2>1. k = [Left(c) EXCEPT ![Root] = s]
    BY DEF left
  <2> QED
    BY <1>3, <1>7, <2>1, Raised
<1> HIDE DEF k
<1>9. now \in Image /\ now.kids = k /\ now.playhead = list.playhead
  BY <1>8, OtherKids
<1>10. Edit("leave_group", now, Stopped({c}), Forgotten({c})) /\ UNCHANGED <<kind, decodes>>
  BY DEF LeaveGroup, now, k, s, r, left
<1> HIDE DEF now
<1>11. /\ TreeInv' /\ TopLevel' = ToSet(k[Root]) /\ list'.playhead = now.playhead
       /\ InList' = Below(k, Root) \cap Cue /\ InList' \subseteq InList
  BY <1>8, <1>9, <1>10, Rearranged
<1>12. Parks
  BY <1>7, <1>8, <1>9, <1>11 DEF Parks, PlayheadTopLevel
<1> QED
  BY <1>8, <1>10, <1>11, <1>12, TheList

\* A command that fails with a cue in hand leaves a tree, without the cue and what is
\* inside it; a refused ungroup may leave the Playhead on the cue that is gone.
LEMMA RefusedTree ==
  ASSUME TreeInv, NEW c \in Cue, Refused(c)
  PROVE  /\ TreeInv' /\ ("ungroup_playhead" \notin Operator => Parks)
         /\ InList' \subseteq InList /\ InList \ InList' \subseteq Below(Kids, c)
         /\ kind' = kind
<1> DEFINE k == Left(c)
<1>1. k \in Hierarchy /\ k = Extract(Kids, {c})
  BY TheList, Extracted DEF Left
<1>2. ToSet(k[Root]) = TopLevel \ {c} /\ k[Root] \in Seq(Cue)
  <2>1. Root \in Place /\ Kids \in Hierarchy /\ TopLevel = ToSet(Kids[Root])
    BY TheList DEF Place, TopLevel
  <2>2. ToSet(k[Root]) = ToSet(Kids[Root]) \ {c}
    BY <1>1, <2>1, Extracted
  <2> HIDE DEF k
  <2> QED
    BY <1>1, <2>1, <2>2 DEF Hierarchy
<1>3. UNION {Below(Kids, x) : x \in {c}} = Below(Kids, c)
  OBVIOUS
<1>4. list.playhead \in Cue \cup {NoCue}
  BY TheList DEF Image
<1> HIDE DEF k
<1>5. CASE UngroupRefused(c)
  <2> DEFINE now == [list EXCEPT !.kids = k]
  <2>1. now \in Image /\ now.kids = k /\ now.playhead = list.playhead
    BY <1>1, TheList, OtherKids
  <2>2. Edit("ungroup", now, {}, {}) /\ UNCHANGED <<kind, decodes>>
    BY <1>5 DEF UngroupRefused, Reorder, now, k
  <2>3. list.playhead = c => "ungroup_playhead" \in Operator
    BY <1>5 DEF UngroupRefused
  <2> HIDE DEF now
  <2>4. /\ TreeInv' /\ TopLevel' = TopLevel \ {c} /\ list'.playhead = list.playhead
        /\ InList' \subseteq InList /\ InList \ InList' \subseteq Below(Kids, c)
    BY <1>1, <1>3, <2>1, <2>2, TakenOut
  <2> QED
    BY <2>2, <2>3, <2>4 DEF Parks, PlayheadTopLevel
<1>6. ASSUME NEW g \in Cue, AddRefused(c, g)
      PROVE  /\ TreeInv' /\ Parks
             /\ InList' \subseteq InList /\ InList \ InList' \subseteq Below(Kids, c)
             /\ kind' = kind
  <2> DEFINE p == Parked(c, k)
             now == [list EXCEPT !.kids = k, !.playhead = p]
  <2>1. p \in ToSet(k[Root]) \cup {NoCue} \/ (p = list.playhead /\ p # c)
    BY <1>2, FirstIs DEF Parked
  <2>2. p \in Cue \cup {NoCue}
    BY <1>2, <1>4, <2>1, TheList
  <2>3. PlayheadTopLevel => p \in (TopLevel \ {c}) \cup {NoCue}
    BY <1>2, <2>1 DEF PlayheadTopLevel
  <2>4. Edit("add_to_group", now, {}, {}) /\ UNCHANGED <<kind, decodes>>
    BY <1>6 DEF AddRefused, Reorder, now, p, k
  <2> HIDE DEF p
  <2>5. now \in Image /\ now.kids = k /\ now.playhead = p
    BY <1>1, <2>2, OtherKids
  <2> HIDE DEF now
  <2>6. /\ TreeInv' /\ TopLevel' = TopLevel \ {c} /\ list'.playhead = p
        /\ InList' \subseteq InList /\ InList \ InList' \subseteq Below(Kids, c)
    BY <1>1, <1>3, <2>4, <2>5, TakenOut
  <2> QED
    BY <2>3, <2>4, <2>6 DEF Parks, PlayheadTopLevel
<1> QED
  BY <1>5, <1>6 DEF Refused

\* A cue that is put into a group which is not inside it is found again there.
LEMMA AddToGroupTree ==
  ASSUME TreeInv, NEW c \in Cue, NEW g \in Cue, NEW i \in Nat, AddToGroup(c, g, i)
  PROVE  TreeInv' /\ Parks /\ InList' = InList /\ kind' = kind
<1> DEFINE left == Left(c)
           s == InsertAt(left[g], i, c)
           p == Parked(c, left)
           O == Below(Kids, Root)
<1>1. /\ c \in InList /\ g \in InList /\ i \in 1..(Len(left[g]) + 1)
      /\ g \notin Below(Kids, c)
  BY DEF AddToGroup
<1>2. /\ Root \in Place /\ g \in Place /\ g # Root /\ TopLevel = ToSet(Kids[Root])
      /\ O \in SUBSET Place /\ Closed(Kids, O) /\ Separate(Kids, Place) /\ c \in O
  BY <1>1, TheList, NamesDiffer DEF Place, TopLevel
<1>3. left \in Hierarchy /\ Separate(left, Place) /\ Closed(left, O)
      /\ \A q \in Place : ToSet(left[q]) = ToSet(Kids[q]) \ {c}
  BY <1>2, TheList, Extracted DEF Left
<1>4. left[g] \in Seq(Cue) /\ Distinct(left[g]) /\ left[Root] \in Seq(Cue)
  BY <1>2, <1>3 DEF Hierarchy, Separate
<1>5. p \in ToSet(left[Root]) \cup {NoCue} \/ (p = list.playhead /\ p # c)
  BY <1>4, FirstIs DEF Parked
<1>6. p \in Cue \cup {NoCue}
  BY <1>4, <1>5, TheList, FirstIs DEF Image
<1>7. PlayheadTopLevel => p \in ToSet(left[Root]) \cup {NoCue}
  BY <1>2, <1>3, <1>5 DEF PlayheadTopLevel
<1> HIDE DEF left, p
<1>8. s \in Seq(Cue) /\ ToSet(s) = ToSet(left[g]) \cup {c} /\ Distinct(s)
  <2> DEFINE r == left[g]
  <2>1. r \in Seq(Cue) /\ Distinct(r) /\ c \notin ToSet(r) /\ i \in 1..(Len(r) + 1)
    BY <1>1, <1>2, <1>3, <1>4
  <2> HIDE DEF r
  <2> QED
    BY <2>1, InsertedIs DEF r
<1> HIDE DEF s, O
<1>9. ASSUME NEW k \in Hierarchy, Closed(k, O), Separate(k, O), k[Root] = left[Root],
             Edit("add_to_group", [list EXCEPT !.kids = k, !.playhead = p], {}, {})
      PROVE  TreeInv' /\ Parks /\ InList' \subseteq InList /\ InList' = Below(k, Root) \cap Cue
  <2> DEFINE now == [list EXCEPT !.kids = k, !.playhead = p]
  <2>1. now \in Image /\ now.kids = k /\ now.playhead = p
    BY <1>6, <1>9, OtherKids
  <2>2. UNCHANGED <<kind, decodes>> /\ Edit("add_to_group", now, {}, {})
    BY <1>9 DEF AddToGroup, Reorder
  <2> HIDE DEF now
  <2>3. /\ TreeInv' /\ TopLevel' = ToSet(k[Root]) /\ list'.playhead = now.playhead
        /\ InList' = Below(k, Root) \cap Cue /\ InList' \subseteq InList
    BY <1>9, <2>1, <2>2, Rearranged DEF O
  <2> QED
    BY <1>7, <1>9, <2>1, <2>3 DEF Parks, PlayheadTopLevel
<1>10. kind' = kind
  BY DEF AddToGroup, Reorder
<1> QED
  <2> DEFINE k == [left EXCEPT ![g] = s]
             B == Below(k, Root)
  <2>1. Edit("add_to_group", [list EXCEPT !.kids = k, !.playhead = p], {}, {})
    BY DEF AddToGroup, Reorder, left, p, s
  <2>2. \A q \in Place \ {g} : ToSet(left[q]) \cap ToSet(s) = {}
    BY <1>2, <1>3, <1>8 DEF Separate
  <2>3. /\ k \in Hierarchy /\ Separate(k, Place) /\ k[g] = s
        /\ \A q \in Place \ {g} : k[q] = left[q]
    BY <1>2, <1>3, <1>8, <2>2, Put
  <2> HIDE DEF k
  <2>4. /\ \A q \in Place : ToSet(k[q]) \subseteq ToSet(Kids[q]) \cup {c}
        /\ \A q \in Place : ToSet(Kids[q]) \subseteq ToSet(k[q]) \cup {c}
    BY <1>2, <1>3, <1>8, <2>3
  <2>5. Closed(k, O) /\ Separate(k, O)
    BY <1>2, <2>3, <2>4 DEF Closed, Separate
  <2>6. TreeInv' /\ Parks /\ InList' \subseteq InList /\ InList' = B \cap Cue
    BY <1>2, <1>9, <2>1, <2>3, <2>5
  <2>7. B \in SUBSET Place /\ Root \in B /\ \A q \in B : ToSet(k[q]) \subseteq B
    BY <2>3, Reached
  <2> HIDE DEF B
  <2>8. g \in B
    <3> DEFINE C == Below(Kids, c)
               T == B \cup C
    <3>1. c \in C /\ C \subseteq Place /\ Closed(Kids, C)
      BY <1>2, TheList, BelowIs DEF Place
    <3>2. Closed(Kids, T)
      <4> HIDE DEF C
      <4> SUFFICES ASSUME NEW q \in T PROVE ToSet(Kids[q]) \subseteq T
        BY DEF Closed
      <4>1. CASE q \in C
        BY <3>1, <4>1 DEF Closed
      <4>2. CASE q \in B
        BY <2>4, <2>7, <3>1, <4>2
      <4> QED
        BY <4>1, <4>2
    <3>3. T \in SUBSET Place /\ Root \in T
      BY <2>7, <3>1
    <3>4. InList \subseteq T
      <4> HIDE DEF T
      <4> QED
        BY <3>2, <3>3, NothingLost
    <3> QED
      BY <1>1, <3>4
  <2>9. c \in B
    BY <1>8, <2>3, <2>7, <2>8
  <2>10. Closed(Kids, B)
    <3> SUFFICES ASSUME NEW q \in B PROVE ToSet(Kids[q]) \subseteq B
      BY DEF Closed
    <3>1. q \in Place
      BY <2>7
    <3> QED
      BY <2>4, <2>7, <2>9, <3>1
  <2>11. InList \subseteq InList'
    BY <2>6, <2>7, <2>10, TheList, NothingLost
  <2> QED
    BY <1>10, <2>6, <2>11

\* Rearranging neither loses an Audio Cue nor brings one back.
SameAudio == {c \in InList : kind[c] = "audio"} = {c \in InList' : kind[c] = "audio"}

\* The children of a group take its place, and the group is dropped.
LEMMA UngroupTree ==
  ASSUME TreeInv, NEW g \in Cue, Ungroup(g)
  PROVE  TreeInv' /\ Parks /\ SameAudio
<1> DEFINE top == Kids[Root]
           in == Kids[g]
           both == Before(top, g, in)
           s == Without(both, {g})
           left == Extract(Kids, {g})
           k == [left EXCEPT ![Root] = s]
           p == IF list.playhead = g THEN FirstOf(in) ELSE list.playhead
           now == [list EXCEPT !.kids = k, !.playhead = p]
           O == Below(Kids, Root)
           H == O \ {g}
<1>1. g \in TopLevel /\ kind[g] = "group"
  BY DEF Ungroup
<1>2. /\ Root \in Place /\ g \in Place /\ g # Root /\ g \in O /\ O \in SUBSET Place /\ Root \in O
      /\ Closed(Kids, O) /\ Separate(Kids, Place) /\ TopLevel = ToSet(top)
  BY <1>1, TheList, NamesDiffer DEF Place, TopLevel
<1>3. top \in Seq(Cue) /\ in \in Seq(Cue) /\ Distinct(top) /\ Distinct(in) /\ ToSet(top) \cap ToSet(in) = {}
  BY <1>2, TheList DEF Hierarchy, Separate
<1>4. /\ left \in Hierarchy /\ Separate(left, Place) /\ Closed(left, O)
      /\ \A q \in Place : ToSet(left[q]) = ToSet(Kids[q]) \ {g}
  BY <1>2, TheList, Extracted
<1>5. p \in Cue \cup {NoCue} /\ (PlayheadTopLevel => p \in ((TopLevel \cup ToSet(in)) \ {g}) \cup {NoCue})
  <2>1. FirstOf(in) \in ToSet(in) \cup {NoCue} /\ ToSet(in) \subseteq Cue
    BY <1>3, FirstIs
  <2>2. list.playhead \in Cue \cup {NoCue}
    BY TheList DEF Image
  <2> HIDE DEF top, in
  <2> QED
    BY <1>1, <1>2, <1>3, <2>1, <2>2 DEF PlayheadTopLevel
<1> HIDE DEF top, in, left, p
<1>6. s \in Seq(Cue) /\ ToSet(s) = (TopLevel \cup ToSet(in)) \ {g} /\ Distinct(s)
  <2>1. both \in Seq(Cue) /\ ToSet(both) = ToSet(top) \cup ToSet(in) /\ Distinct(both)
    BY <1>3, BeforeIs
  <2> HIDE DEF both
  <2>2. s \in Seq(Cue) /\ ToSet(s) = ToSet(both) \ {g} /\ Distinct(s)
    BY <2>1, WithoutIs
  <2> QED
    BY <1>2, <2>1, <2>2
<1> HIDE DEF s, O
<1>7. H \in SUBSET Place /\ Root \in H
  BY <1>2
<1>8. ASSUME NEW q \in H \ {Root} PROVE ToSet(left[q]) \cap ToSet(s) = {}
  <2>1. q \in Place /\ q # g /\ q # Root
    BY <1>7
  <2>2. ToSet(Kids[q]) \cap ToSet(top) = {} /\ ToSet(Kids[q]) \cap ToSet(in) = {}
    BY <1>2, <2>1 DEF Separate, top, in
  <2>3. ToSet(left[q]) = ToSet(Kids[q]) \ {g}
    BY <1>4, <2>1
  <2> QED
    BY <1>2, <1>6, <2>2, <2>3
<1>9. Separate(left, H)
  BY <1>4, <1>7 DEF Separate
<1> HIDE DEF H
<1>10. /\ k \in Hierarchy /\ Separate(k, H) /\ k[Root] = s
       /\ \A q \in Place \ {Root} : k[q] = left[q]
  BY <1>2, <1>4, <1>6, <1>7, <1>8, <1>9, Put
<1> HIDE DEF k
<1>11. /\ \A q \in O \ {Root} : ToSet(k[q]) = ToSet(Kids[q]) \ {g}
       /\ ToSet(k[Root]) = (ToSet(Kids[Root]) \cup ToSet(Kids[g])) \ {g}
  BY <1>2, <1>4, <1>6, <1>10 DEF in, top
<1>12. Closed(k, H)
  BY <1>2, <1>11 DEF Closed, H
<1>13. \A c \in H \cap Cue : kind[c] # "unused"
  BY TheList DEF H, O
<1>14. Fits(k, kind)
  BY <1>7, <1>10, <1>12, <1>13 DEF Fits
<1>15. now \in Image /\ now.kids = k /\ now.playhead = p
  BY <1>5, <1>10, OtherKids
<1>16. Edit("ungroup", now, {}, {}) /\ UNCHANGED <<kind, decodes>>
  BY DEF Ungroup, Reorder, now, k, s, both, left, in, top, p, Kids
<1> HIDE DEF now
<1>17. decodes' \subseteq Cue \X File
  BY <1>16 DEF TreeInv, TypeOK
<1>18. /\ TreeInv' /\ TopLevel' = ToSet(k[Root]) /\ list'.playhead = now.playhead
       /\ InList' = Below(k, Root) \cap Cue
  <2>1. kind' = kind /\ kind \in Kinds
    BY <1>16, TheList
  <2> QED
    BY <1>10, <1>14, <1>15, <1>16, <1>17, <2>1, Changed
<1>19. Parks
  BY <1>5, <1>6, <1>10, <1>15, <1>18 DEF Parks, PlayheadTopLevel
<1>20. InList' \subseteq InList
  <2>1. Below(k, Root) \subseteq H
    BY <1>2, <1>7, <1>10, <1>12, BelowIs
  <2> QED
    BY <1>18, <2>1, TheList DEF H, O
<1>21. InList \subseteq InList' \cup {g}
  <2> DEFINE B == Below(k, Root)
             T == B \cup {g}
  <2>1. B \in SUBSET Place /\ Root \in B /\ \A q \in B : ToSet(k[q]) \subseteq B
    BY <1>10, Reached
  <2>2. B \subseteq O
    BY <1>2, <1>7, <1>10, <1>12, BelowIs DEF H
  <2> HIDE DEF B
  <2>3. T \in SUBSET Place /\ Root \in T
    BY <1>2, <2>1
  <2>4. Closed(Kids, T)
    BY <1>11, <2>1, <2>2 DEF Closed
  <2>5. InList \subseteq T
    <3> HIDE DEF T
    <3> QED
      BY <2>3, <2>4, NothingLost
  <2> QED
    BY <1>18, <2>5, TheList DEF B
<1>22. SameAudio
  BY <1>1, <1>20, <1>21 DEF SameAudio
<1> QED
  BY <1>18, <1>19, <1>22

\* The new group stands where the first of its cues did: those before it stay.
LEMMA GroupCuesTree ==
  ASSUME TreeInv, NEW g \in Cue, NEW ids \in Selections, GroupCues(g, ids)
  PROVE  /\ TreeInv' /\ SameAudio
         /\ "group_playhead" \notin Operator => Parks
<1> DEFINE top == Kids[Root]
           chosen == Without(ids, Cue \ TopLevel)
           C == ToSet(chosen)
           places == {At(top, chosen[i]) : i \in DOMAIN chosen}
           first == Min(places)
           left == Extract(Kids, C)
           r == left[Root]
           s == InsertAt(r, first, g)
           k1 == [left EXCEPT ![Root] = s]
           k == [k1 EXCEPT ![g] = chosen]
           now == [list EXCEPT !.kids = k]
           O == Below(Kids, Root)
           H == O \cup {g}
<1>1. g \in Unused /\ chosen # <<>> /\ (list.playhead \in ToSet(ids) => "group_playhead" \in Operator)
  BY DEF GroupCues, NewId
<1>2. /\ Root \in Place /\ g \in Place /\ g # Root /\ O \in SUBSET Place /\ Root \in O
      /\ Closed(Kids, O) /\ Separate(Kids, Place) /\ TopLevel = ToSet(top) /\ TopLevel \subseteq Cue
  BY TheList, NamesDiffer DEF Place, TopLevel
<1>3. top \in Seq(Cue) /\ Distinct(top)
  BY <1>2, TheList DEF Hierarchy, Separate
<1>4. chosen \in Seq(Cue) /\ C \subseteq TopLevel /\ C \subseteq ToSet(ids) /\ Distinct(chosen)
  <2>1. ids \in Seq(Cue) /\ Distinct(ids) /\ ToSet(ids) \subseteq Cue
    BY SelectionIs, Elements
  <2>2. chosen \in Seq(Cue) /\ C = ToSet(ids) \ (Cue \ TopLevel) /\ Distinct(chosen)
    BY <2>1, WithoutIs
  <2> QED
    BY <2>1, <2>2
<1>5. \A q \in Place : g \notin ToSet(Kids[q])
  BY <1>1, TheList
<1>6. g \notin C
  BY <1>2, <1>4, <1>5
<1>7. /\ left \in Hierarchy /\ Separate(left, Place)
      /\ \A q \in Place : left[q] = Without(Kids[q], C) /\ ToSet(left[q]) = ToSet(Kids[q]) \ C
  BY <1>2, TheList, Extracted
<1>8. r \in Seq(Cue) /\ Distinct(r) /\ ToSet(r) = TopLevel \ C /\ g \notin ToSet(r)
  BY <1>2, <1>5, <1>7 DEF Hierarchy, Separate
<1>9. first \in 1..(Len(r) + 1)
  <2>1. \A i \in DOMAIN chosen : chosen[i] \in C
    BY DEF ToSet
  <2> HIDE DEF C, chosen, top
  <2>2. \A c \in C : At(top, c) \in 1..Len(top) /\ top[At(top, c)] = c
    BY <1>2, <1>3, <1>4, AtIs
  <2>3. Len(top) \in Nat /\ DOMAIN top = 1..Len(top)
    BY <1>3, LenProperties
  <2>4. places \in SUBSET (1..Len(top))
    BY <2>1, <2>2
  <2>5. places # {}
    <3>1. 1 \in DOMAIN chosen
      BY <1>1, <1>4, EmptySeq, LenProperties
    <3> QED
      BY <3>1
  <2>6. ASSUME NEW j \in 1..Len(top), top[j] \in C PROVE j \in places
    <3>1. PICK i \in DOMAIN chosen : chosen[i] = top[j]
      BY <2>6 DEF C, ToSet
    <3>2. At(top, top[j]) = j
      BY <1>3, <2>2, <2>3, <2>6 DEF Distinct
    <3> QED
      BY <3>1, <3>2
  <2> HIDE DEF places
  <2>7. first \in places /\ \A j \in places : first <= j
    <3>1. places \in SUBSET Nat
      BY <2>4
    <3> QED
      BY <2>5, <3>1, Least DEF Min
  <2> HIDE DEF first
  <2>8. first \in 1..Len(top) /\ first - 1 \in 0..Len(top)
    BY <2>3, <2>4, <2>7
  <2>9. \A j \in 1..(first - 1) : top[j] \notin C
    <3> SUFFICES ASSUME NEW j \in 1..(first - 1), top[j] \in C PROVE FALSE
      OBVIOUS
    <3>1. j \in 1..Len(top)
      BY <2>3, <2>8
    <3>2. j \in places /\ first <= j
      BY <2>6, <2>7, <3>1
    <3> QED
      BY <2>8, <3>2
  <2>10. first - 1 <= Len(Without(top, C))
    <3> DEFINE n == first - 1
    <3>1. n \in 0..Len(top) /\ \A j \in 1..n : top[j] \notin C
      BY <2>8, <2>9
    <3> HIDE DEF n
    <3>2. n <= Len(Without(top, C))
      BY <1>3, <3>1, WithoutIs
    <3> QED
      BY <3>2 DEF n
  <2>11. r = Without(top, C)
    BY <1>2, <1>7 DEF top
  <2>12. Len(r) \in Nat
    BY <1>8, LenProperties
  <2> QED
    BY <2>8, <2>10, <2>11, <2>12
<1> HIDE DEF first, r, C, chosen, left, top
<1>10. s \in Seq(Cue) /\ ToSet(s) = (TopLevel \ C) \cup {g} /\ Distinct(s)
  BY <1>8, <1>9, InsertedIs
<1> HIDE DEF s
<1>11. ASSUME NEW q \in Place \ {Root} PROVE ToSet(left[q]) \cap ToSet(s) = {}
  <2>1. ToSet(Kids[q]) \cap ToSet(Kids[Root]) = {}
    BY <1>2 DEF Separate
  <2> QED
    BY <1>2, <1>5, <1>7, <1>10, <2>1 DEF top
<1>12. /\ k1 \in Hierarchy /\ Separate(k1, Place) /\ k1[Root] = s
       /\ \A q \in Place \ {Root} : k1[q] = left[q]
  BY <1>2, <1>7, <1>10, <1>11, Put
<1> HIDE DEF k1
<1>13. ASSUME NEW q \in Place \ {g} PROVE ToSet(k1[q]) \cap ToSet(chosen) = {}
  <2>1. CASE q = Root
    BY <1>6, <1>10, <1>12, <2>1 DEF C
  <2>2. CASE q # Root
    BY <1>7, <1>12, <2>2 DEF C
  <2> QED
    BY <2>1, <2>2
<1>14. /\ k \in Hierarchy /\ Separate(k, Place) /\ k[g] = chosen
       /\ \A q \in Place \ {g} : k[q] = k1[q]
  BY <1>2, <1>4, <1>12, <1>13, Put
<1> HIDE DEF k
<1>15. /\ ToSet(k[g]) = C /\ ToSet(k[Root]) = (TopLevel \ C) \cup {g}
       /\ \A q \in Place \ {g, Root} : ToSet(k[q]) = ToSet(Kids[q])
  <2>1. \A q \in Place \ {g, Root} : ToSet(Kids[q]) \cap C = {}
    BY <1>2, <1>4 DEF Separate, top
  <2>2. ToSet(k[g]) = C
    BY <1>14 DEF C
  <2>3. ToSet(k[Root]) = (TopLevel \ C) \cup {g}
    BY <1>2, <1>10, <1>12, <1>14
  <2>4. ASSUME NEW q \in Place \ {g, Root} PROVE ToSet(k[q]) = ToSet(Kids[q])
    <3>1. k[q] = left[q] /\ ToSet(left[q]) = ToSet(Kids[q]) \ C
      BY <1>7, <1>12, <1>14
    <3> QED
      BY <2>1, <3>1
  <2> QED
    BY <2>2, <2>3, <2>4
<1>16. now \in Image /\ now.kids = k /\ now.playhead = list.playhead
  BY <1>14, OtherKids
<1>17. Edit("group", now, {}, {}) /\ kind' = [kind EXCEPT ![g] = "group"] /\ UNCHANGED decodes
  <2>1. [left EXCEPT ![Root] = s, ![g] = chosen] = k
    BY <1>2, <1>7 DEF Hierarchy, k, k1
  <2>2. Edit("group", [list EXCEPT !.kids = [left EXCEPT ![Root] = s, ![g] = chosen]], {}, {})
    BY Zenon DEF GroupCues, s, r, left, C, chosen, first, places, top, Kids
  <2>3. kind' = [kind EXCEPT ![g] = "group"] /\ UNCHANGED decodes
    BY DEF GroupCues
  <2> QED
    BY <2>1, <2>2, <2>3, Zenon DEF now
<1> HIDE DEF now, O
<1>18. /\ kind' \in Kinds /\ kind'[g] = "group" /\ (\A d \in Cue \ {g} : kind'[d] = kind[d])
       /\ kind[g] = "unused"
       /\ \A d \in Cue : kind[d] # "unused" => kind'[d] # "unused"
  BY <1>1, <1>17, TheList DEF Kinds, Unused
<1>19. /\ H \in SUBSET Place /\ Root \in H /\ Closed(k, H) /\ Separate(k, H)
       /\ \A d \in H \cap Cue : kind'[d] # "unused"
  <2>1. H \in SUBSET Place /\ Root \in H
    BY <1>2
  <2>2. TopLevel \subseteq O
    BY TheList DEF O
  <2>3. Closed(k, H)
    BY <1>2, <1>4, <1>15, <2>2 DEF Closed
  <2>4. Separate(k, H)
    BY <1>14, <2>1 DEF Separate
  <2>5. \A d \in H \cap Cue : kind'[d] # "unused"
    BY <1>18, TheList DEF O
  <2> QED
    BY <2>1, <2>3, <2>4, <2>5
<1> HIDE DEF H
<1>20. Fits(k, kind') /\ decodes' \subseteq Cue \X File
  BY <1>17, <1>19 DEF Fits, TreeInv, TypeOK
<1>21. /\ TreeInv' /\ TopLevel' = ToSet(k[Root]) /\ list'.playhead = now.playhead
       /\ InList' = Below(k, Root) \cap Cue
  BY <1>14, <1>16, <1>17, <1>18, <1>20, Changed
<1>22. "group_playhead" \notin Operator => Parks
  BY <1>1, <1>4, <1>15, <1>16, <1>21 DEF Parks, PlayheadTopLevel
<1>23. InList' \subseteq InList \cup {g}
  <2>1. Below(k, Root) \subseteq H
    BY <1>2, <1>14, <1>19, BelowIs
  <2> QED
    BY <1>21, <2>1, TheList DEF H, O
<1>24. InList \subseteq InList'
  <2> DEFINE B == Below(k, Root)
  <2>1. B \in SUBSET Place /\ Root \in B /\ \A q \in B : ToSet(k[q]) \subseteq B
    BY <1>14, Reached
  <2> HIDE DEF B
  <2>2. g \in B /\ ToSet(k[g]) \subseteq B
    BY <1>15, <2>1
  <2>3. ToSet(Kids[g]) = {}
    BY <1>1, TheList DEF ToSet
  <2>4. Closed(Kids, B)
    BY <1>2, <1>15, <2>1, <2>2, <2>3 DEF Closed, top
  <2> QED
    BY <1>21, <2>1, <2>4, TheList, NothingLost DEF B
<1>25. SameAudio
  BY <1>18, <1>23, <1>24 DEF SameAudio
<1> QED
  BY <1>21, <1>22, <1>25

Through(f, s) == [i \in DOMAIN s |-> f[s[i]]]

\* The same sequence of other things, one for each.
LEMMA Mapped ==
  ASSUME NEW T, NEW s \in Seq(T), NEW D, NEW U, NEW f \in [D -> U], ToSet(s) \subseteq D,
         \A x, y \in D : f[x] = f[y] => x = y
  PROVE  /\ Through(f, s) \in Seq(U) /\ ToSet(Through(f, s)) = {f[x] : x \in ToSet(s)}
         /\ Distinct(s) => Distinct(Through(f, s))
<1> DEFINE m == Through(f, s)
<1>1. DOMAIN s = 1..Len(s) /\ Len(s) \in Nat
  BY LenProperties
<1>2. \A i \in 1..Len(s) : s[i] \in D
  BY <1>1 DEF ToSet
<1>3. m \in [1..Len(s) -> U] /\ DOMAIN m = 1..Len(s) /\ \A i \in 1..Len(s) : m[i] = f[s[i]]
  BY <1>1, <1>2 DEF Through
<1> HIDE DEF m
<1>4. m \in Seq(U)
  BY <1>1, <1>3, SeqDef
<1>5. ToSet(m) = {f[x] : x \in ToSet(s)}
  BY <1>1, <1>3 DEF ToSet
<1>6. Distinct(s) => Distinct(m)
  BY <1>1, <1>2, <1>3 DEF Distinct
<1> QED
  BY <1>4, <1>5, <1>6 DEF m

\* The copies are new cues, one for each cue that is copied, and hang together as the
\* originals do: the list with them is a tree again.
LEMMA DuplicateTree ==
  ASSUME TreeInv, NEW c \in Cue, Duplicate(c)
  PROVE  TreeInv' /\ Parks /\ KeepsAll
<1> DEFINE source == Below(Kids, c) \cap Cue
           copies == {f \in [source -> Unused] : \A x, y \in source : f[x] = f[y] => x = y}
           copy   == CHOOSE f \in copies : TRUE
           of(n)  == CHOOSE x \in source : copy[x] = n
           fresh  == {copy[x] : x \in source}
           holder == CHOOSE q \in Place : c \in ToSet(Kids[q])
           taken(f) == [x \in Cue |-> IF x \in fresh THEN f[of(x)] ELSE f[x]]
           image(q) == [i \in DOMAIN Kids[of(q)] |-> copy[Kids[of(q)][i]]]
           grown == InsertAt(Kids[holder], At(Kids[holder], c) + 1, copy[c])
           k == [q \in Place |-> CASE q \in fresh -> image(q)
                                   [] q = holder  -> InsertAt(Kids[q], At(Kids[q], c) + 1, copy[c])
                                   [] OTHER       -> Kids[q]]
           now == [list EXCEPT !.kids = k, !.file = taken(@), !.samples = taken(@)]
           O == Below(Kids, Root)
           H == O \cup fresh
<1>1. c \in InList /\ copies # {}
  BY Zenon DEF Duplicate
<1>2. /\ Edit("duplicate", now, {}, {}) /\ kind' = taken(kind) /\ UNCHANGED decodes
  BY Zenon DEF Duplicate, Kids
<1>3. copy \in [source -> Unused] /\ \A x, y \in source : copy[x] = copy[y] => x = y
  <2>1. copy \in copies
    BY <1>1
  <2> HIDE DEF copy
  <2> QED
    BY <2>1
<1>4. /\ Root \in Place /\ O \in SUBSET Place /\ Root \in O /\ Closed(Kids, O) /\ Separate(Kids, Place)
      /\ c \in O /\ c \in Place /\ Place = Cue \cup {Root} /\ Root \notin Cue
  BY <1>1, TheList, NamesDiffer DEF Place
<1>5. c \in source /\ source \subseteq O /\ Closed(Kids, source) /\ source = Below(Kids, c)
  <2>1. Below(Kids, c) \subseteq Cue /\ c \in Below(Kids, c) /\ Closed(Kids, Below(Kids, c))
    BY <1>4, TheList, RootIsOnTop, BelowIs
  <2>2. Below(Kids, c) \subseteq O
    BY <1>4, TheList, Inside
  <2> QED
    BY <2>1, <2>2 DEF Closed
<1>6. source \subseteq Cue
  OBVIOUS
<1> HIDE DEF copies, copy, source
<1>7. fresh \subseteq Unused /\ fresh \subseteq Cue
  BY <1>3 DEF Unused
<1>8. \A n \in fresh : of(n) \in source /\ copy[of(n)] = n
  OBVIOUS
<1> HIDE DEF of, O
<1>9. \A n \in Unused : n \notin O /\ Kids[n] = <<>> /\ \A q \in Place : n \notin ToSet(Kids[q])
  BY TheList DEF O
<1>10. \A n \in fresh : n \notin O /\ Kids[n] = <<>> /\ ToSet(Kids[n]) = {}
  BY <1>7, <1>9 DEF ToSet
<1> HIDE DEF fresh
<1>11. holder \in Place /\ c \in ToSet(Kids[holder]) /\ holder \in O /\ holder \notin fresh
  <2>1. \E q \in O : c \in ToSet(Kids[q])
    BY <1>4, TheList, Inside DEF O
  <2>2. holder \in Place /\ c \in ToSet(Kids[holder])
    BY <1>4, <2>1
  <2> HIDE DEF holder
  <2>3. ASSUME holder \notin O PROVE FALSE
    <3>1. Kids[holder] = <<>>
      BY <2>2, <2>3, TheList DEF O
    <3> QED
      BY <2>2, <3>1 DEF ToSet
  <2> QED
    BY <1>10, <2>2, <2>3
<1>12. \A q \in Place : Kids[q] \in Seq(Cue) /\ Distinct(Kids[q])
  BY <1>4, TheList DEF Hierarchy, Separate
<1>13. ASSUME NEW n \in fresh
       PROVE  /\ image(n) \in Seq(Cue) /\ Distinct(image(n))
              /\ ToSet(image(n)) = {copy[x] : x \in ToSet(Kids[of(n)])}
              /\ ToSet(Kids[of(n)]) \subseteq source
  <2> DEFINE s == Kids[of(n)]
  <2>1. s \in Seq(Cue) /\ Distinct(s) /\ ToSet(s) \subseteq source
    BY <1>4, <1>5, <1>6, <1>8, <1>12 DEF Closed
  <2>2. Unused \subseteq Cue
    BY DEF Unused
  <2> HIDE DEF s
  <2>3. copy \in [source -> Cue]
    BY <1>3, <2>2
  <2>4. /\ Through(copy, s) \in Seq(Cue) /\ ToSet(Through(copy, s)) = {copy[x] : x \in ToSet(s)}
        /\ Distinct(Through(copy, s))
    BY <1>3, <2>1, <2>3, Mapped
  <2> QED
    BY <2>1, <2>4, Zenon DEF s, Through
<1>14. copy[c] \in fresh /\ copy[c] \in Unused /\ copy[c] \in Cue
  BY <1>3, <1>5, <1>7 DEF fresh
<1> HIDE DEF holder, image
<1>15. grown \in Seq(Cue) /\ Distinct(grown) /\ ToSet(grown) = ToSet(Kids[holder]) \cup {copy[c]}
  <2> DEFINE s == Kids[holder]
             e == copy[c]
             i == At(s, c) + 1
  <2>1. s \in Seq(Cue) /\ Distinct(s) /\ c \in ToSet(s) /\ e \in Cue /\ e \notin ToSet(s)
    BY <1>9, <1>11, <1>12, <1>14
  <2> HIDE DEF s, e
  <2>2. i \in 1..(Len(s) + 1)
    <3>1. At(s, c) \in 1..Len(s) /\ Len(s) \in Nat
      BY <2>1, AtIs, LenProperties
    <3> QED
      BY <3>1
  <2> HIDE DEF i
  <2>3. InsertAt(s, i, e) \in Seq(Cue) /\ ToSet(InsertAt(s, i, e)) = ToSet(s) \cup {e}
        /\ Distinct(InsertAt(s, i, e))
    BY <2>1, <2>2, InsertedIs
  <2> QED
    BY <2>3 DEF i, e, s
<1>16. /\ \A q \in fresh : k[q] = image(q)
       /\ k[holder] = grown
       /\ \A q \in Place \ fresh : q # holder => k[q] = Kids[q]
  <2>1. \A q \in Place : k[q] = CASE q \in fresh -> image(q)
                                  [] q = holder  -> InsertAt(Kids[q], At(Kids[q], c) + 1, copy[c])
                                  [] OTHER       -> Kids[q]
    OBVIOUS
  <2> HIDE DEF k
  <2>2. fresh \subseteq Place
    BY <1>4, <1>7
  <2>3. ASSUME NEW q \in fresh PROVE k[q] = image(q)
    <3>1. q \in Place /\ q # holder
      BY <1>11, <2>2
    <3> QED
      BY <2>1, <3>1
  <2>4. k[holder] = grown
    BY <1>11, <2>1
  <2>5. ASSUME NEW q \in Place \ fresh, q # holder PROVE k[q] = Kids[q]
    BY <2>1, <2>5
  <2> QED
    BY <2>3, <2>4, <2>5
<1>17. \A q \in Place : k[q] \in Seq(Cue) /\ Distinct(k[q])
  <2> TAKE q \in Place
  <2> HIDE DEF k, grown
  <2>1. CASE q \in fresh
    BY <1>13, <1>16, <2>1
  <2>2. CASE q = holder
    BY <1>15, <1>16, <2>2
  <2>3. CASE q \notin fresh /\ q # holder
    BY <1>12, <1>16, <2>3
  <2> QED
    BY <2>1, <2>2, <2>3
<1>18. k \in Hierarchy
  <2> DEFINE val(q) == CASE q \in fresh -> image(q)
                         [] q = holder  -> InsertAt(Kids[q], At(Kids[q], c) + 1, copy[c])
                         [] OTHER       -> Kids[q]
  <2>1. k = [q \in Place |-> val(q)] /\ \A q \in Place : k[q] = val(q)
    OBVIOUS
  <2> HIDE DEF val, k
  <2>2. \A q \in Place : val(q) \in Seq(Cue)
    BY <1>17, <2>1
  <2> QED
    BY <2>1, <2>2 DEF Hierarchy
<1> HIDE DEF k
<1> DEFINE Old(q) == IF q \in fresh THEN {} ELSE ToSet(Kids[q])
           Src(q) == IF q \in fresh THEN ToSet(Kids[of(q)]) ELSE IF q = holder THEN {c} ELSE {}
           New(q) == {copy[x] : x \in Src(q)}
<1>19. ASSUME NEW q \in Place
       PROVE  /\ ToSet(k[q]) = Old(q) \cup New(q) /\ Src(q) \subseteq source /\ New(q) \subseteq fresh
              /\ Old(q) = ToSet(Kids[q])
  <2>1. CASE q \in fresh
    <3>1. ToSet(k[q]) = {copy[x] : x \in ToSet(Kids[of(q)])} /\ Src(q) = ToSet(Kids[of(q)])
          /\ Src(q) \subseteq source
      BY <1>13, <1>16, <2>1
    <3>2. ToSet(Kids[q]) = {} /\ Old(q) = {}
      BY <1>10, <2>1
    <3> HIDE DEF Src, Old
    <3> QED
      BY <3>1, <3>2 DEF fresh
  <2>2. CASE q = holder
    <3>1. Old(q) = ToSet(Kids[q]) /\ Src(q) = {c} /\ New(q) = {copy[c]}
      BY <1>11, <2>2
    <3> HIDE DEF Old, Src, New, grown
    <3> QED
      BY <1>5, <1>14, <1>15, <1>16, <2>2, <3>1
  <2>3. CASE q \notin fresh /\ q # holder
    <3>1. Old(q) = ToSet(Kids[q]) /\ Src(q) = {} /\ New(q) = {}
      BY <2>3
    <3> HIDE DEF Old, Src, New
    <3> QED
      BY <1>16, <2>3, <3>1
  <2> QED
    BY <2>1, <2>2, <2>3
<1>20. ASSUME NEW q \in Place, NEW r \in Place, q # r PROVE Src(q) \cap Src(r) = {}
  <2>1. ASSUME NEW n \in fresh PROVE c \notin ToSet(Kids[of(n)])
    <3> SUFFICES ASSUME c \in ToSet(Kids[of(n)]) PROVE FALSE
      OBVIOUS
    <3>1. of(n) \in Below(Kids, Root) /\ of(n) \in Below(Kids, c)
      BY <1>5, <1>8 DEF O
    <3> QED
      BY <1>4, <3>1, TheList, NoCycle
  <2>2. CASE q \in fresh /\ r \in fresh
    <3>1. of(q) # of(r) /\ of(q) \in Place /\ of(r) \in Place
      BY <1>4, <1>6, <1>8, <1>20, <2>2
    <3> QED
      BY <1>4, <2>2, <3>1 DEF Separate
  <2>3. CASE q \in fresh /\ r \notin fresh
    BY <2>1, <2>3
  <2>4. CASE q \notin fresh /\ r \in fresh
    BY <2>1, <2>4
  <2>5. CASE q \notin fresh /\ r \notin fresh
    BY <1>20, <2>5
  <2> QED
    BY <2>2, <2>3, <2>4, <2>5
<1>21. \A q \in Place : fresh \cap ToSet(Kids[q]) = {}
  BY <1>7, <1>9
<1> HIDE DEF Src
<1>22. Separate(k, Place)
  <2>1. ASSUME NEW q \in Place, NEW r \in Place, q # r, NEW x \in ToSet(k[q]), x \in ToSet(k[r])
        PROVE  FALSE
    <3>1. /\ x \in ToSet(Kids[q]) \/ x \in New(q)
          /\ x \in ToSet(Kids[r]) \/ x \in New(r)
          /\ New(q) \subseteq fresh /\ New(r) \subseteq fresh
          /\ Src(q) \subseteq source /\ Src(r) \subseteq source
      BY <1>19, <2>1
    <3>2. CASE x \in fresh
      <4>1. x \in New(q) /\ x \in New(r)
        BY <1>21, <3>1, <3>2
      <4>2. PICK y \in Src(q), z \in Src(r) : x = copy[y] /\ x = copy[z]
        BY <4>1
      <4>3. y = z
        BY <1>3, <3>1, <4>2
      <4> QED
        BY <1>20, <2>1, <4>2, <4>3
    <3>3. CASE x \notin fresh
      <4>1. x \in ToSet(Kids[q]) /\ x \in ToSet(Kids[r])
        BY <3>1, <3>3
      <4> QED
        BY <1>4, <2>1, <4>1 DEF Separate
    <3> QED
      BY <3>2, <3>3
  <2> QED
    BY <1>17, <2>1 DEF Separate
<1> HIDE DEF New, Old
<1>23. H \in SUBSET Place /\ Root \in H /\ Separate(k, H)
  BY <1>4, <1>7, <1>22 DEF Separate
<1>24. Closed(k, H)
  <2> SUFFICES ASSUME NEW q \in H PROVE ToSet(k[q]) \subseteq H
    BY DEF Closed
  <2>1. q \in Place /\ ToSet(k[q]) = ToSet(Kids[q]) \cup New(q) /\ New(q) \subseteq fresh
    BY <1>19, <1>23
  <2>2. ToSet(Kids[q]) \subseteq O
    BY <1>4, <1>10 DEF Closed
  <2> QED
    BY <2>1, <2>2
<1>25. /\ \A x \in Cue : taken(kind)[x] = IF x \in fresh THEN kind[of(x)] ELSE kind[x]
       /\ \A x \in fresh : of(x) \in Cue
  BY <1>6, <1>8
<1>26. kind' \in Kinds /\ \A x \in Cue : kind'[x] = IF x \in fresh THEN kind[of(x)] ELSE kind[x]
  BY <1>2, <1>25, TheList DEF Kinds
<1>27. \A x \in O \cap Cue : kind[x] # "unused"
  BY TheList DEF O
<1>28. /\ \A x \in H \cap Cue : kind'[x] # "unused"
       /\ \A x \in Cue : kind[x] # "unused" => kind'[x] # "unused"
  <2>1. \A x \in fresh : kind[of(x)] # "unused"
    BY <1>5, <1>6, <1>8, <1>27
  <2> QED
    BY <1>26, <1>27, <2>1
<1>29. now \in Image /\ now.kids = k /\ now.playhead = list.playhead
  <2>1. list \in [kids: [Place -> Seq(Cue)], file: [Cue -> Media], samples: [Cue -> Media],
                  playhead: Cue \cup {NoCue}]
    BY TheList DEF Image
  <2>2. taken(list.file) \in [Cue -> Media] /\ taken(list.samples) \in [Cue -> Media]
    BY <1>25, <2>1
  <2> DEFINE a == taken(list.file)
             b == taken(list.samples)
  <2>3. now = [list EXCEPT !.kids = k, !.file = a, !.samples = b]
    BY Zenon
  <2> HIDE DEF a, b, now, taken
  <2> QED
    BY <1>18, <2>1, <2>2, <2>3 DEF Image, Hierarchy, a, b
<1>30. Edit("duplicate", now, {}, {}) /\ decodes' \subseteq Cue \X File
  BY <1>2 DEF TreeInv, TypeOK, k, image, holder
<1> HIDE DEF now, H
<1>31. Fits(k, kind')
  BY <1>23, <1>24, <1>28 DEF Fits
<1>32. /\ TreeInv' /\ TopLevel' = ToSet(k[Root]) /\ list'.playhead = now.playhead
       /\ InList' = Below(k, Root) \cap Cue
  BY <1>18, <1>26, <1>28, <1>29, <1>30, <1>31, Changed
<1>33. \A q \in Place : ToSet(Kids[q]) \subseteq ToSet(k[q])
  BY <1>19
<1>34. Closed(Kids, Below(k, Root))
  <2> SUFFICES ASSUME NEW q \in Below(k, Root) PROVE ToSet(Kids[q]) \subseteq Below(k, Root)
    BY DEF Closed
  <2>1. q \in Place /\ ToSet(k[q]) \subseteq Below(k, Root)
    BY <1>18, Reached
  <2> QED
    BY <1>33, <2>1
<1>35. KeepsAll
  BY <1>18, <1>32, <1>34, TheList, Reached, NothingLost DEF KeepsAll
<1>36. Parks
  BY <1>4, <1>29, <1>32, <1>33 DEF Parks, PlayheadTopLevel, TopLevel
<1> QED
  BY <1>32, <1>35, <1>36

\* Every rearrangement leaves a tree with the same Audio Cues, and only a group made over
\* the Playhead leaves it where no GO finds a cue.
LEMMA RearrangesTree ==
  ASSUME TreeInv, Rearranges
  PROVE  TreeInv' /\ ("group_playhead" \notin Operator => Parks) /\ SameAudio
<1>1. ASSUME NEW ids \in Selections, NEW b, MoveCues(ids, b)
      PROVE  TreeInv' /\ Parks /\ SameAudio
  BY <1>1, MoveTree DEF SameAudio
<1>2. ASSUME NEW g \in Cue, NEW ids \in Selections, GroupCues(g, ids)
      PROVE  TreeInv' /\ SameAudio /\ ("group_playhead" \notin Operator => Parks)
  BY <1>2, GroupCuesTree
<1>3. ASSUME NEW g \in Cue, Ungroup(g)
      PROVE  TreeInv' /\ Parks /\ SameAudio
  BY <1>3, UngroupTree
<1>4. ASSUME NEW c \in Cue, NEW g \in Cue, NEW i \in 1..Cardinality(Cue), AddToGroup(c, g, i)
      PROVE  TreeInv' /\ Parks /\ SameAudio
  <2>1. i \in Nat
    BY CuesAreFinite, FS_CardinalityType
  <2> QED
    BY <1>4, <2>1, AddToGroupTree DEF SameAudio
<1>5. ASSUME NEW c \in Cue, NEW g \in Cue, LeaveGroup(g, c)
      PROVE  TreeInv' /\ Parks /\ SameAudio
  BY <1>5, LeaveGroupTree DEF SameAudio
<1>6. ASSUME NEW c \in Cue, NEW b, ToTopLevel(c, b)
      PROVE  TreeInv' /\ Parks /\ SameAudio
  BY <1>6, ToTopLevelTree DEF SameAudio
<1> QED
  BY <1>1, <1>2, <1>3, <1>4, <1>5, <1>6 DEF Rearranges

\* So does every other edit command; only a removal loses cues, the ones below those
\* that are removed.
LEMMA ChangesTree ==
  ASSUME TreeInv, Changes
  PROVE  /\ TreeInv' /\ Parks
         /\ \/ KeepsAll
            \/ \E S \in SUBSET Cue : /\ RemoveCues(S)
                                     /\ InList \ InList' \subseteq UNION {Below(Kids, c) : c \in S}
<1>1. ASSUME NEW c \in Cue, NEW sort \in {"audio", "group"}, NEW i \in 1..Cardinality(Cue),
             AddCue(c, sort, i)
      PROVE  TreeInv' /\ Parks /\ KeepsAll
  <2>1. i \in Nat
    BY CuesAreFinite, FS_CardinalityType
  <2> QED
    BY <1>1, <2>1, AddTree
<1>2. ASSUME NEW S \in SUBSET Cue, RemoveCues(S)
      PROVE  TreeInv' /\ Parks /\ InList \ InList' \subseteq UNION {Below(Kids, c) : c \in S}
  BY <1>2, RemoveTree
<1>3. ASSUME NEW c \in Cue, Duplicate(c) PROVE TreeInv' /\ Parks /\ KeepsAll
  BY <1>3, DuplicateTree
<1>4. ASSUME NEW c \in Cue, EditGroup(c) PROVE TreeInv' /\ Parks /\ KeepsAll
  BY <1>4, EditGroupTree
<1>5. ASSUME NEW c \in Cue, NEW f \in File, Relink(c, f) PROVE TreeInv' /\ Parks /\ KeepsAll
  BY <1>5, RelinkTree
<1> QED
  BY <1>1, <1>2, <1>3, <1>4, <1>5 DEF Changes

---------------------------------------------------------------------------
(***************************************************************************)
(* The other steps.                                                         *)
(***************************************************************************)
Top(i) == i.playhead \in ToSet(i.kids[Root]) \cup {NoCue}
ParkInv == \A i \in Recorded : Top(i)

LEMMA InitTree == Init => TreeInv /\ ParkInv
<1> SUFFICES ASSUME Init PROVE TreeInv /\ ParkInv
  OBVIOUS
<1>1. PICK seed \in Seeds : list = seed.image /\ kind = seed.kind
  BY DEF Init
<1>2. list \in Image /\ kind \in Kinds
  BY <1>1, SeedAssumption DEF Kinds
<1>3. list.kids \in Hierarchy
  BY <1>2 DEF Image, Hierarchy
<1>4. /\ Apart(list.kids) /\ \A p \in Place \ Below(list.kids, Root) : list.kids[p] = <<>>
      /\ \A c \in Present(list.kids) : kind[c] # "unused"
      /\ list.playhead \in ToSet(list.kids[Root]) \cup {NoCue}
  BY <1>1, SeedsAreTrees, Zenon
<1>5. TreeOf(list, kind) /\ Top(list)
  BY <1>2, <1>3, <1>4, ApartIs DEF TreeOf, Top
<1>6. past = <<>> /\ future = <<>> /\ live = {} /\ orphans = {} /\ decodes = {} /\ busy = FALSE /\ edits = 0
  BY DEF Init
<1>7. Recorded = {list}
  BY <1>6 DEF Recorded, ToSet
<1>8. TypeOK
  <2>1. past \in Seq(Image) /\ future \in Seq(Image) /\ Len(past) + Len(future) <= MaxUndo
    BY <1>6, BoundsAreNaturals
  <2>2. edits \in 0..MaxEdits
    BY <1>6, BoundsAreNaturals
  <2> QED
    BY <1>2, <1>6, <2>1, <2>2 DEF TypeOK, Kinds
<1> QED
  BY <1>5, <1>7, <1>8 DEF TreeInv, ParkInv

\* The list and the history of trees, whatever becomes of the voices.
LEMMA HistoryKeepsTrees ==
  ASSUME TreeInv, NEW S, \A i \in S : TreeOf(i, kind), list' \in S, past' \in Seq(S),
         future' \in Seq(S), kind' = kind, Len(past') + Len(future') <= MaxUndo,
         live' \subseteq Cue, orphans' \subseteq Cue, decodes' \subseteq Cue \X File,
         busy' \in BOOLEAN, edits' \in 0..MaxEdits
  PROVE  /\ TreeInv' /\ Recorded' \subseteq S
<1>1. Recorded' \subseteq S
  BY Elements DEF Recorded
<1>2. S \subseteq Image
  BY DEF TreeOf
<1>3. past' \in Seq(Image) /\ future' \in Seq(Image) /\ list' \in Image
  BY <1>2, SeqMonotonic
<1>4. kind' \in Kinds
  BY TheList
<1>5. \A i \in Recorded' : TreeOf(i, kind')
  BY <1>1
<1> QED
  BY <1>1, <1>3, <1>4, <1>5 DEF TreeInv, TypeOK, Kinds

\* The history as sequences over what is recorded.
LEMMA TheHistory ==
  ASSUME TreeInv
  PROVE  /\ past \in Seq(Recorded) /\ future \in Seq(Recorded) /\ list \in Recorded
         /\ Len(past) \in Nat /\ Len(future) \in Nat /\ Len(past) + Len(future) <= MaxUndo
         /\ MaxUndo \in Nat \ {0}
         /\ live \subseteq Cue /\ orphans \subseteq Cue /\ decodes \subseteq Cue \X File
         /\ busy \in BOOLEAN /\ edits \in 0..MaxEdits
         /\ \A i \in Recorded : TreeOf(i, kind)
<1>1. past \in Seq(Image) /\ future \in Seq(Image)
  BY DEF TreeInv, TypeOK
<1>2. ToSet(past) \subseteq Recorded /\ ToSet(future) \subseteq Recorded
  BY DEF Recorded
<1>3. past \in Seq(Recorded) /\ future \in Seq(Recorded)
  BY <1>1, <1>2, Elements
<1>4. Len(past) \in Nat /\ Len(future) \in Nat
  BY <1>1, LenProperties
<1> QED
  BY <1>3, <1>4, BoundsAreNaturals DEF TreeInv, TypeOK, Recorded

\* A snapshot of the list joins the history, which drops its oldest one at the bound.
LEMMA BeginEditTree ==
  ASSUME TreeInv, BeginEdit
  PROVE  TreeInv' /\ Recorded' \subseteq Recorded
<1> DEFINE kept == IF Len(past) < MaxUndo THEN past ELSE Tail(past)
<1>1. kept \in Seq(Recorded) /\ Len(kept) \in Nat /\ Len(kept) + 1 <= MaxUndo
  <2>1. CASE Len(past) < MaxUndo
    BY <2>1, TheHistory
  <2>2. CASE ~(Len(past) < MaxUndo)
    <3>1. past # <<>> /\ past \in Seq(Recorded)
      BY <2>2, TheHistory, EmptySeq
    <3>2. Tail(past) \in Seq(Recorded) /\ Len(Tail(past)) = Len(past) - 1
      BY <3>1, HeadTailProperties
    <3>3. kept = Tail(past)
      BY <2>2
    <3> HIDE DEF kept
    <3> QED
      BY <2>2, <3>1, <3>2, <3>3, TheHistory, EmptySeq
  <2> QED
    BY <2>1, <2>2
<1>2. past' = kept \o <<list>> /\ future' = <<>>
  BY DEF BeginEdit, Push
<1> HIDE DEF kept
<1>3. <<list>> \in Seq(Recorded) /\ Len(<<list>>) = 1
  BY TheHistory
<1>4. past' \in Seq(Recorded) /\ Len(past') = Len(kept) + 1
  BY <1>1, <1>2, <1>3, ConcatProperties
<1>5. future' \in Seq(Recorded) /\ Len(past') + Len(future') <= MaxUndo
  BY <1>1, <1>2, <1>4
<1>6. /\ list' \in Recorded /\ kind' = kind /\ live' \subseteq Cue /\ orphans' \subseteq Cue
      /\ decodes' \subseteq Cue \X File /\ busy' \in BOOLEAN
  BY TheHistory DEF BeginEdit
<1>7. edits' \in 0..MaxEdits
  BY TheHistory, BoundsAreNaturals DEF BeginEdit
<1> QED
  BY <1>4, <1>5, <1>6, <1>7, TheHistory, HistoryKeepsTrees

\* A history without its last image is one shorter, and with it again the same.
LEMMA LastOut ==
  ASSUME NEW S, NEW s \in Seq(S), s # <<>>
  PROVE  /\ Last(s) \in S /\ Front(s) \in Seq(S) /\ Len(Front(s)) = Len(s) - 1
         /\ Append(Front(s), Last(s)) = s
<1>1. Len(s) \in Nat \ {0} /\ Last(s) \in S /\ Front(s) \in Seq(S)
  BY EmptySeq, Popped
<1>2. Len(Front(s)) = Len(s) - 1 /\ \A i \in 1..(Len(s) - 1) : Front(s)[i] = s[i]
  <2> DEFINE m == Len(s) - 1
  <2>1. \A i \in 1..m : s[i] \in S
    BY <1>1, ElementOfSeq
  <2>2. m \in Nat /\ Front(s) = SubSeq(s, 1, m)
    BY <1>1 DEF Front
  <2> HIDE DEF m
  <2>3. /\ Len(SubSeq(s, 1, m)) = IF 1 <= m THEN m - 1 + 1 ELSE 0
        /\ \A i \in 1..(m - 1 + 1) : SubSeq(s, 1, m)[i] = s[1 + i - 1]
    BY <2>1, <2>2, SubSeqProperties
  <2>4. Len(Front(s)) = m /\ \A i \in 1..m : Front(s)[i] = s[i]
    BY <2>2, <2>3
  <2> QED
    BY <2>4 DEF m
<1> DEFINE t == Front(s)
           e == Last(s)
           r == Append(t, e)
<1>3. e = s[Len(s)]
  BY DEF Last
<1> HIDE DEF t, e
<1>4. r \in Seq(S) /\ Len(r) = Len(s) /\ (\A i \in 1..Len(t) : r[i] = t[i]) /\ r[Len(t) + 1] = e
  BY <1>1, <1>2, AppendProperties DEF t, e
<1> HIDE DEF r
<1>5. \A i \in 1..Len(r) : r[i] = s[i]
  <2> TAKE i \in 1..Len(r)
  <2>1. CASE i = Len(s)
    BY <1>1, <1>2, <1>3, <1>4, <2>1 DEF t
  <2>2. CASE i # Len(s)
    <3>1. i \in 1..(Len(s) - 1)
      BY <1>1, <1>4, <2>2
    <3> QED
      BY <1>2, <1>4, <3>1 DEF t
  <2> QED
    BY <2>1, <2>2
<1>6. r = s
  BY <1>4, <1>5, SeqEqual
<1> QED
  BY <1>1, <1>2, <1>6 DEF r, t, e

\* Turned round, the last element comes first.
LEMMA ReverseIs ==
  ASSUME NEW S, NEW s \in Seq(S), NEW e \in S
  PROVE  Reverse(s) \in Seq(S) /\ Reverse(Append(s, e)) = <<e>> \o Reverse(s)
<1>1. \A t \in Seq(S) : Reverse(t) \in Seq(S) /\ Len(Reverse(t)) = Len(t)
                        /\ \A i \in 1..Len(t) : Reverse(t)[i] = t[Len(t) - i + 1]
  <2> TAKE t \in Seq(S)
  <2>1. Len(t) \in Nat /\ \A i \in 1..Len(t) : t[i] \in S
    BY LenProperties, ElementOfSeq
  <2>2. \A i \in 1..Len(t) : Len(t) - i + 1 \in 1..Len(t)
    BY <2>1
  <2>3. Reverse(t) = [i \in 1..Len(t) |-> t[Len(t) - i + 1]]
    BY DEF Reverse
  <2>4. Reverse(t) \in [1..Len(t) -> S]
    BY <2>1, <2>2, <2>3
  <2>5. Reverse(t) \in Seq(S) /\ Len(Reverse(t)) = Len(t)
    BY <2>1, <2>4, SeqDef, LenProperties
  <2> QED
    BY <2>3, <2>5
<1> DEFINE a == Append(s, e)
           u == Reverse(a)
           v == <<e>> \o Reverse(s)
           n == Len(s)
<1>2. n \in Nat /\ a \in Seq(S) /\ Len(a) = n + 1 /\ a[n + 1] = e /\ \A i \in 1..n : a[i] = s[i]
  BY AppendProperties, LenProperties
<1>3. u \in Seq(S) /\ Len(u) = n + 1 /\ \A i \in 1..(n + 1) : u[i] = a[n + 1 - i + 1]
  <2> HIDE DEF a
  <2> QED
    BY <1>1, <1>2
<1>4. <<e>> \in Seq(S) /\ Len(<<e>>) = 1 /\ <<e>>[1] = e
  OBVIOUS
<1>5. v \in Seq(S) /\ Len(v) = 1 + n
      /\ \A i \in 1..(1 + n) : v[i] = IF i <= 1 THEN <<e>>[i] ELSE Reverse(s)[i - 1]
  <2> DEFINE h == <<e>>
             w == Reverse(s)
  <2>1. h \in Seq(S) /\ Len(h) = 1 /\ w \in Seq(S) /\ Len(w) = n
    BY <1>1, <1>4
  <2> HIDE DEF h, w, n
  <2>2. /\ h \o w \in Seq(S) /\ Len(h \o w) = Len(h) + Len(w)
        /\ \A i \in 1..(Len(h) + Len(w)) :
             (h \o w)[i] = IF i <= Len(h) THEN h[i] ELSE w[i - Len(h)]
    BY <2>1, ConcatProperties
  <2>3. h \o w \in Seq(S) /\ Len(h \o w) = 1 + n
        /\ \A i \in 1..(1 + n) : (h \o w)[i] = IF i <= 1 THEN h[i] ELSE w[i - 1]
    BY <2>1, <2>2
  <2> QED
    BY <2>3 DEF h, w
<1> HIDE DEF u, v, a
<1>6. \A i \in 1..(n + 1) : u[i] = v[i]
  <2> TAKE i \in 1..(n + 1)
  <2>1. CASE i = 1
    BY <1>2, <1>3, <1>4, <1>5, <2>1
  <2>2. CASE i # 1
    <3> DEFINE j == i - 1
               m == n + 1 - i + 1
    <3>1. j \in 1..n /\ m \in 1..n /\ m = n - j + 1 /\ ~(i <= 1) /\ i \in 1..(1 + n)
      BY <1>2, <2>2
    <3>2. u[i] = a[m] /\ v[i] = Reverse(s)[j]
      BY <1>3, <1>5, <3>1
    <3> HIDE DEF j, m
    <3>3. Reverse(s)[j] = s[n - j + 1] /\ a[m] = s[m]
      BY <1>1, <1>2, <3>1
    <3> QED
      BY <3>1, <3>2, <3>3
  <2> QED
    BY <2>1, <2>2
<1>7. u = v
  BY <1>2, <1>3, <1>5, <1>6, SeqEqual
<1> QED
  BY <1>1, <1>7 DEF u, v, a

\* Moving the place along the line, back or forth.
LEMMA WalkedBack ==
  ASSUME NEW S, NEW p \in Seq(S), NEW f \in Seq(S), NEW x \in S
  PROVE  /\ p # <<>> => Front(p) \o <<Last(p)>> \o Reverse(Append(f, x)) = p \o <<x>> \o Reverse(f)
         /\ f # <<>> => Append(p, x) \o <<Last(f)>> \o Reverse(Front(f)) = p \o <<x>> \o Reverse(f)
<1>1. Reverse(f) \in Seq(S) /\ Reverse(Append(f, x)) = <<x>> \o Reverse(f) /\ <<x>> \in Seq(S)
  BY ReverseIs
<1>2. ASSUME p # <<>>
      PROVE  Front(p) \o <<Last(p)>> \o Reverse(Append(f, x)) = p \o <<x>> \o Reverse(f)
  <2>1. Front(p) \o <<Last(p)>> = p
    <3>1. Front(p) \in Seq(S) /\ Last(p) \in S /\ Append(Front(p), Last(p)) = p
      BY <1>2, LastOut
    <3> DEFINE a == Front(p)
               b == Last(p)
    <3> HIDE DEF a, b
    <3>2. Append(a, b) = a \o <<b>>
      BY <3>1, AppendIsConcat DEF a, b
    <3> QED
      BY <3>1, <3>2, Zenon DEF a, b
  <2>2. (p \o <<x>>) \o Reverse(f) = p \o (<<x>> \o Reverse(f))
    BY <1>1, ConcatAssociative
  <2> QED
    BY <1>1, <2>1, <2>2
<1>3. ASSUME f # <<>>
      PROVE  Append(p, x) \o <<Last(f)>> \o Reverse(Front(f)) = p \o <<x>> \o Reverse(f)
  <2>1. /\ Front(f) \in Seq(S) /\ Last(f) \in S /\ Append(Front(f), Last(f)) = f
        /\ <<Last(f)>> \in Seq(S)
    BY <1>3, LastOut
  <2>2. Reverse(f) = <<Last(f)>> \o Reverse(Front(f)) /\ Reverse(Front(f)) \in Seq(S)
    BY <2>1, ReverseIs
  <2>3. Append(p, x) = p \o <<x>> /\ Append(p, x) \in Seq(S)
    BY AppendIsConcat, AppendProperties
  <2>4. (Append(p, x) \o <<Last(f)>>) \o Reverse(Front(f))
          = Append(p, x) \o (<<Last(f)>> \o Reverse(Front(f)))
    <3> DEFINE a == Append(p, x)
               b == <<Last(f)>>
               d == Reverse(Front(f))
    <3>1. a \in Seq(S) /\ b \in Seq(S) /\ d \in Seq(S)
      BY <2>1, <2>2, <2>3
    <3> HIDE DEF a, b, d
    <3>2. (a \o b) \o d = a \o (b \o d)
      BY <3>1, ConcatAssociative
    <3> QED
      BY <3>2 DEF a, b, d
  <2> QED
    BY <2>2, <2>3, <2>4, Zenon
<1> QED
  BY <1>2, <1>3

\* What is restored is a tree with its Playhead on the top level: the snapshot itself,
\* if that was so of it.
LEMMA RestoreTree ==
  ASSUME NEW s, TreeOf(s, kind), Restore(s)
  PROVE  /\ TreeOf(list', kind) /\ Top(list') /\ (Top(s) => list' = s)
         /\ live' \subseteq live /\ orphans' \subseteq live
<1> DEFINE now == [s EXCEPT !.playhead = IF @ \in ToSet(s.kids[Root]) THEN @ ELSE NoCue]
<1>1. list' = now /\ Forget(now, {}, Cue)
  BY DEF Restore
<1>2. s \in [kids: [Place -> Seq(Cue)], file: [Cue -> Media], samples: [Cue -> Media],
             playhead: Cue \cup {NoCue}]
  BY DEF TreeOf, Image
<1>3. now \in Image /\ now.kids = s.kids
      /\ now.playhead = IF s.playhead \in ToSet(s.kids[Root]) THEN s.playhead ELSE NoCue
  BY <1>2 DEF Image
<1>4. Top(s) => now = s
  BY <1>2 DEF Top
<1> HIDE DEF now
<1>5. live' \subseteq live /\ orphans' \subseteq live
  BY <1>1 DEF Forget, Sounding
<1> QED
  BY <1>1, <1>3, <1>4, <1>5 DEF TreeOf, Top

LEMMA UndoRedoTree ==
  ASSUME TreeInv, Undo \/ Redo
  PROVE  /\ TreeInv' /\ Recorded' \subseteq Recorded \cup {list'} /\ Top(list')
         /\ past' # past /\ (ParkInv => Timeline' = Timeline)
<1> DEFINE S == Recorded \cup {list'}
<1>1. /\ past \in Seq(Recorded) /\ future \in Seq(Recorded) /\ list \in Recorded
      /\ Len(past) \in Nat /\ Len(future) \in Nat /\ Len(past) + Len(future) <= MaxUndo
      /\ MaxUndo \in Nat
      /\ \A i \in Recorded : TreeOf(i, kind)
  BY TheHistory
<1>2. past \in Seq(S) /\ future \in Seq(S) /\ list \in S /\ list' \in S
  BY <1>1, SeqMonotonic
<1>3. UNCHANGED <<kind, decodes, busy, edits>>
  BY DEF Undo, Redo
<1>4. ASSUME TreeOf(list', kind), live' \subseteq live, orphans' \subseteq live,
             past' \in Seq(S), future' \in Seq(S), Len(past') + Len(future') <= MaxUndo
      PROVE  TreeInv' /\ Recorded' \subseteq S
  <2>1. \A i \in S : TreeOf(i, kind)
    BY <1>1, <1>4
  <2>2. /\ live' \subseteq Cue /\ orphans' \subseteq Cue /\ decodes' \subseteq Cue \X File
        /\ busy' \in BOOLEAN /\ edits' \in 0..MaxEdits
    BY <1>3, <1>4, TheHistory
  <2> HIDE DEF S
  <2> QED
    BY <1>2, <1>3, <1>4, <2>1, <2>2, HistoryKeepsTrees
<1>5. CASE Undo
  <2> DEFINE s == Last(past)
  <2>1. /\ past # <<>> /\ Restore(s) /\ past' = Front(past) /\ future' = Append(future, list)
    BY <1>5 DEF Undo
  <2>2. s \in Recorded /\ Front(past) \in Seq(Recorded) /\ Len(Front(past)) = Len(past) - 1
    BY <1>1, <2>1, LastOut
  <2> HIDE DEF s
  <2>3. /\ TreeOf(list', kind) /\ Top(list') /\ (Top(s) => list' = s)
        /\ live' \subseteq live /\ orphans' \subseteq live
    BY <1>1, <2>1, <2>2, RestoreTree
  <2>4. future' \in Seq(Recorded) /\ Len(future') = Len(future) + 1
    BY <1>1, <2>1, AppendProperties
  <2>5. past' \in Seq(S) /\ future' \in Seq(S)
    BY <2>1, <2>2, <2>4, SeqMonotonic
  <2>6. Len(past') + Len(future') <= MaxUndo /\ past' # past
    BY <1>1, <2>1, <2>2, <2>4
  <2>7. TreeInv' /\ Recorded' \subseteq S
    <3> HIDE DEF S
    <3> QED
      BY <1>4, <2>3, <2>5, <2>6
  <2>8. ASSUME ParkInv PROVE Timeline' = Timeline
    <3>1. list' = s
      BY <2>2, <2>3, <2>8 DEF ParkInv
    <3>2. Front(past) \o <<Last(past)>> \o Reverse(Append(future, list))
            = past \o <<list>> \o Reverse(future)
      BY <1>1, <2>1, WalkedBack
    <3>3. Timeline' = Front(past) \o <<Last(past)>> \o Reverse(Append(future, list))
      BY <2>1, <3>1 DEF Timeline, s
    <3> QED
      BY <3>2, <3>3 DEF Timeline
  <2> QED
    BY <2>3, <2>6, <2>7, <2>8
<1>6. CASE Redo
  <2> DEFINE s == Last(future)
  <2>1. /\ future # <<>> /\ Restore(s) /\ future' = Front(future) /\ past' = Append(past, list)
    BY <1>6 DEF Redo
  <2>2. s \in Recorded /\ Front(future) \in Seq(Recorded) /\ Len(Front(future)) = Len(future) - 1
    BY <1>1, <2>1, LastOut
  <2> HIDE DEF s
  <2>3. /\ TreeOf(list', kind) /\ Top(list') /\ (Top(s) => list' = s)
        /\ live' \subseteq live /\ orphans' \subseteq live
    BY <1>1, <2>1, <2>2, RestoreTree
  <2>4. past' \in Seq(Recorded) /\ Len(past') = Len(past) + 1
    BY <1>1, <2>1, AppendProperties
  <2>5. past' \in Seq(S) /\ future' \in Seq(S)
    BY <2>1, <2>2, <2>4, SeqMonotonic
  <2>6. Len(past') + Len(future') <= MaxUndo /\ past' # past
    BY <1>1, <2>1, <2>2, <2>4
  <2>7. TreeInv' /\ Recorded' \subseteq S
    <3> HIDE DEF S
    <3> QED
      BY <1>4, <2>3, <2>5, <2>6
  <2>8. ASSUME ParkInv PROVE Timeline' = Timeline
    <3>1. list' = s
      BY <2>2, <2>3, <2>8 DEF ParkInv
    <3>2. Append(past, list) \o <<Last(future)>> \o Reverse(Front(future))
            = past \o <<list>> \o Reverse(future)
      BY <1>1, <2>1, WalkedBack
    <3>3. Timeline' = Append(past, list) \o <<Last(future)>> \o Reverse(Front(future))
      BY <2>1, <3>1 DEF Timeline, s
    <3> QED
      BY <3>2, <3>3 DEF Timeline
  <2> QED
    BY <2>3, <2>6, <2>7, <2>8
<1> QED
  BY <1>5, <1>6

\* A step that touches neither the hierarchy nor the history.
LEMMA SameTree ==
  ASSUME TreeInv, list' \in Image, list'.kids = Kids, UNCHANGED <<kind, past, future>>,
         live' \subseteq Cue, orphans' \subseteq Cue, decodes' \subseteq Cue \X File,
         busy' \in BOOLEAN, edits' \in 0..MaxEdits
  PROVE  TreeInv' /\ Recorded' \subseteq Recorded \cup {list'} /\ InList' = InList
<1> DEFINE S == Recorded \cup {list'}
<1>1. TreeOf(list, kind) /\ past \in Seq(Recorded) /\ future \in Seq(Recorded)
      /\ Len(past) + Len(future) <= MaxUndo
  BY TheHistory
<1>2. TreeOf(list', kind)
  BY <1>1 DEF TreeOf, Kids
<1>3. past' \in Seq(S) /\ future' \in Seq(S) /\ list' \in S /\ Len(past') + Len(future') <= MaxUndo
  BY <1>1, SeqMonotonic
<1>4. \A i \in S : TreeOf(i, kind)
  BY <1>2, TheHistory
<1>5. TreeInv' /\ Recorded' \subseteq S
  <2> HIDE DEF S
  <2> QED
    BY <1>3, <1>4, HistoryKeepsTrees
<1> QED
  BY <1>5 DEF InList, Kids

\* The list with another Playhead, and with other samples.
LEMMA OtherPlayhead ==
  ASSUME TreeInv, NEW p \in Cue \cup {NoCue}
  PROVE  /\ [list EXCEPT !.playhead = p] \in Image /\ [list EXCEPT !.playhead = p].kids = Kids
         /\ [list EXCEPT !.playhead = p].playhead = p
<1>1. list \in [kids: [Place -> Seq(Cue)], file: [Cue -> Media], samples: [Cue -> Media],
                playhead: Cue \cup {NoCue}]
  BY TheList DEF Image
<1> QED
  BY <1>1 DEF Image, Kids

LEMMA OtherSamples ==
  ASSUME TreeInv, NEW c \in Cue, NEW f \in File
  PROVE  /\ [list EXCEPT !.samples[c] = f] \in Image /\ [list EXCEPT !.samples[c] = f].kids = Kids
         /\ [list EXCEPT !.samples[c] = f].playhead = list.playhead
<1>1. list \in [kids: [Place -> Seq(Cue)], file: [Cue -> Media], samples: [Cue -> Media],
                playhead: Cue \cup {NoCue}]
  BY TheList DEF Image
<1> QED
  BY <1>1 DEF Image, Kids, Media

\* The transport, the loop and the decoding threads move no cue, and put the Playhead on
\* the top level or nowhere.
LEMMA OthersTree ==
  ASSUME TreeInv,
         \/ EndEdit \/ Go
         \/ \E c \in Cue : SetPlayhead(c) \/ Start(c) \/ Finish(c) \/ GroupDone(c)
         \/ \E c \in Cue, f \in File : DecodeDone(c, f)
         \/ UNCHANGED vars
  PROVE  /\ TreeInv' /\ Recorded' \subseteq Recorded \cup {list'} /\ InList' = InList
         /\ list'.playhead = list.playhead \/ Top(list')
         /\ list'.kids = list.kids
<1>1. /\ live \subseteq Cue /\ orphans \subseteq Cue /\ decodes \subseteq Cue \X File
      /\ busy \in BOOLEAN /\ edits \in 0..MaxEdits
  BY TheHistory
<1>2. list \in Image /\ list.kids = Kids /\ Kids \in Hierarchy /\ Root \in Place
  BY TheList DEF Kids, Place
<1>3. ASSUME list' \in Image, list'.kids = Kids, UNCHANGED <<kind, past, future>>,
             live' \subseteq Cue, orphans' \subseteq Cue, decodes' \subseteq decodes,
             busy' \in BOOLEAN, edits' = edits
      PROVE  TreeInv' /\ Recorded' \subseteq Recorded \cup {list'} /\ InList' = InList
  <2>1. decodes' \subseteq Cue \X File /\ edits' \in 0..MaxEdits
    BY <1>1, <1>3
  <2> QED
    BY <1>3, <2>1, SameTree
<1>4. CASE list' = list /\ UNCHANGED <<kind, decodes, past, future, edits>>
           /\ live' \subseteq Cue /\ orphans' \subseteq Cue /\ busy' \in BOOLEAN
  <2>1. list' \in Image /\ list'.kids = Kids /\ decodes' \subseteq decodes
    BY <1>2, <1>4
  <2> QED
    BY <1>2, <1>3, <1>4, <2>1
<1>5. ASSUME NEW p \in TopLevel \cup {NoCue}, list' = [list EXCEPT !.playhead = p],
             UNCHANGED <<kind, decodes, past, future, busy, edits>>, live' \subseteq Cue, orphans' = {}
      PROVE  /\ TreeInv' /\ Recorded' \subseteq Recorded \cup {list'} /\ InList' = InList
             /\ Top(list') /\ list'.kids = list.kids
  <2>1. p \in Cue \cup {NoCue}
    BY TheList
  <2>2. list' \in Image /\ list'.kids = Kids /\ list'.playhead = p
    BY <1>5, <2>1, OtherPlayhead
  <2>3. orphans' \subseteq Cue /\ decodes' \subseteq decodes /\ busy' \in BOOLEAN
    BY <1>1, <1>5
  <2>4. Top(list') /\ list'.kids = list.kids
    BY <1>2, <2>2 DEF Top, TopLevel
  <2> QED
    BY <1>3, <1>5, <2>2, <2>3, <2>4
<1>6. CASE EndEdit
  BY <1>1, <1>4, <1>6 DEF EndEdit
<1>7. CASE Go
  <2> DEFINE top == Kids[Root]
             i == At(top, list.playhead)
             t == SubSeq(top, i + 1, Len(top))
             p == FirstOf(t)
  <2>1. /\ list.playhead \in TopLevel /\ list' = [list EXCEPT !.playhead = p] /\ orphans' = {}
        /\ live' = live \cup Startable(Below(Kids, list.playhead))
        /\ UNCHANGED <<kind, decodes, past, future, busy, edits>>
    BY <1>7 DEF Go
  <2>2. live' \subseteq Cue
    <3>1. Below(Kids, list.playhead) \subseteq Cue
      BY <1>2, <2>1, TheList, RootIsOnTop
    <3> QED
      BY <1>1, <2>1, <3>1 DEF Startable
  <2>3. top \in Seq(Cue) /\ TopLevel = ToSet(top)
    BY <1>2 DEF Hierarchy, TopLevel
  <2>4. i \in 1..Len(top) /\ Len(top) \in Nat /\ DOMAIN top = 1..Len(top)
    BY <2>1, <2>3, AtIs, LenProperties
  <2>5. \A j \in (i + 1)..Len(top) : top[j] \in TopLevel
    <3>1. \A j \in DOMAIN top : top[j] \in TopLevel
      BY <2>3 DEF ToSet
    <3> HIDE DEF i, top
    <3> QED
      BY <2>4, <3>1
  <2>6. t \in Seq(TopLevel)
    <3> DEFINE m == i + 1
               n == Len(top)
    <3>1. m \in Int /\ n \in Int /\ \A j \in m..n : top[j] \in TopLevel
      BY <2>4, <2>5
    <3>2. t = SubSeq(top, m, n)
      OBVIOUS
    <3> HIDE DEF m, n, t, top, i
    <3> QED
      BY <3>1, <3>2, SubSeqProperties
  <2>7. p \in TopLevel \cup {NoCue}
    <3> HIDE DEF t
    <3> QED
      BY <2>6, FirstIs
  <2> HIDE DEF p
  <2> QED
    BY <1>5, <2>1, <2>2, <2>7
<1>8. ASSUME NEW c \in Cue, SetPlayhead(c)
      PROVE  /\ TreeInv' /\ Recorded' \subseteq Recorded \cup {list'} /\ InList' = InList
             /\ Top(list') /\ list'.kids = list.kids
  <2>1. c \in InList /\ list' = [list EXCEPT !.playhead = Ancestor(c)] /\ orphans' = {}
        /\ UNCHANGED <<kind, live, decodes, past, future, busy, edits>>
    BY <1>8 DEF SetPlayhead
  <2>2. Ancestor(c) \in TopLevel
    <3>1. \E t \in TopLevel : c \in Below(Kids, t)
      BY <1>2, <2>1, TopLevelCovers DEF InList, TopLevel
    <3> QED
      BY <3>1 DEF Ancestor
  <2> QED
    BY <1>1, <1>5, <2>1, <2>2
<1>9. ASSUME NEW c \in Cue, Start(c) \/ Finish(c) \/ GroupDone(c)
      PROVE  /\ list' = list /\ UNCHANGED <<kind, decodes, past, future, edits>>
             /\ live' \subseteq Cue /\ orphans' \subseteq Cue /\ busy' \in BOOLEAN
  <2>1. CASE Start(c)
    BY <1>1, <2>1 DEF Start
  <2>2. CASE Finish(c)
    BY <1>1, <2>2 DEF Finish
  <2>3. CASE GroupDone(c)
    BY <1>1, <2>3 DEF GroupDone, Forget, Sounding
  <2> QED
    BY <1>9, <2>1, <2>2, <2>3
<1>10. ASSUME NEW c \in Cue, NEW f \in File, DecodeDone(c, f)
       PROVE  /\ TreeInv' /\ Recorded' \subseteq Recorded \cup {list'} /\ InList' = InList
              /\ list'.playhead = list.playhead /\ list'.kids = list.kids
  <2>1. /\ list' = list \/ list' = [list EXCEPT !.samples[c] = f]
        /\ UNCHANGED <<kind, live, past, future, busy, edits>> /\ orphans' = {} /\ decodes' \subseteq decodes
    BY <1>10 DEF DecodeDone
  <2>2. list' \in Image /\ list'.kids = Kids /\ list'.playhead = list.playhead
    <3>1. CASE list' = list
      BY <1>2, <3>1
    <3>2. CASE list' = [list EXCEPT !.samples[c] = f]
      <4> DEFINE now == [list EXCEPT !.samples[c] = f]
      <4>1. now \in Image /\ now.kids = Kids /\ now.playhead = list.playhead
        BY OtherSamples
      <4>2. list' = now
        BY <3>2
      <4> HIDE DEF now
      <4> QED
        BY <4>1, <4>2
    <3> QED
      BY <2>1, <3>1, <3>2
  <2>3. live' \subseteq Cue /\ orphans' \subseteq Cue /\ busy' \in BOOLEAN /\ edits' = edits
        /\ UNCHANGED <<kind, past, future>>
    BY <1>1, <2>1
  <2> QED
    BY <1>2, <1>3, <2>1, <2>2, <2>3
<1>11. CASE UNCHANGED vars
  BY <1>1, <1>4, <1>11 DEF vars
<1> QED
  BY <1>4, <1>6, <1>7, <1>8, <1>9, <1>10, <1>11

---------------------------------------------------------------------------
(***************************************************************************)
(* What the invariant gives.                                                *)
(***************************************************************************)
\* No command asks for the Playhead to be left on a cue that is not on the top level.
PlayheadMoves == "group_playhead" \notin Operator /\ "ungroup_playhead" \notin Operator

\* An edit command changes the list, or fails with a cue in hand.
Edits == Rearranges \/ Changes \/ \E c \in Cue : Refused(c)

\* One command with its change of the list.
LEMMA EditTree ==
  ASSUME TreeInv, busy, Edits
  PROVE  TreeInv' /\ (PlayheadMoves => Parks) /\ past' = past /\ future' = future
<1>1. past' = past /\ future' = future
  BY Zenon DEF Edits, Rearranges, Changes, Refused, MoveCues, GroupCues, Ungroup, AddToGroup,
               LeaveGroup, ToTopLevel, UngroupRefused, AddRefused, AddCue, RemoveCues,
               Duplicate, EditGroup, Relink, Reorder, Edit
<1> QED
  BY <1>1, RearrangesTree, RefusedTree, ChangesTree DEF Edits, PlayheadMoves

LEMMA TreeStep == TreeInv /\ [Next]_vars => TreeInv'
<1> SUFFICES ASSUME TreeInv, [Next]_vars PROVE TreeInv'
  OBVIOUS
<1>1. CASE BeginEdit
  BY <1>1, BeginEditTree
<1>2. CASE Undo \/ Redo
  BY <1>2, UndoRedoTree
<1>3. CASE busy /\ Edits
  BY <1>3, EditTree
<1>4. CASE \/ EndEdit \/ Go
           \/ \E c \in Cue : SetPlayhead(c) \/ Start(c) \/ Finish(c) \/ GroupDone(c)
           \/ \E c \in Cue, f \in File : DecodeDone(c, f)
           \/ UNCHANGED vars
  BY <1>4, OthersTree
<1> QED
  BY <1>1, <1>2, <1>3, <1>4 DEF Next, Edits

\* However the list is edited, undone and redone, no cue is at two places of it, no group
\* is inside itself, and the history stays within its bound.
THEOREM ListStaysSound == Spec => []ListIsSound
<1>1. TreeInv => ListIsSound
  <2> SUFFICES ASSUME TreeInv PROVE ListIsSound
    OBVIOUS
  <2>1. TypeOK
    BY DEF TreeInv
  <2>2. Apart(Kids)
    BY TheList, ApartIs
  <2>3. ASSUME NEW c \in InList, NEW x \in ToSet(Kids[c]) PROVE c \notin Below(Kids, x)
    <3>1. c \in Below(Kids, Root)
      BY TheList
    <3> QED
      BY <3>1, TheList, NoCycle
  <2> QED
    BY <2>1, <2>2, <2>3 DEF ListIsSound, OnePlace
<1> QED
  BY InitTree, TreeStep, <1>1, PTL DEF Spec

LEMMA ParkStep ==
  ASSUME PlayheadMoves
  PROVE  TreeInv /\ ParkInv /\ [Next]_vars => ParkInv'
<1> SUFFICES ASSUME TreeInv, ParkInv, [Next]_vars PROVE ParkInv'
  OBVIOUS
<1>1. list \in Recorded /\ Top(list) /\ (Top(list) <=> PlayheadTopLevel)
  BY DEF Recorded, ParkInv, Top, PlayheadTopLevel, TopLevel, Kids
<1>2. ASSUME Recorded' \subseteq Recorded \cup {list'}, Top(list') PROVE ParkInv'
  BY <1>2 DEF ParkInv
<1>3. CASE BeginEdit
  BY <1>3, BeginEditTree DEF ParkInv
<1>4. CASE Undo \/ Redo
  BY <1>2, <1>4, UndoRedoTree
<1>5. CASE busy /\ Edits
  <2>1. Parks /\ past' = past /\ future' = future
    BY <1>5, EditTree
  <2>2. PlayheadTopLevel'
    BY <1>1, <2>1 DEF Parks
  <2>3. Top(list')
    BY <2>2 DEF Top, PlayheadTopLevel, TopLevel, Kids
  <2>4. Recorded' \subseteq Recorded \cup {list'}
    BY <2>1 DEF Recorded
  <2> QED
    BY <1>2, <2>3, <2>4
<1>6. CASE \/ EndEdit \/ Go
           \/ \E c \in Cue : SetPlayhead(c) \/ Start(c) \/ Finish(c) \/ GroupDone(c)
           \/ \E c \in Cue, f \in File : DecodeDone(c, f)
           \/ UNCHANGED vars
  <2>1. /\ Recorded' \subseteq Recorded \cup {list'} /\ list'.kids = list.kids
        /\ list'.playhead = list.playhead \/ Top(list')
    BY <1>6, OthersTree
  <2> QED
    BY <1>1, <1>2, <2>1 DEF Top
<1> QED
  BY <1>3, <1>4, <1>5, <1>6 DEF Next, Edits

\* Unless a group is made over it, or ungroup is asked of a cue there that is not a group,
\* the Playhead is on the top level, where a GO finds it, after every command and undo.
THEOREM PlayheadStaysTopLevel ==
  ASSUME "group_playhead" \notin Operator, "ungroup_playhead" \notin Operator
  PROVE  Spec => []PlayheadTopLevel
<1>1. TreeInv /\ ParkInv /\ [Next]_vars => TreeInv' /\ ParkInv'
  BY TreeStep, ParkStep DEF PlayheadMoves
<1>2. ParkInv => PlayheadTopLevel
  BY DEF ParkInv, Recorded, Top, PlayheadTopLevel, TopLevel, Kids
<1> QED
  BY InitTree, <1>1, <1>2, PTL DEF Spec

\* Then an undo puts back exactly the snapshot, and undo and redo walk along one line.
THEOREM UndoWalksHistory ==
  ASSUME "group_playhead" \notin Operator, "ungroup_playhead" \notin Operator
  PROVE  Spec => HistoryIsWalked
<1>1. TreeInv /\ ParkInv /\ [Next]_vars => TreeInv' /\ ParkInv'
  BY TreeStep, ParkStep DEF PlayheadMoves
<1>2. TreeInv /\ ParkInv /\ [Next]_vars => [Undo \/ Redo => Timeline' = Timeline]_vars
  BY UndoRedoTree
<1> QED
  BY InitTree, <1>1, <1>2, PTL DEF Spec, HistoryIsWalked

\* A rearrangement that succeeds loses no Audio Cue and brings none back; one that fails
\* with a cue in hand loses that cue and what is inside it, and no other.
THEOREM RearrangingLosesNothing == Spec => RearrangingKeepsCues
<1>1. TreeInv /\ Rearranges => AudioCues' = AudioCues
  <2>1. TreeInv /\ Rearranges => SameAudio
    BY RearrangesTree
  <2>2. ASSUME TreeInv, Rearranges
        PROVE  \A c \in Cue : kind'[c] = "audio" <=> kind[c] = "audio"
    <3>1. CASE \E g \in Cue, ids \in Selections : GroupCues(g, ids)
      <4>1. PICK g \in Unused : kind' = [kind EXCEPT ![g] = "group"]
        <5>1. PICK g \in Cue, ids \in Selections : GroupCues(g, ids)
          BY <3>1
        <5>2. Unused # {} /\ g = NewId /\ kind' = [kind EXCEPT ![g] = "group"]
          BY <5>1, Zenon DEF GroupCues
        <5>3. NewId \in Unused
          BY <5>2 DEF NewId
        <5> QED
          BY <5>2, <5>3
      <4>2. kind \in Kinds /\ kind[g] = "unused"
        BY <2>2, <4>1, TheList DEF Unused
      <4> QED
        BY <4>1, <4>2 DEF Kinds
    <3>2. CASE UNCHANGED kind
      BY <3>2
    <3> QED
      BY <2>2, <3>1, <3>2, Zenon
         DEF Rearranges, MoveCues, Ungroup, AddToGroup, LeaveGroup, ToTopLevel, Reorder
  <2>3. ASSUME TreeInv, Rearranges PROVE InList \subseteq Cue /\ InList' \subseteq Cue
    <3>1. list'.kids \in Hierarchy
      BY <2>3, RearrangesTree DEF TreeInv, TypeOK, Image, Hierarchy
    <3> QED
      BY <2>3, <3>1, TheList, RootIsOnTop DEF InList, Kids
  <2> QED
    BY <2>1, <2>2, <2>3 DEF SameAudio, AudioCues
<1>2. ASSUME TreeInv, NEW c \in Cue, Refused(c)
      PROVE  AudioCues' \subseteq AudioCues /\ AudioCues \ AudioCues' \subseteq Below(Kids, c)
  BY <1>2, RefusedTree DEF AudioCues
<1>3. TreeInv /\ [Next]_vars
        => [AudioCues' # AudioCues =>
              /\ ~Rearranges
              /\ \A c \in Cue : Refused(c) => /\ AudioCues' \subseteq AudioCues
                                              /\ AudioCues \ AudioCues' \subseteq Below(Kids, c)]_vars
  BY <1>1, <1>2
<1> QED
  BY InitTree, TreeStep, <1>3, PTL DEF Spec, RearrangingKeepsCues

LEMMA RemovedAreSilent ==
  ASSUME TreeInv, NEW S \in SUBSET Cue, RemoveCues(S),
         NEW c \in Sounding \cap (InList \ InList'),
         \A g \in InList : c \in Below(Kids, g) => g \in live
  PROVE  c \notin orphans'
<1>1. c \in live /\ kind[c] = "audio" /\ c \in InList /\ c \notin InList'
  BY DEF Sounding
<1>2. PICK s \in S : c \in Below(Kids, s)
  BY <1>1, RemoveTree
<1>3. s \in InList
  BY DEF RemoveCues
<1>4. Below(Kids, s) \subseteq InList
  <2>1. Below(Kids, s) \subseteq Below(Kids, Root) /\ Below(Kids, s) \subseteq Cue
    BY <1>3, TheList, Inside, RootIsOnTop DEF Place
  <2> QED
    BY <2>1, TheList
<1>5. c \in Silenced(S)
  BY <1>1, <1>2, <1>4 DEF Silenced, Stopped
<1>6. \E now : Forget(now, Silenced(S), Forgotten(S))
  BY DEF RemoveCues, Edit
<1> QED
  BY <1>5, <1>6 DEF Forget

\* A cue that is removed while the groups around it run has no voice left.
THEOREM RemovedCuesAreSilenced == Spec => RemovalSilences
<1>1. TreeInv /\ [Next]_vars
        => [\A c \in Sounding \cap (InList \ InList') :
              (c \in orphans' /\ \A g \in InList : c \in Below(Kids, g) => g \in live)
                => ~\E S \in SUBSET Cue : RemoveCues(S)]_vars
  BY RemovedAreSilent
<1> QED
  BY InitTree, TreeStep, <1>1, PTL DEF Spec, RemovalSilences
============================================================================
