-------------------------- MODULE ShowFiles_proofs --------------------------
(***************************************************************************)
(* Proofs about ShowFiles: what the recovery snapshot is worth, and that no *)
(* save costs a show file, for every set of files and every bound.          *)
(*                                                                          *)
(* SnapshotSafety is not inductive.  That the snapshot is current when the  *)
(* autosave thread rests needs what the thread has in hand, and that a      *)
(* revision it noted is never reached again by the same show (NotesInv);    *)
(* that owed work stays needs what the thread and the workspace have while  *)
(* it is owed (OwedInv).                                                    *)
(*                                                                          *)
(* The last part is about the copying of Collect and Save (CollectMedia).   *)
(***************************************************************************)
EXTENDS ShowFiles, CollectMedia, FiniteSetTheorems, WellFoundedInduction, TLAPS

Revision == 0..(MaxWork + 1)

Shows == [work : Work, path : Path \cup {NoPath}, modified : BOOLEAN, rev : Revision]
Threads == [at : {"sleep", "write", "clear"}, last : Revision \cup {NoRevision},
            disk : BOOLEAN, rev : Revision, snap : Snapshots]
Mains == [at : {"idle", "saving", "saved", "collecting", "closing"}, path : Path \cup {NoPath}]
Debts == [work : Work, is : BOOLEAN, taken : BOOLEAN]
Histories == [show : Nat, written : Nat, looked : Nat, starts : Nat, thrown : BOOLEAN,
              saved : Work, owed : Debts]

\* Every variable in its type.
TypeInv ==
  /\ up \in BOOLEAN /\ asks \in BOOLEAN /\ works \in Work /\ ws \in Shows
  /\ file \in [Path -> Work \cup {Absent, Torn}] /\ recovery \in Snapshots
  /\ thread \in Threads /\ main \in Mains /\ past \in Histories
  /\ main.at \in {"saving", "collecting"} => main.path \in Path

\* No work is greater than the last one made, and a revision is a change made; a process
\* that is down is at its start.
BoundInv ==
  /\ ws.rev <= works + 1
  /\ ws.work <= works /\ recovery.work <= works /\ thread.snap.work <= works
  /\ \A p \in Path : file[p] \in Work => file[p] <= works
  /\ ~up => ws = Untitled /\ thread = Asleep /\ main = Idle

\* What the autosave thread noted of the show in hand is not ahead of it, and what it
\* noted last, or is about to write, is what the show is if the show is at that revision.
NotesInv ==
  /\ past.written <= past.show /\ past.looked <= past.show
  /\ main.at = "saved" => ~ws.modified
  /\ past.written = past.show /\ thread.last # NoRevision => thread.last <= ws.rev
  /\ thread.at = "write" /\ past.looked = past.show =>
       /\ thread.rev <= ws.rev
       /\ ws.modified /\ thread.rev = ws.rev => thread.snap = Snapshot(ws)
  /\ ws.modified /\ thread.last = ws.rev /\ past.written = past.show =>
       /\ thread.at # "clear"
       /\ main.at # "closing" /\ ~past.thrown => recovery = Snapshot(ws)

\* While work is owed, the snapshot has it, and nothing is under way that takes it off: a
\* show that came of it is still unsaved, or the thread has nothing of its own on disk.
OwedInv ==
  past.owed.is =>
    /\ recovery.is /\ recovery.work >= past.owed.work
    /\ main.at \notin {"saved", "closing"}
    /\ IF past.owed.taken
       THEN /\ ws.modified /\ ws.work >= past.owed.work /\ thread.at # "clear"
            /\ thread.at = "write" => thread.snap.is /\ thread.snap.work >= past.owed.work
            \/ ~up
       ELSE ~ws.modified /\ ~thread.disk /\ thread.at = "sleep"

Inv == TypeInv /\ BoundInv /\ NotesInv /\ OwedInv

---------------------------------------------------------------------------
LEMMA Constant == Work \subseteq Nat /\ Revision \subseteq Nat /\ 0 \in Work /\ 0 \in Revision
                  /\ NoRevision \notin Revision /\ Torn \notin Work /\ Absent \notin Work
  BY FilesAssumption DEF Work, Revision, NoRevision, Torn, Absent

LEMMA Starting ==
  /\ Untitled \in Shows /\ Nothing \in Snapshots /\ Asleep \in Threads /\ Idle \in Mains
  /\ \A s \in Snapshots : Owes(s) \in Debts
<1>1. Untitled \in Shows /\ Idle \in Mains
  BY Constant DEF Untitled, Shows, Idle, Mains
<1>2. Nothing \in Snapshots
  BY Constant DEF Nothing, Snapshots
<1>3. Asleep \in Threads
  BY Constant, <1>2 DEF Asleep, Threads
<1>4. \A s \in Snapshots : Owes(s) \in Debts
  BY DEF Owes, Debts, Snapshots
<1> QED
  BY <1>1, <1>2, <1>3, <1>4

\* A changed show, and its snapshot.
LEMMA Changed ==
  ASSUME NEW w \in Shows, NEW k \in Work, w.rev + 1 \in Revision
  PROVE  /\ Modified(w, k) \in Shows
         /\ Modified(w, k).work = k /\ Modified(w, k).rev = w.rev + 1 /\ Modified(w, k).modified
         /\ Modified(w, k).path = w.path
  BY DEF Shows, Modified

LEMMA Pictured ==
  ASSUME NEW w \in Shows
  PROVE  Snapshot(w) \in Snapshots /\ Snapshot(w).work = w.work /\ Snapshot(w).is
  BY DEF Shows, Snapshot, Snapshots

\* History after a debt is let go of.
LEMMA Forgiven ==
  ASSUME NEW h \in Histories
  PROVE  /\ LetGo(h) \in Histories /\ ~LetGo(h).owed.is
         /\ LetGo(h).show = h.show /\ LetGo(h).written = h.written /\ LetGo(h).looked = h.looked
         /\ LetGo(h).thrown = h.thrown /\ LetGo(h).saved = h.saved
<1>1. Owes(Nothing) \in Debts /\ ~Owes(Nothing).is
  BY Starting DEF Owes, Nothing
<1> QED
  BY <1>1 DEF Histories, LetGo

\* What is a number.
LEMMA Numbers ==
  ASSUME TypeInv
  PROVE  /\ works \in Nat /\ ws.work \in Nat /\ ws.rev \in Revision /\ ws.rev \in Nat
         /\ recovery.work \in Nat /\ thread.snap.work \in Nat
         /\ thread.rev \in Nat /\ thread.last \in Nat
         /\ past.show \in Nat /\ past.written \in Nat /\ past.looked \in Nat
         /\ past.owed.work \in Nat
<1>1. works \in Nat /\ ws.work \in Nat /\ ws.rev \in Revision /\ ws.rev \in Nat
  BY Constant DEF TypeInv, Shows
<1>2. recovery.work \in Nat /\ thread.snap.work \in Nat
  BY Constant DEF TypeInv, Threads, Snapshots
<1>3. thread.rev \in Nat /\ thread.last \in Nat
  <2>1. thread.rev \in Revision /\ thread.last \in Revision \cup {NoRevision}
    BY DEF TypeInv, Threads
  <2>2. NoRevision \in Nat
    BY FilesAssumption DEF NoRevision
  <2> QED
    BY <2>1, <2>2, Constant
<1>4. /\ past.show \in Nat /\ past.written \in Nat /\ past.looked \in Nat
      /\ past.owed.work \in Nat
  BY Constant DEF TypeInv, Histories, Debts
<1> QED
  BY <1>1, <1>2, <1>3, <1>4

LEMMA InitInv == Init => Inv
<1> SUFFICES ASSUME Init PROVE Inv
  OBVIOUS
<1>1. past \in Histories /\ ~past.owed.is
  BY Starting, Constant DEF Init, Histories, Owes, Nothing
<1>2. TypeInv
  BY <1>1, Starting, Constant DEF Init, TypeInv, Idle
<1>3. BoundInv
  BY Constant DEF Init, BoundInv, Untitled, Nothing, Asleep
<1>4. NotesInv
  BY DEF Init, NotesInv, Untitled, Asleep, Idle
<1>5. OwedInv
  BY <1>1 DEF OwedInv
<1> QED
  BY <1>2, <1>3, <1>4, <1>5 DEF Inv

---------------------------------------------------------------------------
\* A change of the show: its revision is one that nobody has noted.
LEMMA EditInv == Inv /\ Edit => Inv'
<1> SUFFICES ASSUME Inv, Edit PROVE Inv'
  OBVIOUS
<1>1. /\ works + 1 \in Work /\ works' = works + 1 /\ ws' = Modified(ws, works + 1)
      /\ UNCHANGED <<up, file, recovery, main, thread, asks>> /\ up /\ main.at = "idle"
  BY FilesAssumption DEF Inv, TypeInv, Edit, Command, Work
<1>2. ws.rev + 1 \in Revision /\ ws.rev \in Revision
  BY FilesAssumption, <1>1 DEF Inv, TypeInv, BoundInv, Shows, Revision, Work
<1>3. /\ ws' \in Shows /\ ws'.work = works + 1 /\ ws'.rev = ws.rev + 1 /\ ws'.modified
  BY <1>1, <1>2, Changed DEF Inv, TypeInv
<1>4. /\ past' \in Histories /\ past'.show = past.show /\ past'.written = past.written
      /\ past'.looked = past.looked
      /\ past'.owed.is => past'.owed = past.owed /\ past.owed.taken
  <2>1. CASE past.owed.taken
    BY <2>1 DEF Edit, Inv, TypeInv, Histories
  <2>2. CASE ~past.owed.taken
    BY <2>2, Forgiven DEF Edit, Inv, TypeInv, Histories
  <2> QED
    BY <2>1, <2>2
<1>5. TypeInv'
  BY <1>1, <1>3, <1>4 DEF Inv, TypeInv
<1>6. BoundInv'
  <2>1. ASSUME NEW p \in Path, file[p] \in Work PROVE file[p] <= works + 1
    <3>1. file[p] \in Nat /\ file[p] <= works /\ works \in Nat
      BY <2>1, Numbers, Constant DEF Inv, BoundInv
    <3> QED
      BY <3>1
  <2> QED
    BY <2>1, <1>1, <1>3, Numbers DEF Inv, BoundInv
<1>7. NotesInv'
  <2>1. past.written = past.show => thread.last # ws.rev + 1
    <3>1. CASE thread.last = NoRevision
      BY <3>1, <1>2, Constant
    <3>2. CASE thread.last # NoRevision
      BY <3>2, <1>2, Numbers DEF Inv, NotesInv
    <3> QED
      BY <3>1, <3>2
  <2>2. thread.at = "write" /\ past.looked = past.show => thread.rev # ws.rev + 1
    BY Numbers DEF Inv, NotesInv
  <2> QED
    BY <2>1, <2>2, <1>1, <1>2, <1>3, <1>4, Numbers DEF Inv, NotesInv
<1>8. OwedInv'
  <2>1. CASE past'.owed.is
    BY <2>1, <1>1, <1>3, <1>4, Numbers DEF Inv, OwedInv, BoundInv
  <2> QED
    BY <2>1 DEF OwedInv
<1> QED
  BY <1>5, <1>6, <1>7, <1>8 DEF Inv

\* Another show is taken in hand: what was noted is not of this one, and nothing is owed.
LEMMA InstallInv ==
  ASSUME Inv, Command, NEW w \in Shows, Install(w), works' \in Work, works <= works',
         w.work <= works', w.rev <= works' + 1, asks' \in BOOLEAN
  PROVE  Inv'
<1>1. ws' = w /\ UNCHANGED <<up, file, recovery, main, thread>> /\ up /\ main.at = "idle"
  BY DEF Install, Command
<1>2. /\ past' \in Histories /\ past'.show = past.show + 1 /\ past'.written = past.written
      /\ past'.looked = past.looked /\ ~past'.owed.is
  <2> DEFINE h == LetGo(past)
  <2>1. /\ h \in Histories /\ h.show = past.show /\ h.written = past.written
        /\ h.looked = past.looked /\ ~h.owed.is
    BY Forgiven DEF Inv, TypeInv
  <2>2. past' = [h EXCEPT !.show = @ + 1, !.thrown = FALSE, !.saved = 0]
    BY DEF Install
  <2>3. h.show + 1 \in Nat
    BY <2>1 DEF Histories
  <2> HIDE DEF h
  <2> QED
    BY <2>1, <2>2, <2>3, Constant DEF Histories
<1>3. TypeInv'
  BY <1>1, <1>2 DEF Inv, TypeInv
<1>4. BoundInv'
  <2>1. ASSUME NEW p \in Path, file[p] \in Work PROVE file[p] <= works'
    <3>1. file[p] \in Nat /\ file[p] <= works /\ works \in Nat /\ works' \in Nat
      BY <2>1, Numbers, Constant DEF Inv, BoundInv
    <3> QED
      BY <3>1
  <2>2. works' \in Nat
    BY Constant
  <2> QED
    BY <2>1, <2>2, <1>1, Numbers DEF Inv, BoundInv
<1>5. NotesInv'
  BY <1>1, <1>2, Numbers DEF Inv, NotesInv
<1>6. OwedInv'
  BY <1>2 DEF OwedInv
<1> QED
  BY <1>3, <1>4, <1>5, <1>6 DEF Inv

LEMMA NewInv == Inv /\ NewWorkspace => Inv'
<1> SUFFICES ASSUME Inv, NewWorkspace PROVE Inv'
  OBVIOUS
<1>1. Untitled.work <= works /\ Untitled.rev <= works + 1
  BY Numbers DEF Inv, Untitled
<1> QED
  BY <1>1, InstallInv, Starting, Numbers DEF NewWorkspace, Inv, TypeInv

LEMMA LoadInv == ASSUME NEW p \in Path PROVE Inv /\ LoadWorkspace(p) => Inv'
<1> SUFFICES ASSUME Inv, LoadWorkspace(p) PROVE Inv'
  OBVIOUS
<1> DEFINE w == [Untitled EXCEPT !.work = file[p], !.path = p]
<1>1. w \in Shows /\ w.work = file[p] /\ w.rev = 0 /\ file[p] \in Work
  BY Constant DEF LoadWorkspace, Readable, Untitled, Shows
<1>2. w.work <= works /\ w.rev <= works + 1
  BY <1>1, Numbers DEF Inv, BoundInv
<1>3. /\ Command /\ Install(w) /\ works' \in Work /\ works' = works /\ asks' \in BOOLEAN
      /\ works \in Nat
  BY Numbers DEF LoadWorkspace, Inv, TypeInv
<1> HIDE DEF w
<1>4. works <= works' /\ w.work <= works' /\ w.rev <= works' + 1
  BY <1>2, <1>3
<1> QED
  BY <1>1, <1>3, <1>4, InstallInv

LEMMA ImportInv == Inv /\ ImportQlab => Inv'
<1> SUFFICES ASSUME Inv, ImportQlab PROVE Inv'
  OBVIOUS
<1> DEFINE w == Modified(Untitled, works + 1)
<1>1. works' = works + 1 /\ works + 1 \in Work
  BY FilesAssumption DEF ImportQlab, Inv, TypeInv, Work
<1>2. Untitled.rev + 1 \in Revision /\ Untitled.rev = 0
  BY FilesAssumption DEF Untitled, Revision
<1>3. w \in Shows /\ w.work = works + 1 /\ w.rev = 1
  BY <1>1, <1>2, Starting, Changed
<1>4. works <= works' /\ w.work <= works' /\ w.rev <= works' + 1
  BY <1>1, <1>3, Numbers DEF Inv
<1>5. Command /\ Install(w) /\ asks' \in BOOLEAN /\ works' \in Work
  BY <1>1 DEF ImportQlab, Inv, TypeInv
<1> QED
  BY <1>3, <1>4, <1>5, InstallInv DEF ImportQlab

---------------------------------------------------------------------------
\* The steps of a save: only the renaming changes the show, and it lets the debt go.
LEMMA SaveBeginsInv == ASSUME NEW p \in Path PROVE Inv /\ SaveBegins(p) => Inv'
<1> SUFFICES ASSUME Inv, SaveBegins(p) PROVE Inv'
  OBVIOUS
<1>1. /\ main' = [at |-> "saving", path |-> p] /\ up /\ main.at = "idle"
      /\ UNCHANGED <<up, ws, file, recovery, thread, asks, works, past>>
  BY DEF SaveBegins, BesideIt, Command
<1>2. TypeInv'
  BY <1>1 DEF Inv, TypeInv, Mains
<1>3. BoundInv' /\ NotesInv' /\ OwedInv'
  BY <1>1 DEF Inv, BoundInv, NotesInv, OwedInv
<1> QED
  BY <1>2, <1>3 DEF Inv

LEMMA SaveFailsInv == Inv /\ SaveFails => Inv'
<1> SUFFICES ASSUME Inv, SaveFails PROVE Inv'
  OBVIOUS
<1>1. /\ main' = Idle /\ up /\ main.at = "saving" /\ Idle.at = "idle"
      /\ UNCHANGED <<up, ws, file, recovery, thread, asks, works, past>>
  BY DEF SaveFails, Idle
<1>2. TypeInv'
  BY <1>1, Starting DEF Inv, TypeInv
<1>3. BoundInv' /\ NotesInv' /\ OwedInv'
  BY <1>1 DEF Inv, BoundInv, NotesInv, OwedInv
<1> QED
  BY <1>2, <1>3 DEF Inv

LEMMA SaveRenamesInv == Inv /\ SaveRenames => Inv'
<1> SUFFICES ASSUME Inv, SaveRenames PROVE Inv'
  OBVIOUS
<1>1. /\ main.at = "saving" /\ main.path \in Path /\ up
      /\ file' = [file EXCEPT ![main.path] = ws.work]
      /\ UNCHANGED <<up, recovery, thread, asks, works>>
  BY DEF SaveRenames, Inv, TypeInv
<1>2. main' \in Mains /\ main'.at = "saved"
  BY DEF SaveRenames, Inv, TypeInv, Mains
<1>3. /\ ws' \in Shows /\ ws'.work = ws.work /\ ws'.rev = ws.rev /\ ~ws'.modified
      /\ ws.work \in Work
  BY <1>1 DEF SaveRenames, Inv, TypeInv, Shows
<1>4. /\ past' \in Histories /\ past'.show = past.show /\ past'.written = past.written
      /\ past'.looked = past.looked /\ ~past'.owed.is
  <2> DEFINE h == LetGo(past)
  <2>1. /\ h \in Histories /\ h.show = past.show /\ h.written = past.written
        /\ h.looked = past.looked /\ ~h.owed.is
    BY Forgiven DEF Inv, TypeInv
  <2>2. past' = [h EXCEPT !.saved = ws.work]
    BY DEF SaveRenames
  <2> HIDE DEF h
  <2> QED
    BY <2>1, <2>2, <1>3 DEF Histories
<1>5. TypeInv'
  BY <1>1, <1>2, <1>3, <1>4 DEF Inv, TypeInv
<1>6. BoundInv'
  BY <1>1, <1>3, Numbers DEF Inv, BoundInv, TypeInv
<1>7. NotesInv'
  BY <1>1, <1>2, <1>3, <1>4 DEF Inv, NotesInv
<1>8. OwedInv'
  BY <1>4 DEF OwedInv
<1> QED
  BY <1>5, <1>6, <1>7, <1>8 DEF Inv

\* The snapshot goes when the show is saved: then nothing is unsaved, nothing owed.
LEMMA SaveEndsInv == Inv /\ SaveEnds => Inv'
<1> SUFFICES ASSUME Inv, SaveEnds PROVE Inv'
  OBVIOUS
<1>1. /\ main' = Idle /\ up /\ main.at = "saved" /\ Idle.at = "idle" /\ recovery' = Nothing
      /\ UNCHANGED <<up, ws, file, thread, asks, works, past>>
  BY DEF SaveEnds, Idle
<1>2. TypeInv'
  BY <1>1, Starting DEF Inv, TypeInv
<1>3. BoundInv'
  BY <1>1, Numbers DEF Inv, BoundInv, Nothing
<1>4. NotesInv' /\ OwedInv'
  BY <1>1 DEF Inv, NotesInv, OwedInv
<1> QED
  BY <1>2, <1>3, <1>4 DEF Inv

LEMMA CollectWritesInv == ASSUME NEW p \in Path PROVE Inv /\ CollectWrites(p) => Inv'
<1> SUFFICES ASSUME Inv, CollectWrites(p) PROVE Inv'
  OBVIOUS
<1>1. /\ main' = [at |-> "collecting", path |-> p] /\ up /\ main.at = "idle"
      /\ file' = [file EXCEPT ![p] = Torn]
      /\ UNCHANGED <<up, ws, recovery, thread, asks, works, past>>
  BY DEF CollectWrites, Command
<1>2. TypeInv'
  BY <1>1 DEF Inv, TypeInv, Mains
<1>3. BoundInv'
  BY <1>1, Constant DEF Inv, BoundInv, TypeInv
<1>4. NotesInv' /\ OwedInv'
  BY <1>1 DEF Inv, NotesInv, OwedInv
<1> QED
  BY <1>2, <1>3, <1>4 DEF Inv

LEMMA CollectEndsInv == Inv /\ CollectEnds => Inv'
<1> SUFFICES ASSUME Inv, CollectEnds PROVE Inv'
  OBVIOUS
<1>1. /\ main' = Idle /\ up /\ main.at = "collecting" /\ Idle.at = "idle" /\ main.path \in Path
      /\ file' = [file EXCEPT ![main.path] = ws.work] /\ ws.work \in Work
      /\ UNCHANGED <<up, ws, recovery, thread, asks, works, past>>
  BY DEF CollectEnds, Idle, Inv, TypeInv, Shows
<1>2. TypeInv'
  BY <1>1, Starting DEF Inv, TypeInv
<1>3. BoundInv'
  BY <1>1 DEF Inv, BoundInv, TypeInv
<1>4. NotesInv' /\ OwedInv'
  BY <1>1 DEF Inv, NotesInv, OwedInv
<1> QED
  BY <1>2, <1>3, <1>4 DEF Inv

---------------------------------------------------------------------------
\* The autosave thread looks: what it takes is the show as it is, what it notes is its
\* revision, and there is nothing of its own to clear while something is owed.
LEMMA LookInv == Inv /\ Look => Inv'
<1> SUFFICES ASSUME Inv, Look PROVE Inv'
  OBVIOUS
<1>1. up /\ thread.at = "sleep" /\ UNCHANGED <<up, ws, file, recovery, main, asks, works>>
  BY DEF Look
<1>2. CASE ~ws.modified
  <2>1. /\ thread' = [thread EXCEPT !.last = ws.rev,
                                    !.at = IF thread.disk THEN "clear" ELSE @]
        /\ past' = [past EXCEPT !.written = past.show]
    BY <1>2 DEF Look
  <2>2. /\ thread' \in Threads /\ thread'.last = ws.rev /\ thread'.at \in {"sleep", "clear"}
        /\ (~thread.disk => thread'.at = "sleep") /\ thread'.disk = thread.disk
        /\ thread'.snap = thread.snap
    BY <1>1, <2>1, Numbers DEF Inv, TypeInv, Threads
  <2>3. /\ past' \in Histories /\ past'.show = past.show /\ past'.written = past.show
        /\ past'.looked = past.looked /\ past'.owed = past.owed
    BY <2>1 DEF Inv, TypeInv, Histories
  <2>4. TypeInv'
    BY <1>1, <2>2, <2>3 DEF Inv, TypeInv
  <2>5. BoundInv'
    BY <1>1, <2>2 DEF Inv, BoundInv
  <2>6. NotesInv'
    BY <1>1, <1>2, <2>2, <2>3, Numbers DEF Inv, NotesInv
  <2>7. OwedInv'
    BY <1>1, <1>2, <2>2, <2>3 DEF Inv, OwedInv
  <2> QED
    BY <2>4, <2>5, <2>6, <2>7 DEF Inv
<1>3. CASE ws.modified
  <2>1. /\ thread' = [thread EXCEPT !.at = "write", !.rev = ws.rev, !.snap = Snapshot(ws)]
        /\ past' = [past EXCEPT !.looked = past.show] /\ ws.rev # thread.last
    BY <1>3 DEF Look
  <2>2. Snapshot(ws) \in Snapshots /\ Snapshot(ws).work = ws.work /\ Snapshot(ws).is
    BY Pictured DEF Inv, TypeInv
  <2>3. /\ thread' \in Threads /\ thread'.last = thread.last /\ thread'.at = "write"
        /\ thread'.rev = ws.rev /\ thread'.snap = Snapshot(ws)
    BY <2>1, <2>2, Numbers DEF Inv, TypeInv, Threads
  <2>4. /\ past' \in Histories /\ past'.show = past.show /\ past'.looked = past.show
        /\ past'.written = past.written /\ past'.owed = past.owed
    BY <2>1 DEF Inv, TypeInv, Histories
  <2>5. TypeInv'
    BY <1>1, <2>3, <2>4 DEF Inv, TypeInv
  <2>6. BoundInv'
    BY <1>1, <2>2, <2>3 DEF Inv, BoundInv
  <2>7. NotesInv'
    BY <1>1, <2>1, <2>3, <2>4, Numbers DEF Inv, NotesInv
  <2>8. OwedInv'
    BY <1>1, <1>3, <2>2, <2>3, <2>4 DEF Inv, OwedInv
  <2> QED
    BY <2>5, <2>6, <2>7, <2>8 DEF Inv
<1> QED
  BY <1>2, <1>3

\* A write that lands: the snapshot is what was looked at.
LEMMA WriteLandsInv == Inv /\ WriteLands => Inv'
<1> SUFFICES ASSUME Inv, WriteLands PROVE Inv'
  OBVIOUS
<1>1. /\ up /\ thread.at = "write" /\ recovery' = thread.snap
      /\ UNCHANGED <<up, ws, file, main, asks, works>>
  BY DEF WriteLands
<1>2. /\ thread' \in Threads /\ thread'.last = thread.rev /\ thread'.at = "sleep"
      /\ thread'.snap = Nothing
  BY Starting, Constant DEF WriteLands, Wrote, Inv, TypeInv, Threads
<1>3. /\ past' \in Histories /\ past'.show = past.show /\ past'.written = past.looked
      /\ past'.looked = 0 /\ past'.owed = past.owed /\ past'.thrown = past.thrown
  BY DEF WriteLands, Inv, TypeInv, Histories
<1>4. TypeInv'
  BY <1>1, <1>2, <1>3 DEF Inv, TypeInv, Threads
<1>5. BoundInv'
  BY <1>1, <1>2, Numbers DEF Inv, BoundInv, Nothing
<1>6. NotesInv'
  BY <1>1, <1>2, <1>3, Numbers DEF Inv, NotesInv
<1>7. OwedInv'
  BY <1>1, <1>2, <1>3 DEF Inv, OwedInv
<1> QED
  BY <1>4, <1>5, <1>6, <1>7 DEF Inv

LEMMA WriteFailsInv == Inv /\ WriteFails => Inv'
<1> SUFFICES ASSUME Inv, WriteFails PROVE Inv'
  OBVIOUS
<1>1. /\ up /\ thread.at = "write" /\ UNCHANGED <<up, ws, file, recovery, main, asks, works>>
  BY DEF WriteFails
<1>2. /\ thread' \in Threads /\ thread'.last = thread.last /\ thread'.at = "sleep"
      /\ thread'.snap = Nothing /\ thread'.disk = thread.disk
  BY Starting, Constant DEF WriteFails, NotWritten, Inv, TypeInv, Threads
<1>3. /\ past' \in Histories /\ past'.show = past.show /\ past'.written = past.written
      /\ past'.looked = 0 /\ past'.owed = past.owed /\ past'.thrown = past.thrown
  BY DEF WriteFails, Inv, TypeInv, Histories
<1>4. TypeInv'
  BY <1>1, <1>2, <1>3 DEF Inv, TypeInv
<1>5. BoundInv'
  BY <1>1, <1>2, Numbers DEF Inv, BoundInv, Nothing
<1>6. NotesInv'
  BY <1>1, <1>2, <1>3, Numbers DEF Inv, NotesInv
<1>7. OwedInv'
  BY <1>1, <1>2, <1>3 DEF Inv, OwedInv
<1> QED
  BY <1>4, <1>5, <1>6, <1>7 DEF Inv

\* The thread clears its file: never one that is owed.
LEMMA ClearInv == Inv /\ Clear => Inv'
<1> SUFFICES ASSUME Inv, Clear PROVE Inv'
  OBVIOUS
<1>1. /\ up /\ thread.at = "clear" /\ recovery' = Nothing
      /\ UNCHANGED <<up, ws, file, main, asks, works, past>>
  BY DEF Clear
<1>2. /\ thread' \in Threads /\ thread'.last = thread.last /\ thread'.at = "sleep"
      /\ thread'.snap = thread.snap
  BY DEF Clear, Inv, TypeInv, Threads
<1>3. TypeInv'
  BY <1>1, <1>2, Starting DEF Inv, TypeInv
<1>4. BoundInv'
  BY <1>1, <1>2, Numbers DEF Inv, BoundInv, Nothing
<1>5. NotesInv'
  BY <1>1, <1>2 DEF Inv, NotesInv
<1>6. OwedInv'
  BY <1>1 DEF Inv, OwedInv
<1> QED
  BY <1>3, <1>4, <1>5, <1>6 DEF Inv

---------------------------------------------------------------------------
\* A clean exit lets the debt go with the snapshot.
LEMMA CloseInv == Inv /\ CloseBegins => Inv'
<1> SUFFICES ASSUME Inv, CloseBegins PROVE Inv'
  OBVIOUS
<1>1. /\ up /\ recovery' = Nothing /\ UNCHANGED <<up, ws, file, thread, asks, works>>
  BY DEF CloseBegins, Command
<1>2. main' \in Mains /\ main'.at = "closing"
  BY Starting DEF CloseBegins, Mains, Idle
<1>3. /\ past' \in Histories /\ past'.show = past.show /\ past'.written = past.written
      /\ past'.looked = past.looked /\ ~past'.owed.is
  BY Forgiven DEF CloseBegins, Inv, TypeInv
<1>4. TypeInv'
  BY <1>1, <1>2, <1>3, Starting DEF Inv, TypeInv
<1>5. BoundInv'
  BY <1>1, Numbers DEF Inv, BoundInv, Nothing
<1>6. NotesInv'
  BY <1>1, <1>2, <1>3 DEF Inv, NotesInv
<1>7. OwedInv'
  BY <1>3 DEF OwedInv
<1> QED
  BY <1>4, <1>5, <1>6, <1>7 DEF Inv

\* The process goes down, at any step: what is on disk stays.
LEMMA DownInv == Inv /\ Down => Inv'
<1> SUFFICES ASSUME Inv, Down PROVE Inv'
  OBVIOUS
<1>1. /\ up' = FALSE /\ ws' = Untitled /\ main' = Idle /\ thread' = Asleep /\ asks' = FALSE
      /\ UNCHANGED <<file, recovery, works, past>>
  BY DEF Down
<1>2. /\ Untitled.work = 0 /\ Untitled.rev = 0 /\ ~Untitled.modified /\ Idle.at = "idle"
      /\ Asleep.at = "sleep" /\ ~Asleep.disk /\ Asleep.last = NoRevision /\ Asleep.snap.work = 0
  BY DEF Untitled, Idle, Asleep, Nothing
<1>3. TypeInv'
  BY <1>1, <1>2, Starting DEF Inv, TypeInv
<1>4. BoundInv'
  BY <1>1, <1>2, Numbers DEF Inv, BoundInv
<1>5. NotesInv'
  BY <1>1, <1>2 DEF Inv, NotesInv
<1>6. OwedInv'
  BY <1>1, <1>2 DEF Inv, OwedInv
<1> QED
  BY <1>3, <1>4, <1>5, <1>6 DEF Inv

\* The next session starts with the debt of the last: the snapshot it finds.
LEMMA StartInv == Inv /\ Start => Inv'
<1> SUFFICES ASSUME Inv, Start PROVE Inv'
  OBVIOUS
<1>1. /\ ~up /\ up' = TRUE /\ asks' = recovery.is /\ thread' = Asleep
      /\ UNCHANGED <<ws, file, recovery, main, works>>
  BY DEF Start, AtStart
<1>2. ws = Untitled /\ thread = Asleep /\ main = Idle
  BY <1>1 DEF Inv, BoundInv
<1>3. /\ ~Untitled.modified /\ Idle.at = "idle" /\ Asleep.at = "sleep" /\ ~Asleep.disk
      /\ Asleep.last = NoRevision
  BY DEF Untitled, Idle, Asleep
<1>4. /\ Owes(recovery) \in Debts /\ Owes(recovery).work = recovery.work
      /\ Owes(recovery).is = recovery.is /\ ~Owes(recovery).taken /\ recovery.is \in BOOLEAN
  BY Starting DEF Owes, Inv, TypeInv, Snapshots
<1>5. /\ past' \in Histories /\ past'.show = 0 /\ past'.written = 0 /\ past'.looked = 0
      /\ past'.owed = Owes(recovery)
  <2>1. past.starts + 1 \in Nat /\ past \in Histories
    BY DEF Inv, TypeInv, Histories
  <2> QED
    BY <2>1, <1>4, Constant DEF Start, Histories
<1>6. TypeInv'
  BY <1>1, <1>2, <1>4, <1>5, Starting DEF Inv, TypeInv
<1>7. BoundInv'
  BY <1>1, <1>2 DEF Inv, BoundInv
<1>8. NotesInv'
  BY <1>1, <1>2, <1>3, <1>5 DEF Inv, NotesInv
<1>9. OwedInv'
  BY <1>1, <1>2, <1>3, <1>4, <1>5, Numbers DEF Inv, OwedInv
<1> QED
  BY <1>6, <1>7, <1>8, <1>9 DEF Inv

\* The operator restores: from here on it is the unsaved show that carries the debt.
LEMMA RestoreInv == Inv /\ RestoreRecovery => Inv'
<1> SUFFICES ASSUME Inv, RestoreRecovery PROVE Inv'
  OBVIOUS
<1>1. /\ up /\ main.at = "idle" /\ asks' = FALSE
      /\ UNCHANGED <<up, file, recovery, main, thread, works>>
  BY DEF RestoreRecovery, Command
<1>2. CASE UNCHANGED <<ws, past>>
  BY <1>1, <1>2 DEF Inv, TypeInv, BoundInv, NotesInv, OwedInv
<1>3. CASE /\ ws' = Modified([Untitled EXCEPT !.path = recovery.path], recovery.work)
           /\ past' = [past EXCEPT !.show = @ + 1, !.thrown = FALSE, !.saved = 0,
                                   !.owed.taken = past.owed.is]
  <2> DEFINE w == [Untitled EXCEPT !.path = recovery.path]
  <2>1. /\ w \in Shows /\ w.rev = 0 /\ recovery.work \in Work
    BY Starting DEF Inv, TypeInv, Snapshots, Shows, Untitled
  <2>2. w.rev + 1 \in Revision /\ w.rev + 1 = 1
    BY <2>1, FilesAssumption DEF Revision
  <2>3. ws' = Modified(w, recovery.work)
    BY <1>3
  <2> HIDE DEF w
  <2>4. /\ ws' \in Shows /\ ws'.work = recovery.work /\ ws'.rev = 1 /\ ws'.modified
    BY <2>1, <2>2, <2>3, Changed
  <2>5. /\ past' \in Histories /\ past'.show = past.show + 1 /\ past'.written = past.written
        /\ past'.looked = past.looked
    <3>1. past \in Histories /\ past.show + 1 \in Nat
      BY DEF Inv, TypeInv, Histories
    <3> DEFINE o == [past.owed EXCEPT !.taken = past.owed.is]
    <3>2. o \in Debts
      BY <3>1 DEF Histories, Debts
    <3>3. past' = [past EXCEPT !.show = past.show + 1, !.thrown = FALSE, !.saved = 0, !.owed = o]
      BY <3>1, <1>3 DEF Histories, Debts
    <3> HIDE DEF o
    <3> QED
      BY <3>1, <3>2, <3>3, Constant DEF Histories
  <2>6. /\ past'.owed.is = past.owed.is /\ past'.owed.work = past.owed.work
        /\ past'.owed.taken = past.owed.is
    BY <1>3 DEF Inv, TypeInv, Histories, Debts
  <2>7. TypeInv'
    BY <1>1, <2>4, <2>5 DEF Inv, TypeInv
  <2>8. BoundInv'
    BY <1>1, <2>4, Numbers DEF Inv, BoundInv
  <2>9. NotesInv'
    BY <1>1, <2>4, <2>5, Numbers DEF Inv, NotesInv
  <2>10. OwedInv'
    BY <1>1, <2>4, <2>6, Numbers DEF Inv, OwedInv
  <2> QED
    BY <2>7, <2>8, <2>9, <2>10 DEF Inv
<1> QED
  BY <1>2, <1>3 DEF RestoreRecovery

LEMMA DiscardInv == Inv /\ DiscardRecovery => Inv'
<1> SUFFICES ASSUME Inv, DiscardRecovery PROVE Inv'
  OBVIOUS
<1>1. /\ up /\ main.at = "idle" /\ asks' = FALSE /\ recovery' = Nothing
      /\ UNCHANGED <<up, ws, file, main, thread, works>>
  BY DEF DiscardRecovery, Command
<1>2. /\ past' \in Histories /\ past'.show = past.show /\ past'.written = past.written
      /\ past'.looked = past.looked /\ ~past'.owed.is /\ past'.thrown
  <2> DEFINE h == LetGo(past)
  <2>1. /\ h \in Histories /\ h.show = past.show /\ h.written = past.written
        /\ h.looked = past.looked /\ ~h.owed.is
    BY Forgiven DEF Inv, TypeInv
  <2>2. past' = [h EXCEPT !.thrown = TRUE]
    BY DEF DiscardRecovery
  <2> HIDE DEF h
  <2> QED
    BY <2>1, <2>2 DEF Histories
<1>3. TypeInv'
  BY <1>1, <1>2, Starting DEF Inv, TypeInv
<1>4. BoundInv'
  BY <1>1, Numbers DEF Inv, BoundInv, Nothing
<1>5. NotesInv'
  BY <1>1, <1>2 DEF Inv, NotesInv
<1>6. OwedInv'
  BY <1>2 DEF OwedInv
<1> QED
  BY <1>3, <1>4, <1>5, <1>6 DEF Inv

---------------------------------------------------------------------------
LEMMA StepInv == Inv /\ [Next]_vars => Inv'
<1> SUFFICES ASSUME Inv, [Next]_vars PROVE Inv'
  OBVIOUS
<1>1. CASE MainStep
  BY <1>1, EditInv, NewInv, ImportInv, RestoreInv, DiscardInv, LoadInv, SaveBeginsInv,
     CollectWritesInv, SaveFailsInv, SaveRenamesInv, SaveEndsInv, CollectEndsInv, CloseInv
     DEF MainStep
<1>2. CASE ThreadStep
  BY <1>2, LookInv, WriteLandsInv, WriteFailsInv, ClearInv DEF ThreadStep
<1>3. CASE Exit \/ Crash
  BY <1>3, DownInv DEF Exit, Crash
<1>4. CASE Start
  BY <1>4, StartInv
<1>5. CASE UNCHANGED vars
  BY <1>5 DEF vars, Inv, TypeInv, BoundInv, NotesInv, OwedInv
<1> QED
  BY <1>1, <1>2, <1>3, <1>4, <1>5 DEF Next

LEMMA InvHolds == Spec => []Inv
  BY InitInv, StepInv, PTL DEF Spec

\* The recovery snapshot: every variable keeps its type; when the autosave thread rests,
\* what is not saved is in the snapshot with the file it belongs to; and what a crash left
\* there stays until the operator lets it go (lib.rs:270, recovery.rs, recovery_cmds.rs).
THEOREM SnapshotIsSafe == Spec => []SnapshotSafety
<1>1. Inv => SnapshotSafety
  <2> SUFFICES ASSUME Inv PROVE SnapshotSafety
    OBVIOUS
  <2>1. TypeOK
    BY DEF Inv, TypeInv, TypeOK, Shows, Threads, Mains, Revision
  <2>2. CaughtUp
    BY DEF Inv, NotesInv, CaughtUp, Confused
  <2>3. OwedWorkIsKept
    BY DEF Inv, OwedInv, OwedWorkIsKept
  <2> QED
    BY <2>1, <2>2, <2>3 DEF SnapshotSafety
<1> QED
  BY <1>1, InvHolds, PTL

\* A save that is interrupted at any step never costs the show file: only the copy of
\* Collect and Save, which is written in place, can be found torn (workspace.rs:560).
THEOREM SavesKeepTheFile == Spec => SavesAreWhole
<1> DEFINE Whole == \A p \in Path : file'[p] = Torn /\ file[p] # Torn => main'.at = "collecting"
<1>1. Inv /\ [Next]_vars => [Whole]_vars
  <2> SUFFICES ASSUME Inv, Next, NEW p \in Path, file'[p] = Torn, file[p] # Torn
               PROVE  main'.at = "collecting"
    OBVIOUS
  <2>1. CASE SaveRenames \/ CollectEnds
    BY <2>1, Constant DEF SaveRenames, CollectEnds, Inv, TypeInv, Shows
  <2>2. CASE \E q \in Path : CollectWrites(q)
    BY <2>2 DEF CollectWrites
  <2>3. CASE UNCHANGED file
    BY <2>3
  <2> QED
    BY <2>1, <2>2, <2>3 DEF Next, MainStep, ThreadStep, Exit, Crash, Down, Start, Edit,
       NewWorkspace, ImportQlab, LoadWorkspace, Install, RestoreRecovery, DiscardRecovery,
       SaveBegins, BesideIt, SaveFails, SaveEnds, CloseBegins, Look, WriteLands, WriteFails, Clear
<1> QED
  BY <1>1, InvHolds, PTL DEF Spec, SavesAreWhole

---------------------------------------------------------------------------
(***************************************************************************)
(* The copying that Collect and Save does before it writes its show file.  *)
(* It is a module of its own, with a state of its own: whatever shows and   *)
(* disks there are, nothing is overwritten and each cue finds its medium.   *)
(* A copy goes where there is no file, because a number that gives such a   *)
(* name is found before the numbers run out; so what a name leads to does   *)
(* not change once it is mapped.                                            *)
(***************************************************************************)

\* The files of a disk: finitely many, each in a place, and no two in the same.
Disk(d) ==
  /\ IsFiniteSet(DOMAIN d) /\ \A p \in DOMAIN d : IsPlace(p)
  /\ \A p, q \in DOMAIN d : SameFile(p, q) => p = q

Cues ==
  /\ Len(show) \in Nat /\ DOMAIN show = 1..Len(show) /\ left \subseteq Deduped(show)
  /\ \A i \in DOMAIN show : show[i].kind \in DOMAIN Sub /\ IsPlace(show[i].at)
Kept == DOMAIN before \subseteq DOMAIN disk /\ \A p \in DOMAIN before : disk[p] = before[p]
\* A name is taken by a file that is there.
Noted ==
  /\ used = [f \in Folders |-> used[f]]
  /\ \A f \in Folders : used[f] \subseteq { Lower(p[2]) : p \in DOMAIN disk }
\* What was mapped leads to the content that the medium had.
Led ==
  \A p \in DOMAIN to :
    /\ to[p][1] \in Folders /\ Exists(disk, to[p])
    /\ Exists(before, p) => Content(disk, to[p]) = Content(before, p)
\* What is no longer to be collected was mapped, or was never there.
Seen ==
  /\ \A i \in Deduped(show) \ left :
       show[i].at \in DOMAIN to \/ ~Exists(before, show[i].at)
  /\ done \in {"no", "yes", "failed"} /\ (done = "yes" => left = {})
Placed == \A p \in DOMAIN disk : p[1] \in Folders \/ p \in DOMAIN before
CopyInv == Disk(disk) /\ Cues /\ Kept /\ Noted /\ Led /\ Seen /\ Placed

LEMMA Least ==
  ASSUME NEW T \in SUBSET Nat, T # {}
  PROVE  \E x \in T : \A y \in T : x <= y
<1> DEFINE R == {p \in Nat \X Nat : p[1] < p[2]}
<1>1. R = OpToRel(<, Nat)
  BY DEF OpToRel
<1>2. IsWellFoundedOn(R, Nat)
  BY <1>1, NatLessThanWellFounded
<1>3. \E x \in T : \A y \in T : ~(<<y, x>> \in R)
  <2> HIDE DEF R
  <2> QED
    BY <1>2, WFMin
<1>4. \A x, y \in Nat : <<y, x>> \in R <=> y < x
  OBVIOUS
<1>5. \A x, y \in Nat : ~(y < x) => x <= y
  OBVIOUS
<1> QED
  <2> HIDE DEF R
  <2> QED
    BY <1>3, <1>4, <1>5


\* Being the same file is an equivalence.
LEMMA SameFileIs ==
  ASSUME NEW a, NEW b, NEW c
  PROVE  /\ SameFile(a, a) /\ (SameFile(a, b) => SameFile(b, a))
         /\ SameFile(a, b) /\ SameFile(b, c) => SameFile(a, c)
BY DEF SameFile

\* What a path leads to is the content of the one file that it names.
LEMMA ContentIs ==
  ASSUME NEW d, Disk(d), NEW p \in DOMAIN d, NEW place, SameFile(p, place)
  PROVE  Exists(d, place) /\ Content(d, place) = d[p]
<1>1. Exists(d, place)
  BY DEF Exists
<1>2. \A q \in DOMAIN d : SameFile(q, place) => q = p
  <2> SUFFICES ASSUME NEW q \in DOMAIN d, SameFile(q, place) PROVE q = p
    OBVIOUS
  <2>1. SameFile(q, p)
    BY SameFileIs
  <2> QED
    BY <2>1 DEF Disk
<1>3. (CHOOSE q \in DOMAIN d : SameFile(q, place)) = p
  BY <1>2
<1> QED
  BY <1>1, <1>3 DEF Content

\* The least of some naturals is one of them.
LEMMA MinIs ==
  ASSUME NEW S \in SUBSET Nat, S # {}
  PROVE  Min(S) \in S /\ \A n \in S : Min(S) <= n
<1>1. \E x \in S : \A y \in S : x <= y
  BY Least
<1> QED
  BY <1>1 DEF Min

\* Names that differ by their number differ whatever their case.
LEMMA NumberedApart ==
  ASSUME NEW name \in Names, NEW m \in Nat, NEW n \in Nat,
         Lower(Numbered(name, m)) = Lower(Numbered(name, n))
  PROVE  m = n
<1> DEFINE nums(k) == IF k = 0 THEN name.numbers ELSE Append(name.numbers, k)
<1>1. name.numbers \in Seq(Nat) /\ name = [stem |-> name.stem, numbers |-> name.numbers]
  BY DEF Names
<1>2. \A k \in Nat : Lower(Numbered(name, k)).numbers = nums(k)
  BY <1>1 DEF Lower, Numbered
<1>3. nums(m) = nums(n)
  BY <1>2
<1>4. Len(name.numbers) \in Nat
  BY <1>1
<1>5. \A k \in Nat \ {0} : /\ Len(nums(k)) = Len(name.numbers) + 1
                          /\ nums(k)[Len(name.numbers) + 1] = k
  BY <1>1
<1>6. Len(nums(0)) = Len(name.numbers)
  OBVIOUS
<1> QED
  <2> HIDE DEF nums
  <2>1. m = 0 <=> n = 0
    BY <1>3, <1>4, <1>5, <1>6
  <2> QED
    BY <2>1, <1>3, <1>5

\* A name that is not to be had is that of a file in the folder, but for its case.
LEMMA TakenByFile ==
  ASSUME CopyInv, NEW f \in Folders, NEW name, NEW source, ~Available(name, f, source)
  PROVE  \E p \in DOMAIN disk : Lower(p[2]) = Lower(name)
<1>1. CASE Lower(name) \in used[f]
  BY <1>1 DEF CopyInv, Noted
<1>2. CASE Exists(disk, <<f, name>>)
  BY <1>2 DEF Exists, SameFile
<1> QED
  BY <1>1, <1>2 DEF Available

\* Before the numbers run out one makes a name that is to be had: each of the others takes
\* a file of its own.
LEMMA UniqueIs ==
  ASSUME CopyInv, NEW f \in Folders, NEW name \in Names, NEW source
  PROVE  \E n \in Nat : /\ UniqueFilename(name, f, source) = Numbered(name, n)
                        /\ Available(Numbered(name, n), f, source)
<1> DEFINE K == Cardinality(DOMAIN disk) + Len(show)
           Good == { n \in 0..K : Available(Numbered(name, n), f, source) }
<1>1. /\ IsFiniteSet(DOMAIN disk) /\ Cardinality(DOMAIN disk) \in Nat
      /\ Len(show) \in Nat
  BY FS_CardinalityType DEF CopyInv, Disk, Cues
<1>2. K \in Nat /\ IsFiniteSet(0..K) /\ Cardinality(0..K) = K + 1
  <2>1. K \in Nat
    BY <1>1
  <2>2. \A k \in Nat : IsFiniteSet(0..k) /\ Cardinality(0..k) = k + 1
    BY FS_Interval
  <2> HIDE DEF K
  <2> QED
    BY <2>1, <2>2
<1>3. Good # {}
  <2> SUFFICES ASSUME Good = {} PROVE FALSE
    OBVIOUS
  <2> DEFINE by(n) == CHOOSE p \in DOMAIN disk :
                          Lower(p[2]) = Lower(Numbered(name, n))
             taking == [n \in 0..K |-> by(n)]
  <2>1. \A n \in 0..K : /\ by(n) \in DOMAIN disk
                        /\ Lower(by(n)[2]) = Lower(Numbered(name, n))
    <3> SUFFICES ASSUME NEW n \in 0..K
                 PROVE  /\ by(n) \in DOMAIN disk
                        /\ Lower(by(n)[2]) = Lower(Numbered(name, n))
      OBVIOUS
    <3>1. \E p \in DOMAIN disk : Lower(p[2]) = Lower(Numbered(name, n))
      BY TakenByFile
    <3> QED
      BY <3>1
  <2>2. taking \in [0..K -> DOMAIN disk]
    BY <2>1
  <2>3. PICK m \in 0..K, n \in 0..K : m # n /\ taking[m] = taking[n]
    <3> HIDE DEF taking
    <3>1. Cardinality(DOMAIN disk) < Cardinality(0..K)
      BY <1>1, <1>2
    <3> HIDE DEF K
    <3> QED
      BY <1>1, <1>2, <2>2, <3>1, FS_PigeonHole
  <2>4. by(m) = by(n)
    BY <2>3
  <2>5. Lower(Numbered(name, m)) = Lower(Numbered(name, n))
    BY <2>1, <2>4
  <2> QED
    <3> HIDE DEF by
    <3> QED
      BY <1>2, <2>3, <2>5, NumberedApart
<1>4. Good \in SUBSET Nat
  BY <1>2
<1>5. Min(Good) \in Good
  <2> HIDE DEF Good
  <2> QED
    BY <1>3, <1>4, MinIs
<1> QED
  <2>1. Min(Good) \in Nat /\ Available(Numbered(name, Min(Good)), f, source)
    BY <1>4, <1>5
  <2>2. UniqueFilename(name, f, source) = Numbered(name, Min(Good))
    BY DEF UniqueFilename
  <2> QED
    BY <2>1, <2>2

\* The medium that is collected next, and the name it gets.
LEMMA NextMedium ==
  ASSUME CopyInv, left # {}
  PROVE  /\ Min(left) \in DOMAIN show /\ Media = show[Min(left)]
         /\ Sub[Media.kind] \in Folders /\ IsPlace(Media.at)
         /\ \E n \in Nat : Name = Numbered(Media.at[2], n)
         /\ Available(Name, Sub[Media.kind], Media.at)
         /\ Name \in Names
<1>1. left \subseteq DOMAIN show /\ DOMAIN show \subseteq Nat
  BY DEF CopyInv, Cues, Deduped
<1>2. Min(left) \in left
  BY <1>1, MinIs
<1>3. Min(left) \in DOMAIN show /\ Media = show[Min(left)]
  BY <1>1, <1>2 DEF Media
<1>4. Media.kind \in DOMAIN Sub /\ IsPlace(Media.at)
  BY <1>3 DEF CopyInv, Cues
<1>5. Sub[Media.kind] \in Folders /\ Media.at[2] \in Names
  BY <1>4 DEF Folders, IsPlace
<1>6. PICK n \in Nat :
        /\ Name = Numbered(Media.at[2], n)
        /\ Available(Name, Sub[Media.kind], Media.at)
  BY <1>5, UniqueIs DEF Name
<1>7. Name \in Names
  <2> DEFINE orig == Media.at[2]
  <2>1. /\ orig.stem \in DOMAIN FoldOf /\ orig.numbers \in Seq(Nat)
        /\ orig = [stem |-> orig.stem, numbers |-> orig.numbers]
    BY <1>5 DEF Names
  <2>2. CASE n = 0
    BY <1>5, <1>6, <2>2 DEF Numbered
  <2>3. CASE n # 0
    <3>1. Name = [stem |-> orig.stem, numbers |-> Append(orig.numbers, n)]
      BY <1>6, <2>1, <2>3 DEF Numbered
    <3>2. Append(orig.numbers, n) \in Seq(Nat)
      BY <2>1
    <3> HIDE DEF orig
    <3> QED
      BY <2>1, <3>1, <3>2 DEF Names
  <2> QED
    BY <2>2, <2>3
<1> QED
  BY <1>3, <1>4, <1>5, <1>6, <1>7

LEMMA CopyStarts == Given /\ CopyInit => CopyInv
<1> SUFFICES ASSUME Given, CopyInit PROVE CopyInv
  OBVIOUS
<1>1. PICK there \in MediaFiles : before = [p \in there |-> p] /\ disk = before
  BY DEF CopyInit
<1>2. Disk(disk)
  BY <1>1 DEF Given, Disk
<1>3. Cues
  BY DEF Given, CopyInit, Cues
<1>4. Kept /\ Placed
  BY <1>1 DEF Kept, Placed
<1>5. Noted /\ Led /\ Seen
  BY DEF CopyInit, Noted, Led, Seen
<1> QED
  BY <1>2, <1>3, <1>4, <1>5 DEF CopyInv

\* A medium that is where its path says, or that is copied there, is mapped: what it is
\* mapped to leads to its content.  The name that it takes is that of a file.
LEMMA MediumMapped ==
  ASSUME CopyInv, Collecting, Disk(disk'), UNCHANGED <<show, before, done>>,
         DOMAIN disk \subseteq DOMAIN disk', \A p \in DOMAIN disk : disk'[p] = disk[p],
         NEW place, place = <<Sub[Media.kind], Name>>,
         Exists(disk, Media.at), Exists(disk', place),
         Content(disk', place) = Content(disk, Media.at),
         used' = Claimed, to' = Mapped, left' = left \ {Min(left)}
  PROVE  Cues' /\ Kept' /\ Noted' /\ Led' /\ Seen'
<1> DEFINE at == Media.at
<1>0. /\ Min(left) \in DOMAIN show /\ at = show[Min(left)].at
      /\ Sub[Media.kind] \in Folders /\ Name \in Names
  BY NextMedium DEF Collecting
<1>1. Cues'
  BY DEF CopyInv, Cues, Deduped
<1>2. Kept'
  BY DEF CopyInv, Kept
<1>3. Noted'
  <2>1. used' = [f \in Folders |-> used'[f]]
    BY DEF CopyInv, Noted, Claimed
  <2> SUFFICES ASSUME NEW f \in Folders, NEW n \in used'[f]
               PROVE  \E p \in DOMAIN disk' : n = Lower(p[2])
    BY <2>1 DEF Noted
  <2>2. CASE n \in used[f]
    BY <2>2 DEF CopyInv, Noted
  <2>3. CASE n \notin used[f]
    <3>1. n = Lower(Name)
      BY <2>3, <1>0 DEF CopyInv, Noted, Claimed
    <3>2. PICK p \in DOMAIN disk' : SameFile(p, place)
      BY DEF Exists
    <3> QED
      BY <3>1, <3>2 DEF SameFile
  <2> QED
    BY <2>2, <2>3
<1>4. Led'
  <2>1. DOMAIN to' = DOMAIN to \cup {at} /\ to'[at] = place
        /\ \A p \in DOMAIN to \ {at} : to'[p] = to[p]
    BY DEF Mapped
  <2>2. ASSUME NEW p \in DOMAIN to'
        PROVE  /\ to'[p][1] \in Folders /\ Exists(disk', to'[p])
               /\ Exists(before, p) => Content(disk', to'[p]) = Content(before, p)
    <3>1. CASE p = at
      <4>1. ASSUME Exists(before, at)
            PROVE  Content(disk, at) = Content(before, at)
        <5>1. PICK q \in DOMAIN before : SameFile(q, at)
          BY <4>1 DEF Exists
        <5>2. q \in DOMAIN disk /\ disk[q] = before[q] /\ Disk(disk)
          BY DEF CopyInv, Kept
        <5>3. Disk(before)
          BY FS_Subset DEF CopyInv, Kept, Disk
        <5> QED
          BY <5>1, <5>2, <5>3, ContentIs
      <4> QED
        BY <1>0, <2>1, <3>1, <4>1
    <3>2. CASE p # at
      <4>1. p \in DOMAIN to /\ to'[p] = to[p]
        BY <2>1, <3>2
      <4>2. to[p][1] \in Folders /\ Exists(disk, to[p])
            /\ (Exists(before, p) => Content(disk, to[p]) = Content(before, p))
        BY <4>1 DEF CopyInv, Led
      <4>3. PICK q \in DOMAIN disk : SameFile(q, to[p])
        BY <4>2 DEF Exists
      <4>4. Exists(disk', to[p]) /\ Content(disk', to[p]) = Content(disk, to[p])
        BY <4>3, ContentIs DEF CopyInv
      <4> QED
        BY <4>1, <4>2, <4>4
    <3> QED
      BY <3>1, <3>2
  <2> QED
    BY <2>2 DEF Led
<1>5. Seen'
  <2>1. DOMAIN to' = DOMAIN to \cup {at}
    BY DEF Mapped
  <2>2. \A i \in Deduped(show) \ left' : show[i].at \in DOMAIN to' \/ ~Exists(before, show[i].at)
    BY <1>0, <2>1 DEF CopyInv, Seen
  <2> QED
    BY <2>2 DEF CopyInv, Seen, Collecting
<1> QED
  BY <1>1, <1>2, <1>3, <1>4, <1>5

\* A copy goes to a new place and has the content of its source.
LEMMA CopiedIs ==
  ASSUME CopyInv, NEW place, IsPlace(place), ~Exists(disk, place),
         NEW from, disk' = Copied(place, from)
  PROVE  /\ DOMAIN disk' = DOMAIN disk \cup {place} /\ Disk(disk')
         /\ \A p \in DOMAIN disk : disk'[p] = disk[p]
         /\ Exists(disk', place) /\ Content(disk', place) = Content(disk, from)
<1>1. place \notin DOMAIN disk
  BY SameFileIs DEF Exists
<1>2. /\ DOMAIN disk' = DOMAIN disk \cup {place} /\ disk'[place] = Content(disk, from)
      /\ \A p \in DOMAIN disk : disk'[p] = disk[p]
  BY <1>1 DEF Copied
<1>3. Disk(disk')
  <2>1. IsFiniteSet(DOMAIN disk \cup {place})
    BY FS_AddElement DEF CopyInv, Disk
  <2>2. \A p, q \in DOMAIN disk \cup {place} : SameFile(p, q) => p = q
    BY SameFileIs DEF CopyInv, Disk, Exists
  <2> QED
    BY <1>2, <2>1, <2>2 DEF CopyInv, Disk
<1> QED
  BY <1>2, <1>3, ContentIs, SameFileIs

\* The invariant is kept by every step of the copying.
LEMMA CopyStep == CopyInv /\ [CopyNext]_(copyVars) => CopyInv'
<1> SUFFICES ASSUME CopyInv, [CopyNext]_(copyVars) PROVE CopyInv'
  OBVIOUS
<1>1. CASE UNCHANGED copyVars \/ CollectFails \/ ProjectWritten
  <2>1. /\ UNCHANGED <<show, disk, before, left, used, to>> /\ done' \in {"no", "yes", "failed"}
        /\ done' = "yes" => left = {}
    BY <1>1 DEF copyVars, CollectFails, ProjectWritten, CopyInv, Seen
  <2>2. Disk(disk') /\ Cues' /\ Kept' /\ Noted' /\ Led' /\ Placed'
    BY <2>1 DEF CopyInv, Cues, Kept, Noted, Led, Placed
  <2>3. Seen'
    BY <2>1 DEF CopyInv, Seen
  <2> QED
    BY <2>2, <2>3 DEF CopyInv
<1>2. CASE CollectMissing
  <2>1. /\ UNCHANGED <<show, disk, before, used, to, done>> /\ left' = left \ {Min(left)}
        /\ done = "no" /\ left # {} /\ ~Exists(disk, Media.at)
    BY <1>2 DEF CollectMissing, Collecting
  <2>2. Disk(disk') /\ Cues' /\ Kept' /\ Noted' /\ Led' /\ Placed'
    BY <2>1 DEF CopyInv, Cues, Kept, Noted, Led, Placed
  <2>3. ~Exists(before, Media.at)
    BY <2>1 DEF CopyInv, Kept, Exists
  <2>4. Media = show[Min(left)]
    BY <2>1, NextMedium
  <2>5. Seen'
    BY <2>1, <2>3, <2>4 DEF CopyInv, Seen
  <2> QED
    BY <2>2, <2>5 DEF CopyInv
<1>3. CASE CollectInPlace
  <2>1. /\ UNCHANGED <<show, disk, before, done>> /\ Collecting
        /\ Exists(disk, Media.at) /\ Media.at = <<Sub[Media.kind], Name>>
        /\ used' = Claimed /\ to' = Mapped /\ left' = left \ {Min(left)}
    BY <1>3 DEF CollectInPlace, Collecting
  <2>2. Disk(disk') /\ Placed'
    BY <2>1 DEF CopyInv, Placed
  <2>3. Cues' /\ Kept' /\ Noted' /\ Led' /\ Seen'
    BY <2>1, <2>2, MediumMapped
  <2> QED
    BY <2>2, <2>3 DEF CopyInv
<1>4. CASE CollectCopies
  <2> DEFINE place == <<Sub[Media.kind], Name>>
  <2>1. /\ UNCHANGED <<show, before, done>> /\ Collecting
        /\ Exists(disk, Media.at) /\ Media.at # place
        /\ disk' = Copied(place, Media.at)
        /\ used' = Claimed /\ to' = Mapped /\ left' = left \ {Min(left)}
    BY <1>4 DEF CollectCopies, Collecting
  <2>2. IsPlace(place) /\ ~Exists(disk, place) /\ place[1] \in Folders
    <3>1. /\ Sub[Media.kind] \in Folders /\ Name \in Names
          /\ Available(Name, Sub[Media.kind], Media.at)
      BY <2>1, NextMedium DEF Collecting
    <3> QED
      BY <2>1, <3>1 DEF IsPlace, Available
  <2>3. /\ DOMAIN disk' = DOMAIN disk \cup {place} /\ Disk(disk')
        /\ \A p \in DOMAIN disk : disk'[p] = disk[p]
        /\ Exists(disk', place)
        /\ Content(disk', place) = Content(disk, Media.at)
    BY <2>1, <2>2, CopiedIs
  <2>4. Placed'
    BY <2>1, <2>2, <2>3 DEF CopyInv, Placed
  <2>5. Cues' /\ Kept' /\ Noted' /\ Led' /\ Seen'
    BY <2>1, <2>3, MediumMapped
  <2> QED
    BY <2>3, <2>4, <2>5 DEF CopyInv
<1> QED
  BY <1>1, <1>2, <1>3, <1>4 DEF CopyNext

\* A cue's path is that of the first cue that has it.
LEMMA FirstOfPath ==
  ASSUME CopyInv, NEW i \in DOMAIN show
  PROVE  \E j \in Deduped(show) : show[j].at = show[i].at
<1> DEFINE S == { j \in DOMAIN show : show[j].at = show[i].at }
<1>1. S \in SUBSET Nat /\ S # {} /\ DOMAIN show = 1..Len(show) /\ Len(show) \in Nat
  BY DEF CopyInv, Cues
<1>2. PICK j \in S : \A k \in S : j <= k
  <2> HIDE DEF S
  <2> QED
    BY <1>1, Least
<1>3. \A k \in 1..(j - 1) : k \in DOMAIN show /\ ~(j <= k)
  BY <1>1, <1>2
<1>4. \A k \in 1..(j - 1) : show[k].at # show[i].at
  BY <1>2, <1>3
<1> QED
  BY <1>2, <1>4 DEF Deduped

\* The invariant holds what is promised of the project.
LEMMA CopyKeepsAll == CopyInv => CollectIsSafe
<1> SUFFICES ASSUME CopyInv PROVE CollectIsSafe
  OBVIOUS
<1>1. CopyTypeOK
  BY DEF CopyInv, Placed, Noted, Led, Seen, CopyTypeOK
<1>2. NothingOverwritten
  BY DEF CopyInv, Kept, NothingOverwritten
<1>3. EveryMediumTaken
  <2> SUFFICES ASSUME done = "yes", NEW i \in DOMAIN show, Exists(before, show[i].at)
               PROVE  Taken(show[i]) = Content(before, show[i].at)
    BY DEF EveryMediumTaken
  <2> DEFINE at == show[i].at
  <2>1. at \in DOMAIN to
    BY FirstOfPath DEF CopyInv, Seen
  <2>2. /\ to[at][1] \in Folders /\ Exists(disk, to[at])
        /\ Content(disk, to[at]) = Content(before, at)
    BY <2>1 DEF CopyInv, Led
  <2>3. PICK q \in DOMAIN disk : SameFile(q, to[at])
    BY <2>2 DEF Exists
  <2>4. q \in DOMAIN Elsewhere /\ Elsewhere[q] = disk[q]
    BY <2>2, <2>3 DEF Elsewhere, SameFile
  <2>5. Disk(Elsewhere)
    <3>1. DOMAIN Elsewhere \subseteq DOMAIN disk
      BY DEF Elsewhere
    <3> QED
      BY <3>1, FS_Subset DEF CopyInv, Disk
  <2>6. Content(Elsewhere, to[at]) = Content(disk, to[at])
    BY <2>3, <2>4, <2>5, ContentIs DEF CopyInv
  <2>7. Taken(show[i]) = Content(Elsewhere, to[at])
    BY <2>1, <2>2 DEF Taken, Stored, Relative, Remapped, Opened
  <2> QED
    BY <2>2, <2>6, <2>7
<1> QED
  BY <1>1, <1>2, <1>3 DEF CollectIsSafe

\* Collect and Save overwrites no file, and takes every medium that was there with the
\* project, under whatever name: for any shows, files, kinds of media and folders, on
\* disks that fold the case of names and on those that do not.
THEOREM CollectingIsSafe == CopySpec => []CollectIsSafe
<1>1. CopyInit => CopyInv
  BY CollectAssumption, CopyStarts
<1> QED
  BY <1>1, CopyStep, CopyKeepsAll, PTL DEF CopySpec
=============================================================================
