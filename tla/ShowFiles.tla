------------------------------ MODULE ShowFiles ------------------------------
(***************************************************************************)
(* The show in memory and its files.  A save writes beside the show file    *)
(* and renames; while there is unsaved work the autosave thread keeps a      *)
(* snapshot of it, with the lock let go between the look at the workspace     *)
(* and the write; a session that ends in a crash leaves the snapshot to the   *)
(* next, which offers it.  The commands run one after the other on the main   *)
(* thread, the autosave thread beside it; the process may die at any step.    *)
(*                                                                          *)
(* What a show contains is a number, its work: greater is later, 0 is the    *)
(* empty show.  Bounds: MaxWork changes of a show, MaxShows shows taken in    *)
(* hand, Sessions starts of the program.                                      *)
(***************************************************************************)
EXTENDS Naturals

CONSTANTS Path,                         \* the show files
          MaxWork, MaxShows, Sessions
ASSUME FilesAssumption == MaxWork \in Nat /\ MaxShows \in Nat /\ Sessions \in Nat /\ Sessions > 0

Work == 0..MaxWork
Absent == MaxWork + 1
Torn == MaxWork + 2                     \* a file whose writing was interrupted
NoPath == "no path"
ASSUME NoPathIsNoPath == NoPath \notin Path

Nothing == [work |-> 0, path |-> NoPath, is |-> FALSE]
Snapshots == [work : Work, path : Path \cup {NoPath}, is : BOOLEAN]
Snapshot(w) == [work |-> w.work, path |-> w.path, is |-> TRUE]

VARIABLES
  up,        \* the process runs
  ws,        \* the workspace: work, file_path, is_modified, revision
  file,      \* what the show files contain
  recovery,  \* recovery.inkue
  main,      \* the command the main thread is in
  thread,    \* the autosave thread: where it is, last_rev, on_disk, what it writes
  asks,      \* the recovery dialog is up
  works,     \* the last work made
  past       \* history: which show the workspace is (show); which one last_rev is of, and
             \* the snapshot in hand (written, looked); starts of the program; whether the
             \* snapshot of this revision was thrown away (thrown); what was last saved of
             \* this show (saved); the work found at a start that the operator has not let
             \* go of (owed, taken up or not)
vars == <<up, ws, file, recovery, main, thread, asks, works, past>>

---------------------------------------------------------------------------
Untitled == [work |-> 0, path |-> NoPath, modified |-> FALSE, rev |-> 0]
NoRevision == MaxWork + 2               \* u64::MAX: of no show
Asleep == [at |-> "sleep", last |-> NoRevision, disk |-> FALSE, rev |-> 0, snap |-> Nothing]
Idle == [at |-> "idle", path |-> NoPath]
Owes(s) == [work |-> s.work, is |-> s.is, taken |-> FALSE]

Init ==
  /\ up = TRUE /\ ws = Untitled /\ file = [p \in Path |-> Absent] /\ recovery = Nothing
  /\ main = Idle /\ thread = Asleep /\ asks = FALSE /\ works = 0
  /\ past = [show |-> 0, written |-> 0, looked |-> 0, starts |-> 1, thrown |-> FALSE, saved |-> 0, owed |-> Owes(Nothing)]

\* mark_modified.
Modified(w, work) == [w EXCEPT !.work = work, !.modified = TRUE, !.rev = @ + 1]
LetGo(h) == [h EXCEPT !.owed = Owes(Nothing)]

\* A command begins.  It holds the workspace from Writing to its end.
Command == up /\ main.at = "idle"
Locked == main.at \in {"saving", "collecting"}

\* Any command that changes the show.  (The dialog does not stop the keyboard.)
Edit ==
  /\ Command /\ works < MaxWork
  /\ works' = works + 1 /\ ws' = Modified(ws, works + 1)
  /\ past' = [(IF past.owed.taken THEN past ELSE LetGo(past)) EXCEPT !.thrown = FALSE]
  /\ UNCHANGED <<up, file, recovery, main, thread, asks>>

\* Another show is taken in hand.
Install(loaded) ==
  /\ past.show < MaxShows
  /\ ws' = loaded
  /\ past' = [LetGo(past) EXCEPT !.show = @ + 1, !.thrown = FALSE, !.saved = 0]
  /\ UNCHANGED <<up, file, recovery, main, thread>>

NewWorkspace == Command /\ Install(Untitled) /\ UNCHANGED <<asks, works>>

\* from_json_str: what is no whole document is refused.
Readable(p) == file[p] \in Work
LoadWorkspace(p) ==
  /\ Command /\ Readable(p)
  /\ Install([Untitled EXCEPT !.work = file[p], !.path = p]) /\ UNCHANGED <<asks, works>>

\* An imported show has no file yet.
ImportQlab ==
  /\ Command /\ works < MaxWork /\ works' = works + 1
  /\ Install(Modified(Untitled, works + 1)) /\ UNCHANGED asks

---------------------------------------------------------------------------
(***************************************************************************)
(* Saving.                                                                  *)
(***************************************************************************)
\* Mutant of BesideIt: the show file itself is written.
OverIt(p) == [file EXCEPT ![p] = Torn]
\* The temporary file takes the damage of an interrupted write.
BesideIt(p) == file

SaveBegins(p) ==
  /\ Command /\ main' = [at |-> "saving", path |-> p] /\ file' = BesideIt(p)
  /\ UNCHANGED <<up, ws, recovery, thread, asks, works, past>>
SaveFails ==
  /\ up /\ main.at = "saving" /\ main' = Idle
  /\ UNCHANGED <<up, ws, file, recovery, thread, asks, works, past>>
SaveRenames ==
  /\ up /\ main.at = "saving" /\ main' = [main EXCEPT !.at = "saved"]
  /\ file' = [file EXCEPT ![main.path] = ws.work]
  /\ ws' = [ws EXCEPT !.path = main.path, !.modified = FALSE]
  /\ past' = [LetGo(past) EXCEPT !.saved = ws.work]
  /\ UNCHANGED <<up, recovery, thread, asks, works>>
\* The snapshot is dropped after the workspace has been let go.
SaveEnds ==
  /\ up /\ main.at = "saved" /\ main' = Idle /\ recovery' = Nothing
  /\ UNCHANGED <<up, ws, file, thread, asks, works, past>>

\* collect_and_save writes its copy in place, after the media.
CollectWrites(p) ==
  /\ Command /\ main' = [at |-> "collecting", path |-> p] /\ file' = [file EXCEPT ![p] = Torn]
  /\ UNCHANGED <<up, ws, recovery, thread, asks, works, past>>
CollectEnds ==
  /\ up /\ main.at = "collecting" /\ main' = Idle
  /\ file' = [file EXCEPT ![main.path] = ws.work]
  /\ UNCHANGED <<up, ws, recovery, thread, asks, works, past>>

---------------------------------------------------------------------------
(***************************************************************************)
(* The autosave thread.                                                     *)
(***************************************************************************)
Look ==
  /\ up /\ thread.at = "sleep" /\ ~Locked
  /\ \/ /\ ~ws.modified
        /\ thread' = [thread EXCEPT !.last = ws.rev, !.at = IF thread.disk THEN "clear" ELSE @]
        /\ past' = [past EXCEPT !.written = past.show]
     \/ /\ ws.modified /\ ws.rev # thread.last
        /\ thread' = [thread EXCEPT !.at = "write", !.rev = ws.rev, !.snap = Snapshot(ws)]
        /\ past' = [past EXCEPT !.looked = past.show]
  /\ thread' # thread
  /\ UNCHANGED <<up, ws, file, recovery, main, asks, works>>

\* Mutant of Wrote: the thread does not note that the file is its own.
WroteUnnoted == [thread EXCEPT !.at = "sleep", !.last = thread.rev, !.rev = 0, !.snap = Nothing]
Wrote == [thread EXCEPT !.at = "sleep", !.last = thread.rev, !.disk = TRUE, !.rev = 0, !.snap = Nothing]
\* recovery::write ends with a rename, or has changed nothing.
WriteLands ==
  /\ up /\ thread.at = "write" /\ thread' = Wrote
  /\ recovery' = thread.snap /\ past' = [past EXCEPT !.written = past.looked, !.looked = 0]
  /\ UNCHANGED <<up, ws, file, main, asks, works>>

\* Mutant of NotWritten: the revision counts as written.
NotWrittenButCounted == [Wrote EXCEPT !.disk = thread.disk]
NotWritten == [thread EXCEPT !.at = "sleep", !.rev = 0, !.snap = Nothing]
WriteFails ==
  /\ up /\ thread.at = "write" /\ thread' = NotWritten
  /\ past' = [past EXCEPT !.looked = 0]
  /\ UNCHANGED <<up, ws, file, recovery, main, asks, works>>

Clear ==
  /\ up /\ thread.at = "clear"
  /\ thread' = [thread EXCEPT !.at = "sleep", !.disk = FALSE] /\ recovery' = Nothing
  /\ UNCHANGED <<up, ws, file, main, asks, works, past>>

---------------------------------------------------------------------------
(***************************************************************************)
(* The end of a session and the start of the next.                          *)
(***************************************************************************)
CloseBegins ==
  /\ Command /\ main' = [Idle EXCEPT !.at = "closing"] /\ recovery' = Nothing
  /\ past' = LetGo(past)
  /\ UNCHANGED <<up, ws, file, thread, asks, works>>
Down == /\ up' = FALSE /\ ws' = Untitled /\ main' = Idle /\ thread' = Asleep /\ asks' = FALSE
        /\ UNCHANGED <<file, recovery, works, past>>
Exit == up /\ main.at = "closing" /\ Down
Crash == up /\ main.at # "closing" /\ past.starts < Sessions /\ Down

AtStart == Asleep
Start ==
  /\ ~up /\ past.starts < Sessions /\ up' = TRUE
  /\ asks' = recovery.is /\ thread' = AtStart
  /\ past' = [past EXCEPT !.starts = @ + 1, !.show = 0, !.written = 0, !.looked = 0, !.thrown = FALSE,
                            !.saved = 0,
                            !.owed = Owes(recovery)]
  /\ UNCHANGED <<ws, file, recovery, main, works>>

\* The snapshot stays on disk until the next save or clean exit.
RestoreRecovery ==
  /\ Command /\ asks /\ asks' = FALSE
  /\ \/ /\ recovery.is /\ past.show < MaxShows
        /\ ws' = Modified([Untitled EXCEPT !.path = recovery.path], recovery.work)
        /\ past' = [past EXCEPT !.show = @ + 1, !.thrown = FALSE, !.saved = 0, !.owed.taken = past.owed.is]
     \/ UNCHANGED <<ws, past>>
  /\ UNCHANGED <<up, file, recovery, main, thread, works>>
DiscardRecovery ==
  /\ Command /\ asks /\ asks' = FALSE /\ recovery' = Nothing /\ past' = [LetGo(past) EXCEPT !.thrown = TRUE]
  /\ UNCHANGED <<up, ws, file, main, thread, works>>

MainStep == \/ Edit \/ NewWorkspace \/ ImportQlab \/ RestoreRecovery \/ DiscardRecovery
            \/ \E p \in Path : LoadWorkspace(p) \/ SaveBegins(p) \/ CollectWrites(p)
            \/ SaveFails \/ SaveRenames \/ SaveEnds \/ CollectEnds \/ CloseBegins
ThreadStep == Look \/ WriteLands \/ WriteFails \/ Clear
Next == MainStep \/ ThreadStep \/ Exit \/ Crash \/ Start
Spec == Init /\ [][Next]_vars

\* The main thread finishes what it began and the autosave thread looks again and
\* again, between commands if not during them; a disk that is written to over and over takes it in the end.
Fairness ==
  /\ WF_vars(SaveFails \/ SaveRenames) /\ WF_vars(SaveEnds) /\ WF_vars(CollectEnds) /\ WF_vars(Exit)
  /\ SF_vars(Look) /\ WF_vars(WriteLands \/ WriteFails) /\ SF_vars(WriteLands) /\ WF_vars(Clear)
FairSpec == Spec /\ Fairness

---------------------------------------------------------------------------
TypeOK ==
  /\ up \in BOOLEAN /\ asks \in BOOLEAN /\ works \in Work
  /\ ws \in [work : Work, path : Path \cup {NoPath}, modified : BOOLEAN, rev : 0..(MaxWork + 1)]
  /\ file \in [Path -> Work \cup {Absent, Torn}]
  /\ recovery \in Snapshots /\ thread.snap \in Snapshots
  /\ thread.at \in {"sleep", "write", "clear"} /\ thread.disk \in BOOLEAN
  /\ thread.last \in 0..(MaxWork + 1) \cup {NoRevision}
  /\ main.at \in {"idle", "saving", "saved", "collecting", "closing"}
  /\ main.path \in Path \cup {NoPath}

\* Two shows may have the same revision: the thread then takes the one for the other, and
\* the code loses sight of unsaved work.  The properties say what holds outside of this.
Confused == thread.last = ws.rev /\ past.written # past.show

\* When the autosave thread has nothing to do, what is not saved is in the snapshot, with
\* the file it belongs to: a write that failed is tried again, and no save, restore or
\* opening leaves the thread with the idea that something older is what it has to keep.
\* (Unless two shows have the same revision, or the operator discarded the snapshot
\* after having worked under the dialog.)
CaughtUp ==
  up /\ main.at = "idle" /\ ws.modified /\ thread.at = "sleep" /\ thread.last = ws.rev
    /\ ~Confused /\ ~past.thrown
  => recovery = Snapshot(ws)

\* An interrupted save never costs the show file: only the copy that collect_and_save
\* writes in place can be found torn.
SavesAreWhole == [][\A p \in Path : file'[p] = Torn /\ file[p] # Torn => main'.at = "collecting"]_vars

\* Work that a crash left in the snapshot is there for the next session until the
\* operator lets it go: while the dialog is up, and once it is restored (itself, or what
\* came of it) until it is saved.
OwedWorkIsKept ==
  past.owed.is => recovery.is /\ recovery.work >= past.owed.work

\* The snapshot has nothing that the operator has not saved.
Stale == recovery.is /\ past.saved # 0 /\ past.saved >= recovery.work
\* A write that lands after the save that overtook it is put right: a snapshot that would
\* only offer what is saved, or less, does not stay.
StaleGoes == up /\ Stale ~> ~up \/ ~Stale \/ Confused

\* "While a show has unsaved changes, the autosave thread writes the current workspace
\* to recovery.inkue every few seconds": unsaved work comes into the snapshot.
WorkIsKept ==
  \A w \in 1..MaxWork :
    up /\ ws.modified /\ ws.work = w ~>
      ~up \/ main.at = "closing" \/ ws.work # w \/ ~ws.modified \/ recovery = Snapshot(ws) \/ Confused \/ past.thrown

\* What the recovery snapshot is worth, in one.
SnapshotSafety == TypeOK /\ CaughtUp /\ OwedWorkIsKept
SnapshotFollows == StaleGoes /\ WorkIsKept
=============================================================================
