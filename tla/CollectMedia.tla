----------------------------- MODULE CollectMedia -----------------------------
(***************************************************************************)
(* Collect and Save: the media of a show are copied, one after the other,   *)
(* into the folders of a project, and a show file is written there whose    *)
(* paths are relative to it.  Meanwhile the show in memory is not touched.  *)
(* Nothing may be overwritten, no two media may come to share a file, and    *)
(* the project has to open anywhere.                                        *)
(*                                                                          *)
(* A place is a folder and a name; a name is a stem with the numbers that    *)
(* were added to it; what a file contains is the place it was first at.      *)
(* Cues are numbered as they come in the show, and media by their first cue. *)
(* Bounds: the shows in CollectedShows, the files in MediaFiles.             *)
(* The names of the specification begin with Copy: it is read beside         *)
(* ShowFiles, where CollectWrites stands for what comes after the copying.   *)
(***************************************************************************)
EXTENDS Naturals, Sequences, FiniteSets, FiniteSetsExt

CONSTANTS CollectedShows,   \* sequences of cues [kind, at]
          MediaFiles,       \* sets of places that have a file
          Sub,              \* the project's folder for the media of a kind
          FoldOf,           \* the lower case of a stem
          Folds             \* TRUE where file names differ by more than case
None == <<"nothing">>
Folders == { Sub[k] : k \in DOMAIN Sub }
Names == [stem : DOMAIN FoldOf, numbers : Seq(Nat)]
IsPlace(p) == p = <<p[1], p[2]>> /\ p[2] \in Names

---------------------------------------------------------------------------
Lower(name) == [name EXCEPT !.stem = FoldOf[@]]
\* The files a path names: on most systems case does not matter.
SameFile(a, b) == a[1] = b[1] /\ (a[2] = b[2] \/ (Folds /\ Lower(a[2]) = Lower(b[2])))
\* What is given: the cues of a show in their order, and disks on which no two files
\* have names that are the same there.
Given ==
  /\ \A s \in CollectedShows :
       /\ Len(s) \in Nat /\ DOMAIN s = 1..Len(s)
       /\ \A i \in DOMAIN s : s[i].kind \in DOMAIN Sub /\ IsPlace(s[i].at)
  /\ \A there \in MediaFiles :
       /\ IsFiniteSet(there) /\ \A p \in there : IsPlace(p)
       /\ \A p, q \in there : SameFile(p, q) => p = q
ASSUME CollectAssumption == Given

VARIABLES show, disk, before,   \* the cues; the files now and at the start
          left,                 \* the media still to be collected
          used, to,             \* the names taken, by folder; path_map
          missing, done         \* files_missing; where the command is
copyVars == <<show, disk, before, left, used, to, missing, done>>

Exists(d, place) == \E p \in DOMAIN d : SameFile(p, place)
Content(d, place) == IF Exists(d, place) THEN d[CHOOSE p \in DOMAIN d : SameFile(p, place)] ELSE None

\* unique_filename: the name itself, or the first number that makes one.
Available(name, folder, source) ==
  /\ Lower(name) \notin used[folder]
  /\ ~Exists(disk, <<folder, name>>) \/ <<folder, name>> = source
Numbered(name, n) == IF n = 0 THEN name ELSE [name EXCEPT !.numbers = Append(@, n)]
UniqueFilename(name, folder, source) ==
  Numbered(name, Min({ n \in 0..(Cardinality(DOMAIN disk) + Len(show)) :
                       Available(Numbered(name, n), folder, source) }))

\* Every path once, with the kind of the first cue that has it.
Deduped(s) == { i \in DOMAIN s : \A j \in 1..(i - 1) : s[j].at # s[i].at }

CopyInit ==
  /\ show \in CollectedShows
  /\ \E there \in MediaFiles : before = [p \in there |-> p]
  /\ disk = before
  /\ left = Deduped(show) /\ used = [f \in Folders |-> {}] /\ to = [p \in {} |-> p]
  /\ missing = {} /\ done = "no"

Media == show[Min(left)]
Name == UniqueFilename(Media.at[2], Sub[Media.kind], Media.at)
\* Mutant of Claimed: the name is noted as it is spelled.
ClaimedAsSpelled == [used EXCEPT ![Sub[Media.kind]] = @ \cup {Name}]
Claimed == [used EXCEPT ![Sub[Media.kind]] = @ \cup {Lower(Name)}]
\* path_map, with the place the relative path stands for.
Mapped == [p \in DOMAIN to \cup {Media.at} |-> IF p = Media.at THEN <<Sub[Media.kind], Name>> ELSE to[p]]
Collecting == done = "no" /\ left # {}

CollectMissing ==
  /\ Collecting /\ ~Exists(disk, Media.at)
  /\ missing' = missing \cup {Media.at} /\ left' = left \ {Min(left)}
  /\ UNCHANGED <<show, disk, before, used, to, done>>
\* A file that is in its place already is kept there.
CollectInPlace ==
  /\ Collecting /\ Exists(disk, Media.at) /\ Media.at = <<Sub[Media.kind], Name>>
  /\ used' = Claimed /\ to' = Mapped /\ left' = left \ {Min(left)}
  /\ UNCHANGED <<show, disk, before, missing, done>>
Copied(place, from) ==
  LET at == IF Exists(disk, place) THEN CHOOSE p \in DOMAIN disk : SameFile(p, place) ELSE place
  IN [p \in DOMAIN disk \cup {at} |-> IF p = at THEN Content(disk, from) ELSE disk[p]]
CollectCopies ==
  /\ Collecting /\ Exists(disk, Media.at) /\ Media.at # <<Sub[Media.kind], Name>>
  /\ disk' = Copied(<<Sub[Media.kind], Name>>, Media.at)
  /\ used' = Claimed /\ to' = Mapped /\ left' = left \ {Min(left)}
  /\ UNCHANGED <<show, before, missing, done>>
\* A copy that fails ends the command; what was copied stays.
CollectFails ==
  /\ Collecting /\ Exists(disk, Media.at) /\ Media.at # <<Sub[Media.kind], Name>>
  /\ done' = "failed" /\ UNCHANGED <<show, disk, before, left, used, to, missing>>
ProjectWritten ==
  /\ done = "no" /\ left = {} /\ done' = "yes"
  /\ UNCHANGED <<show, disk, before, left, used, to, missing>>
CopyNext == CollectMissing \/ CollectInPlace \/ CollectCopies \/ CollectFails \/ ProjectWritten
CopySpec == CopyInit /\ [][CopyNext]_copyVars

---------------------------------------------------------------------------
(***************************************************************************)
(* The show file and its paths.                                             *)
(***************************************************************************)
\* remap_paths.
Remapped(place) == IF place \in DOMAIN to THEN to[place] ELSE place
\* relativize_paths: what is in the project is named from there.
Relative(place) == [rel |-> place[1] \in Folders, at |-> place]
Stored(c) == Relative(Remapped(c.at))
\* absolutize_paths where the show file is opened: elsewhere, with the project's folders
\* taken along and nothing else there.
Elsewhere == [p \in { q \in DOMAIN disk : q[1] \in Folders } |-> disk[p]]
Opened(c, d) == Content(d, Stored(c).at)
Taken(c) == IF Stored(c).rel THEN Opened(c, Elsewhere) ELSE None

---------------------------------------------------------------------------
CopyTypeOK ==
  /\ \A p \in DOMAIN disk : p[1] \in Folders \/ p \in DOMAIN before
  /\ \A f \in Folders : used[f] \subseteq { Lower(p[2]) : p \in DOMAIN disk }
  /\ \A p \in DOMAIN to : to[p][1] \in Folders
  /\ done \in {"no", "yes", "failed"}

\* The project has every medium that was there: opened on another machine each cue finds
\* the very file it had, under whatever name, and so do cues of different files with the
\* same name.
EveryMediumTaken ==
  done = "yes" => \A i \in DOMAIN show :
    Exists(before, show[i].at) => Taken(show[i]) = Content(before, show[i].at)

\* Nothing that was on disk is overwritten, in the project's folders or elsewhere, however
\* the command ends.
NothingOverwritten == \A p \in DOMAIN before : p \in DOMAIN disk /\ disk[p] = before[p]

\* Collecting takes every medium with the project and costs nothing that was there.
CollectIsSafe == CopyTypeOK /\ EveryMediumTaken /\ NothingOverwritten
=============================================================================
