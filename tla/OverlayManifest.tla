---------------------------- MODULE OverlayManifest ----------------------------
(***************************************************************************)
(* What an upgrade installs into a project and takes away again            *)
(* (src/gate/upgrade/manifest.py): the manifest records the paths that the *)
(* last run installed, and what the next release no longer ships is        *)
(* retired.  The overseer edits, adds and deletes files between upgrades,  *)
(* and an upgrade may die at any step and be run again, or not.  A file's  *)
(* content is the one who wrote it: a release, or the overseer.            *)
(***************************************************************************)
EXTENDS Integers

CONSTANTS
    Releases,       \* the releases of Choir, in order: [managed, seeded]
    LastRelease,    \* how many there are
    Elsewhere,      \* managed paths that only another prover's project gets
    OverseersOwn,   \* a path that no release ships
    MaxEdits,       \* bound on the overseer's edits
    MaxDeaths       \* bound on the runs that die

ASSUME ReleasesAssumption == LastRelease \in Nat

VARIABLES
    disk,        \* path -> content
    manifest,    \* its state, and its entries: path -> [cls, sha256]
    release,     \* the release that is or was installed last
    pc,          \* where the upgrade stands
    left,        \* what it still has to copy, or to delete
    edits, deaths,
    recorded,    \* ghost: the last release whose run wrote the manifest
    lost,        \* ghost: where a retirement deleted the overseer's content
    abandoned    \* ghost: a release was left half installed for the next one

overlayVars ==
    <<disk, manifest, release, pc, left, edits, deaths, recorded, lost, abandoned>>

None == -1
Overseer == 0
Overlay(r) == Releases[r].managed \cup Releases[r].seeded
Paths == {OverseersOwn} \cup UNION {Overlay(r) : r \in 1..LastRelease}
NoEntries == [p \in {} |-> 0]

\* What is written, and read back; anything else is refused.
Serialize(entries) == [state |-> "whole", files |-> entries]
RefusedManifest == [state |-> "corrupt", files |-> NoEntries]

OverlayInit ==
    /\ disk \in {d \in [Paths -> {None, Overseer}] :
                    \A p \in Paths \ (Elsewhere \cup {OverseersOwn}) : d[p] = None}
    /\ manifest = [state |-> "absent", files |-> NoEntries]
    /\ release = 0 /\ pc = "idle" /\ left = {}
    /\ edits = 0 /\ deaths = 0 /\ recorded = 0
    /\ lost = {} /\ abandoned = FALSE

-----------------------------------------------------------------------------
(* The caller copies: the managed paths always, the seeded ones where      *)
(* there is no file yet.                                                   *)

UpgradeStarts ==
    /\ pc = "idle" /\ pc' = "copying"
    /\ \E r \in {release, release + 1} \cap 1..LastRelease :
        /\ release' = r
        /\ left' = (Releases[r].managed \ Elsewhere)
                   \cup {p \in Releases[r].seeded : disk[p] = None}
        /\ abandoned' = (abandoned \/ (r # release /\ recorded # release))
    /\ UNCHANGED <<disk, manifest, edits, deaths, recorded, lost>>

Copies ==
    /\ pc = "copying"
    /\ \E p \in left : disk' = [disk EXCEPT ![p] = release] /\ left' = left \ {p}
    /\ UNCHANGED <<manifest, release, pc, edits, deaths, recorded, lost, abandoned>>

-----------------------------------------------------------------------------
(* main.                                                                   *)

\* Mutant: what no longer ships is deleted as it is.
PlanRetirementsEdited(path, current) ==
    LET entry == manifest.files[path]
    IN  CASE current = None -> "already gone"
          [] current # None /\ entry.cls = "seeded" -> "report"
          [] OTHER -> "delete"

\* plan_retirements, of a path that the manifest has and the overlay has not.
PlanRetirements(path, current) ==
    LET entry == manifest.files[path]
    IN  CASE current = None -> "already gone"
          [] current # None /\ entry.cls = "seeded" -> "report"
          [] current = entry.sha256 /\ entry.cls # "seeded" -> "delete"
          [] OTHER -> "report"

\* A manifest that cannot be read ends the run; an absent one retires nothing.
Plans ==
    /\ pc = "copying" /\ left = {}
    /\ IF manifest.state = "corrupt" THEN pc' = "idle" /\ UNCHANGED left
       ELSE /\ pc' = "retiring"
            /\ left' = {p \in DOMAIN manifest.files \ Overlay(release) :
                            PlanRetirements(p, disk[p]) = "delete"}
    /\ UNCHANGED <<disk, manifest, release, edits, deaths, recorded, lost, abandoned>>

Deletes ==
    /\ pc = "retiring"
    /\ \E p \in left :
        /\ left' = left \ {p}
        /\ disk' = [disk EXCEPT ![p] = None]
        /\ lost' = IF disk[p] = Overseer THEN lost \cup {p} ELSE lost
    /\ UNCHANGED <<manifest, release, pc, edits, deaths, recorded, abandoned>>

\* Mutant: a path that was recorded before keeps its hash.
EntriesOldHash ==
    [p \in {q \in Overlay(release) : disk[q] # None} |->
        [cls |-> IF p \in Releases[release].managed THEN "managed" ELSE "seeded",
         sha256 |-> IF p \in DOMAIN manifest.files THEN manifest.files[p].sha256
                    ELSE disk[p]]]

\* The declared paths that are files.
Entries ==
    [p \in {q \in Overlay(release) : disk[q] # None} |->
        [cls |-> IF p \in Releases[release].managed THEN "managed" ELSE "seeded",
         sha256 |-> disk[p]]]

Writes ==
    /\ pc = "retiring" /\ left = {}
    /\ pc' = "idle"
    /\ manifest' = Serialize(Entries)
    /\ recorded' = release
    /\ UNCHANGED <<disk, release, left, edits, deaths, lost, abandoned>>

-----------------------------------------------------------------------------
(* Deaths, and the overseer.                                               *)

\* Between any two steps, or in the write, which truncates the file first.
Dies ==
    /\ pc # "idle" /\ pc' = "idle"
    /\ deaths < MaxDeaths /\ deaths' = deaths + 1
    /\ left' = {}
    /\ manifest' \in {manifest} \cup
         (IF pc = "retiring" /\ left = {} THEN {RefusedManifest} ELSE {})
    /\ UNCHANGED <<disk, release, edits, recorded, lost, abandoned>>

OverseerEdits ==
    /\ pc = "idle"
    /\ edits < MaxEdits /\ edits' = edits + 1
    /\ \E p \in Paths, c \in {None, Overseer} :
        disk[p] # c /\ disk' = [disk EXCEPT ![p] = c]
    /\ UNCHANGED <<manifest, release, pc, left, deaths, recorded, lost, abandoned>>

\* "Inspect it, or delete it to restart retirement tracking deliberately."
Restarts ==
    /\ pc = "idle" /\ manifest.state = "corrupt"
    /\ manifest' = [state |-> "absent", files |-> NoEntries]
    /\ abandoned' = TRUE
    /\ UNCHANGED <<disk, release, pc, left, edits, deaths, recorded, lost>>

OverlayNext ==
    UpgradeStarts \/ Copies \/ Plans \/ Deletes \/ Writes \/ Dies \/ OverseerEdits
    \/ Restarts

OverlaySpec == OverlayInit /\ [][OverlayNext]_overlayVars

-----------------------------------------------------------------------------
(* Properties.                                                             *)

\* "It can only ever remove what its own lineage installed": no retirement
\* deletes what the overseer wrote, new or over a file of Choir's, however
\* upgrades died and were run again.  A managed path of another prover's
\* projects is the exception: it is recorded without having been copied.
OnlyOwnIsDeleted == lost \subseteq Elsewhere

\* A release seeded the path, the one that wrote what is there or one since.
\* The overseer's own content, and no file, are nobody's to retire.
HandedOver(p) ==
    disk[p] \in 1..LastRelease =>
        \E r \in disk[p]..release : p \in Releases[r].seeded

\* Retirement is "derived from the difference between two install sets": after
\* a run, nothing that an earlier release wrote is left outside the overlay,
\* but the files that were seeded, then or later, which are the overseer's
\* since; unless a release was left half installed for a later one, or the
\* tracking was restarted.
NothingIsLeftBehind ==
    (pc = "idle" /\ recorded = release /\ release > 0 /\ ~abandoned) =>
        \A p \in Paths \ Overlay(release) : HandedOver(p)
==============================================================================
