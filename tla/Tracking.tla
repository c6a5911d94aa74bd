------------------------------ MODULE Tracking ------------------------------
(***************************************************************************)
(* Source package tracking (tracking.c) of one distribution.               *)
(*                                                                         *)
(* tracking.db has a record per source version: the files that belong to   *)
(* it, each with the number of listed packages that use it.  A record      *)
(* keeps its files alive by a reference "codename source version" for each *)
(* of them in references.db, beside the references of the package          *)
(* databases (PackageRefs).  While a command changes packages the record   *)
(* of the source at hand is edited in memory (struct trackingdata), other  *)
(* records that lost something are saved at once and remembered, and only  *)
(* trackingdata_finish looks at them all for files no longer to keep.      *)
(*                                                                         *)
(* Nothing ties these writes together, so the model takes them one at a    *)
(* time: a write may fail, a command may give up, the process may die.     *)
(* The distribution's targets are folded into one set of packages; a       *)
(* package in two targets is two members of Package.                       *)
(***************************************************************************)
EXTENDS Integers, FiniteSets

CONSTANTS
    Source,      \* source packages with their version
    NoSource,    \* "trackingdata without pkg"
    FileKey,     \* the files in pool/
    Package,     \* the packages that can be listed
    NoPackage,   \* "no old package"
    Key,         \* Key[p], target and name: what an older version replaces
    SourceOf,    \* SourceOf[p], its source and source version
    CopiedAs,    \* CopiedAs[p], its source with the package's own version
    Files,       \* Files[p], the filekeys it lists
    SourcePackage, \* the packages of type dsc
    WithEpoch,   \* the packages whose version has an epoch
    FileType,    \* FileType[f], how the file is tracked
    Settings,    \* what behaviours are about: sets of [mode, packages, extras]
    Options,     \* includechanges, includelogs, keepsources, ...
    MaxUses,     \* bound: how high outdated counts may grow
    MaxFaults    \* bound: failing writes, errors and crashes in a behaviour

ASSUME SourceAssumption ==
    /\ NoSource \notin Source
    /\ NoPackage \notin Package
    /\ IsFiniteSet(Package)
    /\ DOMAIN Key = Package
    /\ SourceOf \in [Package -> Source]
    /\ CopiedAs \in [Package -> Source]
    /\ Files \in [Package -> SUBSET FileKey]
    /\ SourcePackage \subseteq Package
    /\ WithEpoch \subseteq Package

ASSUME ModeAssumption ==
    /\ FileType \in [FileKey -> {"package", "source", "changes", "log",
                                 "buildinfo", "xtra"}]
    /\ Settings \subseteq [mode : {"keep", "all", "minimal"},
                           packages : SUBSET Package, extras : SUBSET FileKey]
    /\ Options \subseteq {"includechanges", "includelogs", "includebuildinfos",
                          "keepsources"}
    /\ MaxUses \in Nat
    /\ MaxFaults \in Nat

VARIABLES
    setting,     \* Tracking: of the distribution, and what is uploaded to it;
                 \* it never changes
    packages,    \* the listed packages (packages.db)
    tracks,      \* tracking.db: source -> (file -> use count)
    trackrefs,   \* references.db: how often the track of s references f
    \* of the running command
    pc,          \* where it is
    job,         \* what it is doing
    current,     \* trackingdata.pkg: the source at hand ...
    counts,      \* ... and its files with their counts, in memory
    remembered,  \* trackingdata.remembered: sources to be looked at again
    todo,        \* the files the current loop has left
    old,         \* the package whose counts are still to be dropped
    left,        \* the packages the current walk has left
    work,        \* the records the current walk has left
    error,       \* RET_WAS_ERROR(result)
    \* bookkeeping of the model
    faults,      \* failures so far
    outdated,    \* counts may not match the packages any more
    misfiled,    \* sources that may count for a package of another version,
                 \* or may lack the counts of one of theirs
    exposed,     \* <<s, f>>: s tracks f but may have lost the reference
    orphaned     \* <<s, f>>: s may reference f without tracking it

disk == <<packages, tracks, trackrefs>>
memory == <<current, counts, remembered>>
walk == <<todo, old, left, work>>
history == <<outdated, misfiled, exposed, orphaned>>
vars == <<setting, disk, pc, job, memory, walk, error, faults, history>>

-----------------------------------------------------------------------------

NoFiles == [f \in {} |-> 0]

mode == setting.mode
Uploaded == setting.packages
Sources == {SourceOf[p] : p \in Uploaded} \cup {CopiedAs[p] : p \in Uploaded}

TypeOK ==
    /\ setting \in Settings
    /\ packages \subseteq Package
    /\ DOMAIN tracks \subseteq Source
    /\ \A s \in DOMAIN tracks : /\ DOMAIN tracks[s] \subseteq FileKey
                                /\ \A f \in DOMAIN tracks[s] : tracks[s][f] \in Nat
    /\ trackrefs \in [Source -> [FileKey -> Nat]]
    /\ pc \in {"idle", "open", "insert", "drop", "finish", "tidy", "save",
               "reset", "retrack", "removesrc", "forget", "recreate"}
    /\ job \in {"none", "source", "many", "retrack", "tidytracks", "removetrack",
                "removesrc", "rereference"}
    /\ current \in Source \cup {NoSource}
    /\ DOMAIN counts \subseteq FileKey
    /\ \A f \in DOMAIN counts : counts[f] \in Nat
    /\ remembered \subseteq Source
    /\ todo \subseteq FileKey
    /\ old \in Package \cup {NoPackage}
    /\ left \subseteq Package
    /\ work \subseteq Source
    /\ error \in BOOLEAN
    /\ faults \in 0..MaxFaults
    /\ outdated \in BOOLEAN
    /\ misfiled \subseteq Source
    /\ exposed \subseteq Source \X FileKey
    /\ orphaned \subseteq Source \X FileKey

Init ==
    /\ setting \in Settings
    /\ packages = {}
    /\ tracks = [s \in {} |-> NoFiles]
    /\ trackrefs = [s \in Source |-> [f \in FileKey |-> 0]]
    /\ pc = "idle" /\ job = "none"
    /\ current = NoSource /\ counts = NoFiles /\ remembered = {}
    /\ todo = {} /\ old = NoPackage /\ left = {} /\ work = {}
    /\ error = FALSE
    /\ faults = 0
    /\ outdated = FALSE /\ misfiled = {} /\ exposed = {} /\ orphaned = {}

(* tracking_get, with no files for a source that has no record *)
Loaded(s) == IF s \in DOMAIN tracks THEN tracks[s] ELSE NoFiles

(* tracking_saveonly *)
Saved(s, c) == [r \in DOMAIN tracks \cup {s} |-> IF r = s THEN c ELSE tracks[r]]

Unsaved(s) == [r \in DOMAIN tracks \ {s} |-> tracks[r]]

Fault == faults < MaxFaults /\ faults' = faults + 1

(***************************************************************************)
(* trackedpackage_addfilekey, on the counts in memory                      *)
(***************************************************************************)
AddFileKey(c, f, used) ==
    [g \in DOMAIN c \cup {f} |->
        (IF g \in DOMAIN c THEN c[g] ELSE 0) + (IF g = f /\ used THEN 1 ELSE 0)]

(* trackedpackage_removefilekeys *)
RemoveFileKeys(c, F) ==
    [f \in DOMAIN c |-> IF f \in F /\ c[f] > 0 THEN c[f] - 1 ELSE c[f]]

(* tracking_needed *)
Needed(c, f) ==
    \/ c[f] > 0
    \/ FileType[f] = "log" /\ "includelogs" \in Options
    \/ FileType[f] = "buildinfo" /\ "includebuildinfos" \in Options
    \/ FileType[f] = "changes" /\ "includechanges" \in Options
    \/ FileType[f] = "xtra"
    \/ FileType[f] = "source" /\ "keepsources" \in Options

InUse(c) == \E f \in DOMAIN c : c[f] > 0

(* Mutant: every mode drops the files that are not needed. *)
UntidyAlways(c) == {f \in DOMAIN c : ~Needed(c, f)}

(***************************************************************************)
(* trackedpackage_tidy: the files whose references it drops; a record      *)
(* nothing uses any more goes as a whole.                                  *)
(***************************************************************************)
Untidy(c) ==
    IF mode = "keep" THEN {}
    ELSE IF ~InUse(c) THEN DOMAIN c
    ELSE IF mode = "minimal" THEN {f \in DOMAIN c : ~Needed(c, f)}
    ELSE {}

(* The record is deleted, as flags.deleted says. *)
Gone(c) == job = "removetrack" \/ (mode # "keep" /\ ~InUse(c))

-----------------------------------------------------------------------------
(***************************************************************************)
(* A command that includes, copies or removes packages.                    *)
(***************************************************************************)
Load(s) == current' = s /\ counts' = Loaded(s)

Unload == current' = NoSource /\ counts' = NoFiles

(* trackingdata_summon *)
Summon(s) ==
    /\ pc = "idle"
    /\ pc' = "open" /\ job' = "source"
    /\ Load(s)
    /\ UNCHANGED <<disk, remembered, walk, error, faults, history>>

(* trackingdata_new, for commands that may meet many sources *)
New ==
    /\ pc = "idle"
    /\ pc' = "open" /\ job' = "many"
    /\ UNCHANGED <<disk, memory, walk, error, faults, history>>

(* Mutant: the source at hand is saved but not remembered. *)
SwitchForgetting(s) ==
    /\ pc = "open" /\ job = "many" /\ ~error /\ s # current
    /\ tracks' = IF current = NoSource THEN tracks ELSE Saved(current, counts)
    /\ Load(s)
    /\ UNCHANGED <<packages, trackrefs, pc, job, remembered, walk, error, faults,
                   history>>

(* trackingdata_switch (flood) *)
Switch(s) ==
    /\ pc = "open" /\ job = "many" /\ ~error /\ s # current
    /\ \/ /\ tracks' = IF current = NoSource THEN tracks ELSE Saved(current, counts)
          /\ remembered' = IF current = NoSource THEN remembered
                           ELSE remembered \cup {current}
          /\ Load(s)
          /\ UNCHANGED <<error, faults>>
       \/ /\ current # NoSource
          /\ Fault
          /\ error' = TRUE
          /\ UNCHANGED <<tracks, memory>>
    /\ UNCHANGED <<packages, trackrefs, pc, job, walk, history>>

(***************************************************************************)
(* target_addpackage with trackingdata: the record of p is in the package  *)
(* database, and perhaps the one of q gone, when trackingdata_insert       *)
(* starts.  The commands summon the source of p; copy, move and the        *)
(* archiving of a replaced package take the version of p for it.           *)
(***************************************************************************)
Misfiled(p) == IF current = SourceOf[p] THEN {} ELSE {current, SourceOf[p]}

AddPackage(p, q) ==
    /\ pc = "open" /\ ~error
    /\ current = SourceOf[p] \/ (job = "source" /\ current = CopiedAs[p])
    /\ \A f \in Files[p] \cap DOMAIN counts : counts[f] < MaxUses
    /\ IF q = NoPackage THEN p \notin packages
       ELSE q \in packages /\ Key[q] = Key[p] /\ (p \in packages => q = p)
    /\ packages' = (packages \ {q}) \cup {p}
    /\ todo' = Files[p] /\ old' = q
    /\ pc' = "insert"
    /\ misfiled' = misfiled \cup Misfiled(p)
    /\ UNCHANGED <<tracks, trackrefs, job, memory, left, work, error, faults, outdated,
                   exposed, orphaned>>

(* package_remove with trackingdata *)
RemovePackage(p) ==
    /\ pc = "open" /\ ~error
    /\ p \in packages
    /\ packages' = packages \ {p}
    /\ old' = p
    /\ pc' = "drop"
    /\ UNCHANGED <<tracks, trackrefs, job, memory, todo, left, work, error, faults,
                   history>>

(* Mutant: a file is referenced only once its record has been saved. *)
InsertFileUnreferenced(f) ==
    /\ pc = "insert" /\ f \in todo
    /\ todo' = todo \ {f}
    /\ counts' = AddFileKey(counts, f, TRUE)
    /\ UNCHANGED <<disk, pc, job, current, remembered, old, left, work, error,
                   faults, history>>

(* Mutant: a file the record has already is referenced once more. *)
InsertFileAgain(f) ==
    /\ pc = "insert" /\ f \in todo
    /\ todo' = todo \ {f}
    /\ counts' = AddFileKey(counts, f, TRUE)
    /\ trackrefs' = [trackrefs EXCEPT ![current][f] = @ + 1]
    /\ UNCHANGED <<packages, tracks, pc, job, current, remembered, old, left, work,
                   error, faults, history>>

(***************************************************************************)
(* trackedpackage_addfilekey for each file of the package: a file new to   *)
(* the record is referenced at once.  If that fails it stays in the list.  *)
(***************************************************************************)
InsertFile(f) ==
    /\ pc = "insert" /\ f \in todo
    /\ todo' = todo \ {f}
    /\ counts' = AddFileKey(counts, f, TRUE)
    /\ \/ /\ trackrefs' = IF f \in DOMAIN counts THEN trackrefs
                          ELSE [trackrefs EXCEPT ![current][f] = @ + 1]
          /\ UNCHANGED <<error, faults, exposed>>
       \/ /\ f \notin DOMAIN counts
          /\ Fault
          /\ error' = TRUE
          /\ exposed' = exposed \cup {<<current, f>>}
          /\ UNCHANGED trackrefs
    /\ UNCHANGED <<packages, tracks, pc, job, current, remembered, old, left, work,
                   outdated, misfiled, orphaned>>

(* Files whose record never gets saved stay referenced. *)
Stray == {<<current, f>> : f \in DOMAIN counts \ DOMAIN Loaded(current)}

(***************************************************************************)
(* trackingdata_insert after an error leaves the old package's counts      *)
(* alone; a doretrack that failed throws its record away and ends the      *)
(* retrack.                                                                *)
(***************************************************************************)
InsertEnd ==
    /\ pc = "insert" /\ todo = {}
    /\ \/ /\ ~error
          /\ pc' = IF job = "retrack" THEN "save"
                   ELSE IF old = NoPackage THEN "open" ELSE "drop"
          /\ UNCHANGED <<job, memory, old, left, error, history>>
       \/ /\ error /\ job # "retrack"
          /\ pc' = "open"
          /\ old' = NoPackage
          /\ outdated' = (outdated \/ old # NoPackage)
          /\ UNCHANGED <<job, memory, left, error, misfiled, exposed, orphaned>>
       \/ /\ error /\ job = "retrack"
          /\ pc' = "idle" /\ job' = "none" /\ error' = FALSE
          /\ Unload /\ left' = {}
          /\ orphaned' = orphaned \cup Stray
          /\ UNCHANGED <<remembered, old, outdated, misfiled, exposed>>
    /\ UNCHANGED <<disk, todo, work, faults>>

(***************************************************************************)
(* trackingdata_remove, and the second half of trackingdata_insert: the    *)
(* old package's source is the one in memory, or its record is changed     *)
(* and remembered; a missing record is only warned about.                  *)
(***************************************************************************)
DropOld ==
    LET s == SourceOf[old] IN
    /\ pc = "drop"
    /\ pc' = "open"
    /\ old' = NoPackage
    /\ \/ /\ s = current
          /\ counts' = RemoveFileKeys(counts, Files[old])
          /\ UNCHANGED <<tracks, remembered, error, faults, outdated>>
       \/ /\ s # current /\ s \in DOMAIN tracks
          /\ tracks' = Saved(s, RemoveFileKeys(tracks[s], Files[old]))
          /\ remembered' = remembered \cup {s}
          /\ UNCHANGED <<counts, error, faults, outdated>>
       \/ /\ s # current /\ s \in DOMAIN tracks
          /\ Fault
          /\ error' = TRUE
          /\ outdated' = TRUE
          /\ remembered' = remembered \cup {s}
          /\ UNCHANGED <<tracks, counts>>
       \/ /\ s # current /\ s \notin DOMAIN tracks
          /\ UNCHANGED <<tracks, counts, remembered, error, faults, outdated>>
    /\ UNCHANGED <<packages, trackrefs, job, current, todo, left, work, misfiled,
                   exposed, orphaned>>

(* A .changes, .buildinfo, log or byhand file joins the record, unused. *)
AddExtra(f) ==
    /\ pc = "open" /\ ~error /\ current # NoSource
    /\ FileType[f] \notin {"package", "source"}
    /\ f \notin DOMAIN counts
    /\ counts' = AddFileKey(counts, f, FALSE)
    /\ \/ /\ trackrefs' = [trackrefs EXCEPT ![current][f] = @ + 1]
          /\ UNCHANGED <<error, faults, exposed>>
       \/ /\ Fault
          /\ error' = TRUE
          /\ exposed' = exposed \cup {<<current, f>>}
          /\ UNCHANGED trackrefs
    /\ UNCHANGED <<packages, tracks, pc, job, current, remembered, walk, outdated,
                   misfiled, orphaned>>

(***************************************************************************)
(* What is in memory is lost: its counts, and that records were to be      *)
(* looked at again.                                                        *)
(***************************************************************************)
Lose ==
    /\ Unload /\ remembered' = {}
    /\ todo' = {} /\ old' = NoPackage /\ left' = {} /\ work' = {}
    /\ pc' = "idle" /\ job' = "none" /\ error' = FALSE
    /\ orphaned' = orphaned \cup Stray
    /\ outdated' = \/ outdated \/ remembered # {} \/ old # NoPackage
                   \/ pc \in {"insert", "tidy"} \/ counts # Loaded(current)

(* trackingdata_done, after an error of some other part of the command *)
Abandon ==
    /\ pc = "open"
    /\ IF error THEN UNCHANGED faults ELSE Fault
    /\ Lose
    /\ UNCHANGED <<disk, misfiled, exposed>>

(* trackingdata_finish; some callers finish even after an error. *)
Finish ==
    /\ pc = "open"
    /\ pc' = "finish"
    /\ UNCHANGED <<disk, job, memory, walk, error, faults, history>>

-----------------------------------------------------------------------------
(***************************************************************************)
(* trackingdata_finish and tracking_tidyall: every record concerned is     *)
(* fetched, tidied and saved.                                              *)
(***************************************************************************)
FinishNext ==
    /\ pc = "finish"
    /\ \/ /\ current # NoSource
          /\ pc' = "tidy" /\ todo' = Untidy(counts)
          /\ UNCHANGED <<job, memory, error>>
       \/ /\ current = NoSource
          /\ \E s \in remembered :
                /\ remembered' = remembered \ {s}
                /\ IF s \in DOMAIN tracks
                   THEN Load(s) /\ pc' = "tidy" /\ todo' = Untidy(tracks[s])
                   ELSE UNCHANGED <<current, counts, pc, todo>>
          /\ UNCHANGED <<job, error>>
       \/ /\ current = NoSource /\ remembered = {}
          /\ pc' = "idle" /\ job' = "none" /\ error' = FALSE
          /\ UNCHANGED <<memory, todo>>
    /\ UNCHANGED <<disk, old, left, work, faults, history>>

(* references_decrement of a file that is no longer to be kept *)
TidyFile(f) ==
    /\ pc = "tidy" /\ f \in todo
    /\ todo' = todo \ {f}
    /\ exposed' = exposed \cup {<<current, f>>}
    /\ \/ /\ trackrefs' = [trackrefs EXCEPT ![current][f] = IF @ > 0 THEN @ - 1 ELSE 0]
          /\ UNCHANGED <<faults, orphaned>>
       \/ /\ Fault
          /\ orphaned' = orphaned \cup {<<current, f>>}
          /\ UNCHANGED trackrefs
    /\ UNCHANGED <<packages, tracks, pc, job, memory, old, left, work, error, outdated,
                   misfiled>>

Kept == [f \in DOMAIN counts \ (IF job = "removetrack" THEN {} ELSE Untidy(counts))
            |-> counts[f]]

(* Where the walk goes on after a record has been saved. *)
AfterSave == IF job \in {"removetrack", "removesrc"} THEN "idle" ELSE "finish"

(***************************************************************************)
(* tracking_save of the tidied record: references of files it keeps are    *)
(* as they were, and one that could not be saved is as before on disk.     *)
(***************************************************************************)
TidySave ==
    /\ pc = "tidy" /\ todo = {}
    /\ pc' = AfterSave
    /\ job' = IF AfterSave = "idle" THEN "none" ELSE job
    /\ error' = IF AfterSave = "idle" THEN FALSE ELSE error
    /\ Unload
    /\ \/ /\ tracks' = IF Gone(counts) THEN Unsaved(current) ELSE Saved(current, Kept)
          /\ exposed' = {e \in exposed : e[1] # current
                                         \/ (~Gone(counts) /\ e[2] \in DOMAIN Kept)}
          /\ outdated' = (outdated \/ (job \in {"removetrack", "removesrc"}
                            /\ \E p \in packages : SourceOf[p] = current))
          /\ UNCHANGED <<faults, orphaned>>
       \/ /\ Fault
          /\ orphaned' = orphaned \cup Stray
          /\ outdated' = TRUE
          /\ UNCHANGED <<tracks, exposed>>
    /\ UNCHANGED <<packages, trackrefs, remembered, walk, misfiled>>

(* tidytracks *)
TidyTracks ==
    /\ pc = "idle"
    /\ pc' = "finish" /\ job' = "tidytracks"
    /\ remembered' = DOMAIN tracks
    /\ UNCHANGED <<disk, current, counts, walk, error, faults, history>>

(* tracking_remove, the command removetrack *)
RemoveTrack(s) ==
    /\ pc = "idle" /\ s \in DOMAIN tracks
    /\ pc' = "tidy" /\ job' = "removetrack"
    /\ Load(s)
    /\ todo' = DOMAIN tracks[s]
    /\ UNCHANGED <<disk, remembered, old, left, work, error, faults, history>>

-----------------------------------------------------------------------------
(***************************************************************************)
(* Packages changed without tracking data, as update and pull do it, leave *)
(* the counts as they are.  (They set staletracking, on which they run     *)
(* tracking_retrack at the end; here it may run whenever nothing else is.) *)
(***************************************************************************)
ChangeUntracked(p, q) ==
    /\ pc = "idle"
    /\ \/ /\ p \notin packages
          /\ q = NoPackage \/ (q \in packages /\ Key[q] = Key[p])
          /\ packages' = (packages \ {q}) \cup {p}
       \/ /\ p \in packages /\ q = p
          /\ packages' = packages \ {p}
    /\ outdated' = TRUE
    /\ UNCHANGED <<tracks, trackrefs, pc, job, memory, walk, error, faults, misfiled,
                   exposed, orphaned>>

(***************************************************************************)
(* tracking_retrack: tracking_reset, then doretrack of every package, then *)
(* tracking_tidyall.                                                       *)
(***************************************************************************)
Retrack ==
    /\ pc = "idle"
    /\ pc' = "reset" /\ job' = "retrack"
    /\ work' = DOMAIN tracks
    /\ outdated' = TRUE
    /\ UNCHANGED <<disk, memory, todo, old, left, error, faults, misfiled, exposed,
                   orphaned>>

(* Mutant: tracking_reset is left out. *)
ResetNothing(s) ==
    /\ pc = "reset" /\ s \in work
    /\ work' = work \ {s}
    /\ UNCHANGED <<disk, pc, job, memory, todo, old, left, error, faults, history>>

ResetOne(s) ==
    /\ pc = "reset" /\ s \in work
    /\ \/ /\ tracks' = Saved(s, [f \in DOMAIN tracks[s] |-> 0])
          /\ work' = work \ {s}
          /\ UNCHANGED <<pc, job, faults>>
       \/ /\ Fault
          /\ work' = {} /\ pc' = "idle" /\ job' = "none"
          /\ UNCHANGED tracks
    /\ UNCHANGED <<packages, trackrefs, memory, todo, old, left, error, history>>

ResetEnd ==
    /\ pc = "reset" /\ work = {}
    /\ pc' = "retrack"
    /\ left' = packages
    /\ UNCHANGED <<disk, job, memory, todo, old, work, error, faults, history>>

(* doretrack: tracking_getornew, the files, tracking_save *)
RetrackOne(p) ==
    /\ pc = "retrack" /\ p \in left
    /\ left' = left \ {p}
    /\ Load(SourceOf[p])
    /\ todo' = Files[p]
    /\ pc' = "insert"
    /\ UNCHANGED <<disk, job, remembered, old, work, error, faults, history>>

SaveRetracked ==
    /\ pc = "save"
    /\ Unload
    /\ \/ /\ tracks' = Saved(current, counts)
          /\ pc' = "retrack"
          /\ UNCHANGED <<job, left, faults, orphaned>>
       \/ /\ Fault
          /\ orphaned' = orphaned \cup Stray
          /\ pc' = "idle" /\ job' = "none" /\ left' = {}
          /\ UNCHANGED tracks
    /\ UNCHANGED <<packages, trackrefs, remembered, todo, old, work, error, outdated,
                   misfiled, exposed>>

RetrackEnd ==
    /\ pc = "retrack" /\ left = {}
    /\ pc' = "finish" /\ job' = "tidytracks"
    /\ remembered' = DOMAIN tracks
    /\ outdated' = FALSE /\ misfiled' = {}
    /\ UNCHANGED <<disk, current, counts, walk, error, faults, exposed, orphaned>>

-----------------------------------------------------------------------------
(***************************************************************************)
(* tracking_removepackages, for removesrc: the packages of a source are    *)
(* found by taking name and version from the name of a counted file, the   *)
(* version being what is between the first "_" and the last ".".  File     *)
(* names have no epoch, and those of binaries go on with "_architecture".  *)
(***************************************************************************)
FoundByName == SourcePackage \ WithEpoch

RemoveSrc(s) ==
    /\ pc = "idle" /\ s \in DOMAIN tracks
    /\ pc' = "removesrc" /\ job' = "removesrc"
    /\ Load(s)
    /\ left' = {p \in packages : /\ SourceOf[p] = s
                                 /\ p \in FoundByName
                                 /\ \E f \in Files[p] \cap DOMAIN tracks[s] :
                                        tracks[s][f] > 0}
    /\ UNCHANGED <<disk, remembered, todo, old, work, error, faults, history>>

RemoveSrcOne(p) ==
    /\ pc = "removesrc" /\ p \in left
    /\ packages' = packages \ {p}
    /\ counts' = RemoveFileKeys(counts, Files[p])
    /\ left' = left \ {p}
    /\ UNCHANGED <<tracks, trackrefs, pc, job, current, remembered, todo, old, work,
                   error, faults, history>>

(***************************************************************************)
(* removesourcepackage sets what is still counted to zero.  With a version *)
(* given and nothing removed, the record is not even saved.                *)
(***************************************************************************)
RemoveSrcEnd ==
    LET zero == [f \in DOMAIN counts |->
                    IF FileType[f] \in {"package", "source"} THEN 0 ELSE counts[f]]
    IN
    /\ pc = "removesrc" /\ left = {}
    /\ \/ /\ pc' = "tidy"
          /\ counts' = zero
          /\ todo' = Untidy(zero)
          /\ UNCHANGED <<job, current>>
       \/ /\ counts = Loaded(current)
          /\ pc' = "idle" /\ job' = "none"
          /\ Unload
          /\ UNCHANGED todo
    /\ UNCHANGED <<disk, remembered, old, left, work, error, faults, history>>

-----------------------------------------------------------------------------
(***************************************************************************)
(* tracking_rereference: all references of the distribution's tracks are   *)
(* removed and then those of the records made anew.  tracking_drop, for    *)
(* removealltracks, drops the records first, and has none to make.         *)
(***************************************************************************)
Tracked == {e \in Source \X FileKey : e[1] \in DOMAIN tracks /\ e[2] \in DOMAIN tracks[e[1]]}

Rereference ==
    /\ pc = "idle"
    /\ pc' = "forget" /\ job' = "rereference"
    /\ work' = Source
    /\ exposed' = Tracked
    /\ UNCHANGED <<disk, memory, todo, old, left, error, faults, outdated, misfiled,
                   orphaned>>

DropTracks ==
    /\ pc = "idle"
    /\ pc' = "forget" /\ job' = "rereference"
    /\ work' = Source
    /\ tracks' = [s \in {} |-> NoFiles]
    /\ outdated' = (outdated \/ packages # {})
    /\ exposed' = {}
    /\ orphaned' = Source \X FileKey
    /\ UNCHANGED <<packages, trackrefs, memory, todo, old, left, error, faults, misfiled>>

ForgetOne(s) ==
    /\ pc = "forget" /\ s \in work
    /\ trackrefs' = [trackrefs EXCEPT ![s] = [f \in FileKey |-> 0]]
    /\ work' = work \ {s}
    /\ UNCHANGED <<packages, tracks, pc, job, memory, todo, old, left, error, faults,
                   history>>

ForgetEnd ==
    /\ pc = "forget" /\ work = {}
    /\ pc' = "recreate"
    /\ work' = DOMAIN tracks
    /\ UNCHANGED <<disk, job, memory, todo, old, left, error, faults, history>>

RecreateOne(s) ==
    /\ pc = "recreate" /\ s \in work
    /\ work' = work \ {s}
    /\ \/ /\ trackrefs' = [trackrefs EXCEPT ![s] = [f \in FileKey |->
                                IF f \in DOMAIN tracks[s] THEN @[f] + 1 ELSE @[f]]]
          /\ UNCHANGED <<error, faults>>
       \/ /\ Fault
          /\ error' = TRUE
          /\ \E F \in SUBSET DOMAIN tracks[s] :
                trackrefs' = [trackrefs EXCEPT ![s] = [f \in FileKey |->
                                IF f \in F THEN @[f] + 1 ELSE @[f]]]
    /\ UNCHANGED <<packages, tracks, pc, job, memory, todo, old, left, history>>

RecreateEnd ==
    /\ pc = "recreate" /\ work = {}
    /\ pc' = "idle" /\ job' = "none" /\ error' = FALSE
    /\ IF error THEN UNCHANGED <<exposed, orphaned>>
       ELSE exposed' = {} /\ orphaned' = {}
    /\ UNCHANGED <<disk, memory, walk, faults, outdated, misfiled>>

(* The process dies. *)
Crash ==
    /\ pc # "idle"
    /\ Fault
    /\ Lose
    /\ UNCHANGED <<disk, misfiled, exposed>>

-----------------------------------------------------------------------------
Command ==
    \/ \E s \in Sources : Summon(s) \/ Switch(s)
    \/ New
    \/ \E p \in Uploaded : \E q \in Uploaded \cup {NoPackage} :
            AddPackage(p, q) \/ ChangeUntracked(p, q)
    \/ \E p \in Uploaded : RemovePackage(p)
    \/ \E f \in FileKey : InsertFile(f) \/ TidyFile(f)
    \/ \E f \in setting.extras : AddExtra(f)
    \/ InsertEnd \/ DropOld
    \/ Abandon \/ Finish \/ FinishNext \/ TidySave
    \/ TidyTracks
    \/ Retrack \/ ResetEnd \/ SaveRetracked \/ RetrackEnd
    \/ \E s \in Source : ResetOne(s)
    \/ \E p \in Uploaded : RetrackOne(p) \/ RemoveSrcOne(p)
    \/ \E s \in Sources : RemoveTrack(s) \/ RemoveSrc(s)
    \/ RemoveSrcEnd
    \/ Rereference \/ DropTracks
    \/ \E s \in Source : ForgetOne(s) \/ RecreateOne(s)
    \/ ForgetEnd \/ RecreateEnd
    \/ Crash

Next == Command /\ UNCHANGED setting

Spec == Init /\ [][Next]_vars

-----------------------------------------------------------------------------

(* The counts of s: in memory if it is the source at hand. *)
CountsOf(s) == IF s = current THEN counts ELSE Loaded(s)

Users(s, f) == {p \in packages : SourceOf[p] = s /\ f \in Files[p]}

(***************************************************************************)
(* A record counts for each file the listed packages of its source that    *)
(* use it, as often as the tracking data is not known to be outdated: a    *)
(* file shared by packages, or by two builds where one replaces the other, *)
(* is counted neither too high (it would never go) nor too low.  Excepted  *)
(* until a retrack are the records that copy, move or the archiving of a   *)
(* package whose version is not that of its source has counted it in, and  *)
(* those it should have been counted in (misfiled).                        *)
(***************************************************************************)
CountsExact ==
    pc \in {"idle", "open"} /\ ~outdated /\ ~error =>
        \A s \in Source \ misfiled : \A f \in FileKey :
            LET c == CountsOf(s) IN
            (IF f \in DOMAIN c THEN c[f] ELSE 0) = Cardinality(Users(s, f))

(***************************************************************************)
(* Whatever fails or dies, a file in a record is referenced by it: records *)
(* are written after the references of new files.  Known exceptions are    *)
(* those in exposed: references are also dropped before the record is      *)
(* written, so dying between the two leaves a record without them.         *)
(***************************************************************************)
RecordsReferenced ==
    \A s \in DOMAIN tracks : \A f \in DOMAIN tracks[s] :
        trackrefs[s][f] > 0 \/ <<s, f>> \in exposed

(***************************************************************************)
(* So at any time, and between commands a track holds one reference to     *)
(* each of its files and none to others, unless something failed at that   *)
(* file: one reference too many and the file could never be deleted.       *)
(***************************************************************************)
ReferencesExact ==
    /\ RecordsReferenced
    /\ pc = "idle" => \A s \in Source : \A f \in FileKey :
          <<s, f>> \notin exposed \cup orphaned
              => trackrefs[s][f] = IF <<s, f>> \in Tracked THEN 1 ELSE 0

(***************************************************************************)
(* "Remove files no longer included in the tracked distribution": between  *)
(* commands no record is left that nothing uses, and in mode minimal no    *)
(* file that is not needed.                                                *)
(***************************************************************************)
OnlyNeededTracked ==
    pc = "idle" /\ ~outdated => \A s \in DOMAIN tracks : Untidy(tracks[s]) = {}

(***************************************************************************)
(* "Keep all files belonging to a given source package until the last file *)
(* of it is no longer used within that distribution" (mode all), until "it *)
(* is deleted explicitly via removetrack" (keep): a track gives up a file  *)
(* only when no package of that source (in mode minimal: none that has the *)
(* file) is listed, as long as the tracking data is not known to be        *)
(* outdated.  Excepted until a retrack are the records a package of that   *)
(* source was not counted in, as copy, move or archiving took its version  *)
(* for the one of its source (misfiled).                                   *)
(***************************************************************************)
FilesKept ==
    [][\A s \in Source \ misfiled : \A f \in FileKey :
        trackrefs'[s][f] < trackrefs[s][f] /\ ~outdated
            => \/ job \in {"removetrack", "removesrc", "rereference"}
               \/ mode = "minimal" /\ Users(s, f) = {}
               \/ mode = "all" /\ \A p \in packages : SourceOf[p] # s]_vars

(***************************************************************************)
(* "Remove all packages in distribution codename belonging to source       *)
(* package source-name": none is left when removesrc has removed the       *)
(* record of the source.                                                   *)
(***************************************************************************)
SourceRemoved ==
    [][job = "removesrc" /\ pc = "tidy" /\ pc' = "idle"
        => \A p \in packages : SourceOf[p] # current]_vars

=============================================================================
