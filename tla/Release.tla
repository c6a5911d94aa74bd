------------------------------- MODULE Release -------------------------------
(***************************************************************************)
(* The export of one distribution (distribution.c, exports.c, release.c).  *)
(*                                                                         *)
(* An export writes every index file that needs it under a name ending in  *)
(* .new, then the Release file that lists all of them with their           *)
(* checksums, signs it, and only then renames everything into place, one   *)
(* file at a time.  The checksums go into a cache (release.caches.db), so  *)
(* that the next export can list the files of unchanged targets without    *)
(* reading them.  Any of these steps can fail, and the process can die     *)
(* between any two; what a target had changed is known to it only.         *)
(*                                                                         *)
(* The content of an index file is the pair of the file and the state its  *)
(* target was in when it was written, as a set with one element; the set   *)
(* stands for the checksums, too.  The content of Release, InRelease and   *)
(* Release.gpg is the union of what it lists or signs.  {} is no file and  *)
(* no record.                                                              *)
(***************************************************************************)
EXTENDS Integers, SequencesExt

CONSTANTS
    Targets,     \* the targets, in their order in the distribution
    IndexFile,   \* their index files
    FilesOf,     \* FilesOf[t], the files of target t, in order
    MaxChanges,  \* bound: states of a target
    MaxFaults    \* bound: failures and crashes in a behaviour

Target == ToSet(Targets)

Special == {"Release", "InRelease", "Release.gpg"}

File == IndexFile \cup Special

ASSUME ExportAssumption ==
    /\ Special \cap IndexFile = {}
    /\ Targets \in Seq(Target) /\ IsInjective(Targets)
    /\ FilesOf \in [Target -> Seq(IndexFile)]
    /\ \A t \in Target : IsInjective(FilesOf[t])
    /\ \A t, u \in Target : t # u => ToSet(FilesOf[t]) \cap ToSet(FilesOf[u]) = {}
    /\ IndexFile = UNION {ToSet(FilesOf[t]) : t \in Target}
    /\ MaxChanges \in Nat \ {0}
    /\ MaxFaults \in Nat

VARIABLES
    packages,    \* the state of each target's package database
    signwith,    \* conf/distributions: SignWith is there
    dists,       \* dists/: the files in place
    temps,       \* the files with .new appended
    cache,       \* release.caches.db
    mirror,      \* the copy of dists/ that the outhook script keeps
    outlog,      \* the .outlog of this run: what it has of each file of dists/
    \* of the running process
    pc,
    modified,    \* the targets with wasmodified or saved_wasmodified
    full,        \* the action export, and not the one after another action
    entries,     \* release->files
    todo,        \* the targets, then the entries, the current loop has left
    moved,       \* somethingwasdone
    error,       \* RET_WAS_ERROR(result)
    \* bookkeeping of the model
    faults,      \* failures so far
    torn,        \* Release may list other files than those in place
    suspect,     \* files whose record in the cache may be of other content
    touched,     \* files of dists/ this process has replaced or deleted
    unsent       \* files changed by a run that did not get its outlog through

disk == <<dists, temps, cache, mirror, outlog>>
process == <<pc, modified, full, entries, todo, moved, error>>
history == <<torn, suspect, touched, unsent>>
vars == <<packages, signwith, disk, process, faults, history>>

Content == SUBSET (IndexFile \X (1..MaxChanges))

(***************************************************************************)
(* struct release_entry: sum is {} for no checksums, and final and temp    *)
(* tell whether there are the names of the file in place and of the .new   *)
(* file.                                                                   *)
(***************************************************************************)
Entry == {e \in [file : File, sum : Content, final : BOOLEAN, temp : BOOLEAN] :
            e.temp => e.final}

(* What newreleaseentry asserts *)
ToDoOrToPublish(e) == e.final \/ e.sum # {}

TypeOK ==
    /\ packages \in [Target -> 1..MaxChanges]
    /\ signwith \in BOOLEAN
    /\ dists \in [File -> Content] /\ temps \in [File -> Content]
    /\ cache \in [File -> Content] /\ mirror \in [File -> Content]
    /\ outlog \in [File -> {"", "DISTFILE", "DISTDELETE"}]
    /\ pc \in {"idle", "command", "targets", "prepare", "finish", "store", "report",
              "outhook"}
    /\ modified \subseteq Target
    /\ entries \in Seq(Entry)
    /\ todo \in Seq(IF pc = "targets" THEN Target ELSE Entry)
    /\ pc \in {"targets", "prepare"} => \A e \in ToSet(entries) : ToDoOrToPublish(e)
    /\ full \in BOOLEAN /\ moved \in BOOLEAN /\ error \in BOOLEAN /\ torn \in BOOLEAN
    /\ faults \in 0..MaxFaults
    /\ suspect \subseteq File /\ touched \subseteq File /\ unsent \subseteq File

Nowhere == [f \in File |-> {}]

NoLines == [f \in File |-> ""]

Init ==
    /\ packages = [t \in Target |-> 1]
    /\ signwith \in BOOLEAN
    /\ dists = Nowhere /\ temps = Nowhere /\ cache = Nowhere /\ mirror = Nowhere
    /\ outlog = NoLines
    /\ pc = "idle"
    /\ modified = {} /\ full = FALSE
    /\ entries = <<>> /\ todo = <<>> /\ moved = FALSE /\ error = FALSE
    /\ faults = 0
    /\ torn = FALSE /\ suspect = {} /\ touched = {} /\ unsent = {}

Fault == faults < MaxFaults /\ faults' = faults + 1

(* What target t would now write into its file f. *)
Generated(t, f) == {<<f, packages[t]>>}

(* export returns, and what it had in memory is gone. *)
Return ==
    /\ modified' = {} /\ full' = FALSE
    /\ entries' = <<>> /\ todo' = <<>> /\ moved' = FALSE /\ error' = FALSE

(* The process ends without lines about its changes, if it made any. *)
Quit ==
    /\ pc' = "idle"
    /\ Return
    /\ touched' = {}
    /\ unsent' = unsent \cup touched

(* release_free: the .new files of the entries that still have one *)
TempsFreed ==
    [f \in File |->
        IF \E e \in ToSet(entries) : e.file = f /\ e.temp THEN {} ELSE temps[f]]

-----------------------------------------------------------------------------

(* A command changes a target, which then has wasmodified set. *)
Modify(t) ==
    /\ pc \in {"idle", "command"}
    /\ packages[t] < MaxChanges
    /\ packages' = [packages EXCEPT ![t] = @ + 1]
    /\ pc' = "command"
    /\ modified' = modified \cup {t}
    /\ UNCHANGED <<signwith, disk, full, entries, todo, moved, error, faults, history>>

(* distribution_exportlist after an error, or with --export=never *)
SkipExport ==
    /\ pc = "command"
    /\ Quit
    /\ UNCHANGED <<packages, signwith, disk, faults, torn, suspect>>

(* The configuration is changed. *)
Configure ==
    /\ pc = "idle"
    /\ signwith' = ~signwith
    /\ UNCHANGED <<packages, disk, process, faults, history>>

(***************************************************************************)
(* export: by distribution_exportlist at the end of a command, or for all  *)
(* of the distribution by the action export.                               *)
(***************************************************************************)
StartExport(all) ==
    /\ pc = "idle" \/ (pc = "command" /\ ~all)
    /\ pc' = "targets"
    /\ full' = all
    /\ todo' = Targets
    /\ UNCHANGED <<packages, signwith, disk, modified, entries, moved, error, faults,
                   history>>

-----------------------------------------------------------------------------

(* Mutant: only the cache is asked. *)
UseCachedUnseen(t) ==
    /\ ~full /\ t \notin modified
    /\ \A f \in ToSet(FilesOf[t]) : cache[f] # {}

(* Mutant: target_export does not look at wasmodified. *)
UseCachedAlways(t) ==
    /\ ~full
    /\ \A f \in ToSet(FilesOf[t]) : dists[f] # {} /\ cache[f] # {}

(***************************************************************************)
(* target_export and release_usecached: a target that was not modified is  *)
(* listed with the cached checksums if all its files exist and are known.  *)
(***************************************************************************)
UseCached(t) ==
    /\ ~full /\ t \notin modified
    /\ \A f \in ToSet(FilesOf[t]) : dists[f] # {} /\ cache[f] # {}

KeptEntry(f) == [file |-> f, sum |-> cache[f], final |-> FALSE, temp |-> FALSE]

NewEntry(f, c) == [file |-> f, sum |-> c, final |-> TRUE, temp |-> TRUE]

KeepTarget(t) ==
    /\ pc = "targets" /\ todo # <<>> /\ t = Head(todo)
    /\ UseCached(t)
    /\ entries' = entries \o [i \in DOMAIN FilesOf[t] |-> KeptEntry(FilesOf[t][i])]
    /\ todo' = Tail(todo)
    /\ UNCHANGED <<packages, signwith, disk, pc, modified, full, moved, error, faults,
                   history>>

(***************************************************************************)
(* export_target.  When one of the files cannot be written, those already  *)
(* closed stay behind: release_abortfile removes the open ones only.       *)
(***************************************************************************)
WriteTarget(t) ==
    /\ pc = "targets" /\ todo # <<>> /\ t = Head(todo)
    /\ ~UseCached(t)
    /\ \/ /\ temps' = [f \in File |-> IF f \in ToSet(FilesOf[t]) THEN Generated(t, f)
                                      ELSE temps[f]]
          /\ entries' = entries \o [i \in DOMAIN FilesOf[t] |->
                            NewEntry(FilesOf[t][i], Generated(t, FilesOf[t][i]))]
          /\ todo' = Tail(todo)
          /\ UNCHANGED <<pc, modified, full, moved, error, faults, touched, unsent>>
       \/ /\ Fault
          /\ \E n \in 0 .. Len(FilesOf[t]) :
                temps' = [f \in File |->
                            IF f \notin ToSet(FilesOf[t]) THEN TempsFreed[f]
                            ELSE IF f \in ToSet(SubSeq(FilesOf[t], 1, n))
                            THEN Generated(t, f) ELSE {}]
          /\ Quit
    /\ UNCHANGED <<packages, signwith, dists, cache, mirror, outlog, torn, suspect>>

TargetsEnd ==
    /\ pc = "targets" /\ todo = <<>>
    /\ pc' = "prepare"
    /\ UNCHANGED <<packages, signwith, disk, modified, full, entries, todo, moved, error,
                   faults, history>>

(* The checksums in the Release file *)
Listed == UNION {e.sum : e \in ToSet(entries)}

(***************************************************************************)
(* newspecialreleaseentry and omitunusedspecialreleaseentry: a signature   *)
(* not made this time is deleted if there is an old one.                   *)
(***************************************************************************)
SpecialEntry(f, made) == [file |-> f, sum |-> {}, final |-> TRUE, temp |-> made]

Signature(f) ==
    IF signwith \/ dists[f] # {} THEN <<SpecialEntry(f, signwith)>> ELSE <<>>

(***************************************************************************)
(* release_prepare: nothing to do if no file is new, otherwise the Release *)
(* file is generated and signed, and its entries are the last.             *)
(***************************************************************************)
Prepare ==
    LET made == {"Release"} \cup (IF signwith THEN Special ELSE {}) IN
    /\ pc = "prepare"
    /\ \/ /\ ~full /\ \A e \in ToSet(entries) : ~e.temp
          /\ Quit
          /\ UNCHANGED <<temps, faults>>
       \/ /\ full \/ \E e \in ToSet(entries) : e.temp
          /\ temps' = [f \in File |-> IF f \in made THEN Listed ELSE temps[f]]
          /\ entries' = entries \o <<SpecialEntry("Release", TRUE)>>
                                \o Signature("InRelease") \o Signature("Release.gpg")
          /\ pc' = "finish"
          /\ todo' = entries'
          /\ UNCHANGED <<modified, full, moved, error, faults, touched, unsent>>
       \/ /\ full \/ \E e \in ToSet(entries) : e.temp
          /\ Fault
          /\ temps' = [f \in File |-> IF f \in Special THEN {} ELSE TempsFreed[f]]
          /\ Quit
    /\ UNCHANGED <<packages, signwith, dists, cache, mirror, outlog, torn, suspect>>

-----------------------------------------------------------------------------
(***************************************************************************)
(* release_finish, the loop over the entries.  With those of kept files    *)
(* there is nothing to do.                                                 *)
(***************************************************************************)
Current == Head(todo)

(* What the entries say after the one at hand got into place. *)
InPlace == [i \in DOMAIN entries |->
                IF entries[i] = Current THEN [Current EXCEPT !.temp = FALSE]
                ELSE entries[i]]

FinishKept ==
    /\ pc = "finish" /\ todo # <<>> /\ ~Current.final
    /\ todo' = Tail(todo)
    /\ UNCHANGED <<packages, signwith, disk, pc, modified, full, entries, moved, error,
                   faults, history>>

(* unlink, whose failure "Will be ignored" *)
FinishDelete ==
    /\ pc = "finish" /\ todo # <<>> /\ Current.final /\ ~Current.temp
    /\ todo' = Tail(todo)
    /\ entries' = [i \in DOMAIN entries |->
                    IF entries[i] = Current THEN [Current EXCEPT !.final = FALSE]
                    ELSE entries[i]]
    /\ \/ /\ dists' = [dists EXCEPT ![Current.file] = {}]
          /\ UNCHANGED faults
       \/ /\ Fault
          /\ UNCHANGED dists
    /\ torn' = TRUE
    /\ touched' = touched \cup {Current.file}
    /\ UNCHANGED <<packages, signwith, temps, cache, mirror, outlog, pc, modified, full,
                   moved, error, suspect, unsent>>

Rename ==
    /\ pc = "finish" /\ todo # <<>> /\ Current.temp
    /\ dists' = [dists EXCEPT ![Current.file] = temps[Current.file]]
    /\ temps' = [temps EXCEPT ![Current.file] = {}]
    /\ entries' = InPlace
    /\ todo' = Tail(todo)
    /\ moved' = TRUE
    /\ torn' = TRUE
    /\ suspect' = suspect \cup {Current.file}
    /\ touched' = touched \cup {Current.file}
    /\ UNCHANGED <<packages, signwith, cache, mirror, outlog, pc, modified, full, error,
                   faults, unsent>>

(***************************************************************************)
(* The first rename that fails ends the export, later ones do not: "after  *)
(* something was done, do not stop but try to do as much as possible".     *)
(***************************************************************************)
RenameFails ==
    /\ pc = "finish" /\ todo # <<>> /\ Current.temp
    /\ Fault
    /\ \/ /\ moved
          /\ error' = TRUE
          /\ todo' = Tail(todo)
          /\ UNCHANGED <<temps, pc, modified, full, entries, moved, touched, unsent>>
       \/ /\ ~moved
          /\ temps' = TempsFreed
          /\ Quit
    /\ UNCHANGED <<packages, signwith, dists, cache, mirror, outlog, torn, suspect>>

FinishEnd ==
    /\ pc = "finish" /\ todo = <<>>
    /\ pc' = "store"
    /\ todo' = entries
    /\ torn' = \E e \in ToSet(entries) :
                    \/ e.temp
                    \/ ~e.final /\ e.sum # {} /\ e.file \in suspect
                    \/ ~e.final /\ e.sum = {} /\ dists[e.file] # {}
    /\ UNCHANGED <<packages, signwith, disk, modified, full, entries, moved, error,
                   faults, suspect, touched, unsent>>

(* Mutant: records are added, but the old ones not deleted before. *)
StoreMissing ==
    LET f == Current.file IN
    /\ pc = "store" /\ todo # <<>>
    /\ cache' = [cache EXCEPT ![f] = IF @ = {} THEN Current.sum ELSE @]
    /\ todo' = Tail(todo)
    /\ suspect' = IF Current.temp THEN suspect \cup {f} ELSE suspect \ {f}
    /\ UNCHANGED <<packages, signwith, dists, temps, mirror, outlog, pc, modified, full,
                   entries, moved, error, faults, torn, touched, unsent>>

(***************************************************************************)
(* storechecksums, for one entry: a record that cannot be deleted ends the *)
(* loop, one that cannot be added does not.  The checksums of a file that  *)
(* could not be renamed are stored all the same; those of a file that was  *)
(* kept are stored again, right or wrong.                                  *)
(***************************************************************************)
Store ==
    LET f == Current.file IN
    /\ pc = "store" /\ todo # <<>>
    /\ \/ /\ cache' = [cache EXCEPT ![f] = Current.sum]
          /\ todo' = Tail(todo)
          /\ suspect' = IF Current.temp THEN suspect \cup {f}
                        ELSE IF Current.final \/ Current.sum = {} THEN suspect \ {f}
                        ELSE suspect
          /\ UNCHANGED <<error, faults>>
       \/ /\ Fault
          /\ cache' = [cache EXCEPT ![f] = {}]
          /\ todo' = Tail(todo)
          /\ suspect' = suspect \ {f}
          /\ error' = TRUE
       \/ /\ Fault
          /\ todo' = <<>>
          /\ error' = TRUE
          /\ UNCHANGED <<cache, suspect>>
    /\ UNCHANGED <<packages, signwith, dists, temps, mirror, outlog, pc, modified, full,
                   entries, moved, torn, touched, unsent>>

StoreEnd ==
    /\ pc = "store" /\ todo = <<>>
    /\ pc' = "report"
    /\ UNCHANGED <<packages, signwith, disk, modified, full, entries, todo, moved, error,
                   faults, history>>

Renamed == {e.file : e \in {g \in ToSet(entries) : g.final}}

(* Mutant: the name of the .new file is looked at. *)
DeletedTemps == {e.file : e \in {g \in ToSet(entries) : g.temp /\ g.sum = {}}}

(* Left with neither file nor checksums *)
Deleted == {e.file : e \in {g \in ToSet(entries) : ~g.final /\ g.sum = {}}}

(***************************************************************************)
(* release_toouthook: lines are written to the .outlog, which no script    *)
(* sees before the end of the run.  The assertion that nothing is left to  *)
(* rename ends the process if it does not hold.                            *)
(***************************************************************************)
Report ==
    /\ pc = "report"
    /\ \/ /\ \A e \in ToSet(entries) : ~e.temp
          /\ outlog' = [f \in File |-> IF f \in Renamed THEN "DISTFILE"
                                       ELSE IF f \in Deleted THEN "DISTDELETE" ELSE ""]
          /\ pc' = "outhook"
          /\ Return
          /\ UNCHANGED <<touched, unsent>>
       \/ /\ \E e \in ToSet(entries) : e.temp
          /\ Quit
          /\ UNCHANGED outlog
    /\ UNCHANGED <<packages, signwith, dists, temps, cache, mirror, faults, torn, suspect>>

(* The copy, after a script has gone through the lines about some files. *)
Followed(some) ==
    [f \in File |->
        IF f \notin some \/ outlog[f] = "" THEN mirror[f]
        ELSE IF outlog[f] = "DISTFILE" THEN dists[f] ELSE {}]

(* What no line is about, or a wrong one *)
Unreported ==
    {f \in unsent : outlog[f] = ""} \cup {f \in File : outlog[f] = "DISTDELETE" /\ dists[f] # {}}

(***************************************************************************)
(* outhook_call at the end of the run: the script copies every file it     *)
(* reads DISTFILE of, from where it now is, and removes those it reads     *)
(* DISTDELETE of.  It is not called after a signal or when the .outlog     *)
(* could not be written, and it can fail with any of this done.  A file    *)
(* that could not be deleted was reported all the same.                    *)
(***************************************************************************)
CallOuthook ==
    /\ pc = "outhook"
    /\ \/ /\ mirror' = Followed(File)
          /\ unsent' = Unreported
          /\ UNCHANGED faults
       \/ /\ Fault
          /\ \E some \in SUBSET touched : mirror' = Followed(some)
          /\ unsent' = unsent \cup touched
    /\ outlog' = NoLines
    /\ pc' = "idle"
    /\ touched' = {}
    /\ UNCHANGED <<packages, signwith, dists, temps, cache, modified, full, entries, todo,
                   moved, error, torn, suspect>>

-----------------------------------------------------------------------------

(* A file gets lost, which release_usecached looks for. *)
Lose(f) ==
    /\ pc = "idle"
    /\ dists[f] # {}
    /\ Fault
    /\ dists' = [dists EXCEPT ![f] = {}]
    /\ torn' = TRUE
    /\ unsent' = unsent \cup {f}
    /\ UNCHANGED <<packages, signwith, temps, cache, mirror, outlog, process, suspect,
                   touched>>

(***************************************************************************)
(* The process dies; in storechecksums this may be between the deletion of *)
(* a record and the addition of the new one.                               *)
(***************************************************************************)
Crash ==
    /\ pc # "idle"
    /\ Fault
    /\ \/ UNCHANGED cache
       \/ /\ pc = "store" /\ todo # <<>>
          /\ cache' = [cache EXCEPT ![Current.file] = {}]
    /\ outlog' = NoLines
    /\ Quit
    /\ UNCHANGED <<packages, signwith, dists, temps, mirror, torn, suspect>>

Next ==
    \/ \E t \in Target : Modify(t) \/ KeepTarget(t) \/ WriteTarget(t)
    \/ SkipExport \/ Configure
    \/ \E all \in BOOLEAN : StartExport(all)
    \/ TargetsEnd \/ Prepare
    \/ FinishKept \/ FinishDelete \/ Rename \/ RenameFails \/ FinishEnd
    \/ Store \/ StoreEnd
    \/ Report \/ CallOuthook
    \/ \E f \in IndexFile : Lose(f)
    \/ Crash

Spec == Init /\ [][Next]_vars

-----------------------------------------------------------------------------

(* All that a reader finds of index files. *)
Indices == UNION {dists[f] : f \in IndexFile}

(***************************************************************************)
(* Release, InRelease and Release.gpg, as far as they are there, list the  *)
(* index files with the checksums they have, those of unchanged targets    *)
(* taken from the cache included.  Excepted is what an export leaves that  *)
(* could not put all its files in place, until one that lists no doubtful  *)
(* checksums from the cache has.                                           *)
(***************************************************************************)
IndexConsistent ==
    ~torn => \A s \in Special : dists[s] # {} => dists[s] = Indices

(***************************************************************************)
(* A file is in the cache with its own checksums ("so we find those the    *)
(* next time"), unless the export that replaced it died, or failed to      *)
(* write the file or the record, and no later one has replaced it since.   *)
(***************************************************************************)
CacheTruthful ==
    \A f \in IndexFile \ suspect :
        cache[f] # {} /\ dists[f] # {} => cache[f] = dists[f]

(***************************************************************************)
(* An export without errors makes the changes of this call visible, listed *)
(* with their checksums and signed if they are to be, whatever failed or   *)
(* died before; and "to get a guaranteed current export, use the export    *)
(* action" (docs/reprepro.1): that does it for all targets.                *)
(***************************************************************************)
ExportCurrent ==
    pc = "report" /\ ~error =>
        \A t \in (IF full THEN Target ELSE modified) : \A f \in ToSet(FilesOf[t]) :
            /\ dists[f] = Generated(t, f)
            /\ \A s \in (IF signwith THEN Special ELSE {"Release"}) :
                    Generated(t, f) \subseteq dists[s]

(***************************************************************************)
(* A script that does what it reads in each .outlog keeps a copy of dists/ *)
(* the same: every run reports all the files it replaced or deleted.       *)
(* Excepted are files changed by a run that did not get as far as a script *)
(* that succeeds (it died, got a signal, left a rename undone, or the      *)
(* script failed), files lost otherwise, and those reported as deleted     *)
(* that could not be, until a later run reports the same file.             *)
(***************************************************************************)
MirrorMatchesDists ==
    pc = "idle" => \A f \in File \ unsent : mirror[f] = dists[f]

=============================================================================
