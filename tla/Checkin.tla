------------------------------ MODULE Checkin ------------------------------
(***************************************************************************)
(* include: changes_add of checkin.c, which puts one .changes file into    *)
(* one distribution.  Unlike processincoming it adds the files to the pool *)
(* first and looks into them there, and it deletes the files it included   *)
(* itself: with one --delete those it moved, with two everything.          *)
(* includedsc and includedeb (checkindsc.c, checkindeb.c) do the same with *)
(* one package.                                                            *)
(***************************************************************************)
EXTENDS Archive

CONSTANTS
    Includable,   \* Includable[u], distributions include can put it into
    DeleteLevels  \* how often --delete is given

ASSUME CheckinAssumption ==
    /\ Includable \in [Uploads -> SUBSET Distributions]
    /\ DeleteLevels \subseteq 0..2

VARIABLES
    place,    \* where changes_add is
    changes,  \* the .changes file, or the package, given with the command
    target,   \* the distribution
    delete,   \* D_COPY, D_MOVE or D_DELETE
    rest,     \* entries the current walk has left
    taken,    \* entries the tracking data took over
    missed    \* a package was not added

including == <<place, changes, target, delete, rest, taken, missed>>

D_COPY == 0
D_MOVE == 1
D_DELETE == 2

Place == {"off", "read", "copy", "packages", "changesfile", "add",
          "delchanges", "delfiles", "package", "parts", "delparts"}

CheckinTypeOK ==
    /\ place \in Place /\ changes \in Names \cup {None}
    /\ target \in Distributions \cup {None} /\ delete \in 0..2
    /\ rest \cup taken \subseteq Names
    /\ missed \in BOOLEAN

CheckinInit ==
    /\ place = "off" /\ changes = None /\ target = None /\ delete = D_COPY
    /\ rest = {} /\ taken = {} /\ missed = FALSE

Include(u, d, level) ==
    /\ StartCommand("include")
    /\ place' = "read"
    /\ changes' = u /\ target' = d /\ delete' = level
    /\ UNCHANGED <<rest, taken, missed>>

(* newentry: what the tracking options do not ask for is ignored.          *)
Entries == {f \in DOMAIN Lists[changes] :
              Kind[f] \in {"deb", "dsc", "source"} \cup TrackExtras[target]}
IncludesChanges == "changes" \in TrackExtras[target]

(* changes_free, and all of the command's error exits *)
Leave ==
    /\ place' = "off" /\ changes' = None /\ target' = None /\ delete' = D_COPY
    /\ rest' = {} /\ taken' = {} /\ missed' = FALSE

Keep(p) == /\ place' = p /\ UNCHANGED <<changes, target, delete>>

(* changes_checkfiles: each entry is in the pool, or lies in the directory *)
(* where it will be copied from.                                           *)
Addable(f) == \/ Present(f, IF changes \in Uploads THEN Lists[changes][f] ELSE Inside[f].self)
              \/ Absent(f) /\ incoming[f] # None

(* changes_fixfields, changes_check: what the headers say fits together,   *)
(* and the distribution takes it.                                          *)
Sensible ==
    /\ incoming[changes] \notin Malformed \cup BadSignature
    /\ Entries # {} /\ target \in Includable[changes]

(* A mutant: only the files of packages are copied. *)
ExaminePackages ==
    /\ place = "read" /\ ~signalled
    /\ incoming[changes] # None /\ Sensible
    /\ \A f \in Entries : Addable(f)
    /\ Keep("copy")
    /\ rest' = {f \in Entries : Absent(f) /\ Kind[f] \in {"deb", "dsc", "source"}}
    /\ UNCHANGED <<taken, missed, archive>>

(* changes_read and the checks that need nothing from the pool.            *)
Examine ==
    /\ place = "read" /\ ~signalled
    /\ incoming[changes] # None /\ Sensible
    /\ \A f \in Entries : Addable(f)
    /\ Keep("copy")
    /\ rest' = {f \in Entries : Absent(f)}
    /\ UNCHANGED <<taken, missed, archive>>

(* changes_includefiles, files_checkincludefile: copied and compared.      *)
CopyEntry(f) ==
    /\ place = "copy" /\ f \in rest
    /\ incoming[f] = Lists[changes][f]
    /\ AddFile(f, incoming[f])
    /\ rest' = rest \ {f}
    /\ Keep("copy")
    /\ UNCHANGED <<taken, missed, incoming, morgue, logdir, packages, tracked,
                   command, failed, signalled, faults>>

EndCopy ==
    /\ place = "copy" /\ rest = {}
    /\ Keep("packages")
    /\ UNCHANGED <<rest, taken, missed, archive>>

(* changes_checkpkgs: the files a .dsc names must be in the pool by now.   *)
Complete(m) == \A f \in DOMAIN Inside[m].needs : Present(f, Inside[m].needs[f])

CheckPackages ==
    /\ place = "packages"
    /\ \A m \in Entries : Master(m) => Complete(m)
    /\ Keep("changesfile")
    /\ UNCHANGED <<rest, taken, missed, archive>>

(* files_preinclude of the .changes file, for tracking: what the pool has  *)
(* under its name must be the same file.                                   *)
ChangesFit == incoming[changes] # None /\ (Absent(changes) \/ Present(changes, incoming[changes]))

IncludeChangesFile ==
    /\ place = "changesfile" /\ ~signalled
    /\ IncludesChanges => ChangesFit
    /\ IF IncludesChanges /\ Absent(changes) THEN AddFile(changes, incoming[changes])
       ELSE UNCHANGED <<pool, fresh, dropped>>
    /\ rest' = Entries
    /\ Keep("add")
    /\ UNCHANGED <<taken, missed, incoming, morgue, logdir, packages, tracked,
                   command, failed, signalled, faults>>

(* changes_includepkgs: packages go into the distribution, the extra files *)
(* to the tracking data, which is not saved yet.                           *)
AddEntry(f) ==
    /\ place = "add" /\ f \in rest /\ ~signalled
    /\ rest' = rest \ {f}
    /\ IF Master(f)
       THEN /\ AddPackage(target, f)
            /\ missed' = (missed \/ Older(target, f) \/ Equal(target, f))
            /\ taken' = taken
       ELSE /\ UNCHANGED <<packages, dropped, missed>>
            /\ taken' = IF Kind[f] = "source" THEN taken ELSE taken \cup {f}
    /\ Keep("add")
    /\ UNCHANGED <<incoming, morgue, logdir, pool, fresh, tracked, command,
                   failed, signalled, faults>>

(* trackingdata_finish *)
SaveTracking ==
    /\ place = "add" /\ rest = {}
    /\ tracked' = [tracked EXCEPT ![target] =
                     @ \cup taken \cup IF IncludesChanges THEN {changes} ELSE {}]
    /\ Keep("delchanges")
    /\ UNCHANGED <<rest, taken, missed, incoming, morgue, logdir, pool, fresh,
                   dropped, packages, command, failed, signalled, faults>>

Unlink(n) == incoming' = [incoming EXCEPT ![n] = None]

DeletesChanges ==
    /\ delete >= D_DELETE \/ (delete >= D_MOVE /\ IncludesChanges)
    /\ missed => delete >= D_DELETE

DeleteChanges ==
    /\ place = "delchanges"
    /\ IF DeletesChanges THEN Unlink(changes) ELSE incoming' = incoming
    /\ rest' = IF delete >= D_DELETE THEN Entries
               ELSE IF delete >= D_MOVE THEN Entries \ taken ELSE {}
    /\ Keep("delfiles")
    /\ UNCHANGED <<taken, missed, morgue, logdir, store, command, failed,
                   signalled, faults>>

(* changes_deleteleftoverfiles *)
DeleteLeftover(f) ==
    /\ place = "delfiles" /\ f \in rest
    /\ rest' = rest \ {f}
    /\ Unlink(f)
    /\ failed' = (failed \/ incoming[f] = None)
    /\ Keep("delfiles")
    /\ UNCHANGED <<taken, missed, morgue, logdir, store, command, signalled,
                   faults>>

EndInclude ==
    /\ place \in {"delfiles", "delparts"} /\ rest = {}
    /\ EndCommand /\ Leave

-----------------------------------------------------------------------------
(* includedsc and includedeb: one package without a .changes file.         *)

IncludePackage(m, d, level) ==
    /\ StartCommand("includepackage")
    /\ place' = "package"
    /\ changes' = m /\ target' = d /\ delete' = level
    /\ UNCHANGED <<rest, taken, missed>>

(* dsc_read, deb_read and files_preinclude: the package is read where it   *)
(* lies, then copied or found in the pool.                                 *)
PreInclude ==
    /\ place = "package"
    /\ incoming[changes] = Inside[changes].self
    /\ Present(changes, incoming[changes]) \/ Absent(changes)
    /\ IF Absent(changes) THEN AddFile(changes, incoming[changes])
       ELSE UNCHANGED <<pool, fresh, dropped>>
    /\ rest' = DOMAIN Inside[changes].needs
    /\ Keep("parts")
    /\ UNCHANGED <<taken, missed, incoming, morgue, logdir, packages, tracked,
                   command, failed, signalled, faults>>

(* files_checkincludefile: a file in the pool already is not looked for.   *)
IncludePart(f) ==
    /\ place = "parts" /\ f \in rest
    /\ LET c == Inside[changes].needs[f] IN
       \/ Present(f, c) /\ UNCHANGED <<pool, fresh, dropped>>
       \/ Absent(f) /\ incoming[f] = c /\ AddFile(f, c)
    /\ rest' = rest \ {f}
    /\ Keep("parts")
    /\ UNCHANGED <<taken, missed, incoming, morgue, logdir, packages, tracked,
                   command, failed, signalled, faults>>

(* dsc_addprepared, deb_addprepared; the files are deleted if the package  *)
(* got in, or if everything is to be deleted.                              *)
AddIncluded ==
    /\ place = "parts" /\ rest = {} /\ ~signalled
    /\ AddPackage(target, changes)
    /\ LET added == ~Older(target, changes) /\ ~Equal(target, changes) IN
       rest' = IF delete >= D_DELETE \/ (added /\ delete >= D_MOVE)
               THEN DOMAIN FilesOf(changes) ELSE {}
    /\ Keep("delparts")
    /\ UNCHANGED <<taken, missed, incoming, morgue, logdir, pool, fresh, tracked,
                   command, failed, signalled, faults>>

DeleteIncluded(f) ==
    /\ place = "delparts" /\ f \in rest
    /\ rest' = rest \ {f}
    /\ Unlink(f)
    /\ Keep("delparts")
    /\ UNCHANGED <<taken, missed, morgue, logdir, store, command, failed,
                   signalled, faults>>

-----------------------------------------------------------------------------
(* A check fails, a file is missing or not the one listed, a signal came.  *)
Refuses ==
    \/ /\ place = "read"
       /\ \/ signalled \/ incoming[changes] = None \/ ~Sensible
          \/ \E f \in Entries : ~Addable(f)
    \/ place = "copy" /\ \E f \in rest : incoming[f] # Lists[changes][f]
    \/ place = "packages" /\ \E m \in Entries : Master(m) /\ ~Complete(m)
    \/ /\ place = "changesfile"
       /\ signalled \/ (IncludesChanges /\ ~ChangesFit)
    \/ place = "add" /\ rest # {} /\ signalled
    \/ /\ place = "package"
       /\ incoming[changes] = Inside[changes].self => ~Addable(changes)
    \/ /\ place = "parts"
       /\ \/ rest = {} /\ signalled
          \/ \E f \in rest : LET c == Inside[changes].needs[f] IN
                ~Present(f, c) /\ (Absent(f) => incoming[f] # c)

IncludeFails ==
    /\ Refuses
    /\ failed' = TRUE /\ place' = "off"
    /\ rest' = {} /\ taken' = {} /\ missed' = FALSE
    /\ UNCHANGED <<changes, target, delete, incoming, morgue, logdir, store, command,
                   signalled, faults>>

(* A database or the disk fails.                                           *)
IncludeBreaks ==
    /\ place \in {"copy", "changesfile", "add", "package", "parts"}
    /\ Fault
    /\ failed' = TRUE /\ place' = "off"
    /\ rest' = {} /\ taken' = {} /\ missed' = FALSE
    /\ UNCHANGED <<changes, target, delete, incoming, morgue, logdir, store, command,
                   signalled>>

(* main goes on to tidy the pool after an error.                           *)
EndFailed ==
    /\ place = "off" /\ changes # None
    /\ EndCommand /\ Leave

CrashInclude ==
    /\ changes # None
    /\ Die /\ Leave

CheckinStep ==
    \/ Examine
    \/ \E f \in Names :
          CopyEntry(f) \/ AddEntry(f) \/ DeleteLeftover(f)
          \/ IncludePart(f) \/ DeleteIncluded(f)
    \/ PreInclude \/ AddIncluded
    \/ EndCopy \/ CheckPackages \/ IncludeChangesFile \/ SaveTracking
    \/ DeleteChanges \/ EndInclude \/ IncludeFails \/ EndFailed

CheckinFault == IncludeBreaks \/ CrashInclude

=============================================================================
