------------------------------ MODULE PoolRun ------------------------------
(***************************************************************************)
(* One call of reprepro after the other, as main.c runs them, and what     *)
(* they do to the pool: which files are on disk, which are registered in   *)
(* checksums.db, which the exported index files still name, and what the   *)
(* outhook script is told.                                                 *)
(*                                                                         *)
(* A run executes its command, tidies files it added in vain, reports the  *)
(* new files to the outhook, exports the changed distributions, deletes    *)
(* the files that lost their last reference, and calls the outhook.  The   *)
(* flags of pool.c live only as long as the process.                       *)
(*                                                                         *)
(* Module PackageRefs follows every write to the package and reference     *)
(* databases; here a package is added or removed in one step, with the     *)
(* references it leaves behind.  A file counts as on disk only with its    *)
(* right content.                                                          *)
(***************************************************************************)
EXTENDS Naturals, FiniteSets

CONSTANTS
    Target,            \* distributions, one target each
    FileKey,           \* the files in pool/
    NoFile,            \* "no file"
    Package,           \* packages that can be listed
    Name,              \* Name[p], the name of package p
    Files,             \* Files[p], the filekeys it lists
    KeepUnreferenced,  \* --keepunreferencedfiles
    KeepUnusedNew,     \* --keepunusednewfiles
    ExportWhen,        \* values of --export: "changed", "never"
    MaxFaults          \* bound: failing writes and crashes in a behaviour

ASSUME RunAssumption ==
    /\ NoFile \notin FileKey
    /\ IsFiniteSet(Package)
    /\ DOMAIN Name = Package
    /\ Files \in [Package -> SUBSET FileKey]
    /\ KeepUnreferenced \in BOOLEAN
    /\ KeepUnusedNew \in BOOLEAN
    /\ ExportWhen \subseteq {"changed", "never"}
    /\ MaxFaults \in Nat

VARIABLES
    \* on disk
    packages,     \* packages.db
    refs,         \* references.db: how many references of a target a file has
    checksums,    \* checksums.db: the registered files
    pool,         \* the files below pool/
    published,    \* the packages the exported index files name
    snapshot,     \* a snapshot: the files it names and references
    mirror,       \* the pool as an outhook script has rebuilt it, until it is lossy
    \* of the running process
    phase,        \* where main.c is
    command,      \* what it was called for
    error,        \* RET_WAS_ERROR(result)
    interrupted,  \* a signal arrived
    flags,        \* pool.c's marks
    modified,     \* the targets with wasmodified
    todo,         \* what the current walk over files has left
    busy,         \* the file between two writes
    hook,         \* the .outlog: [new, del]
    \* bookkeeping of the model
    faults,       \* failures so far
    dirty,        \* targets whose records this run changed
    unexported,   \* targets changed by a run that did not export them
    damaged,      \* targets that list packages without their references
    halfdeleted,  \* registered files whose deletion was cut short
    garbage,      \* files without reference when the run started
    bare,         \* not everything the snapshot needs was there and referenced
    lossy         \* an outhook did not get to see everything

disk == <<packages, refs, checksums, pool, published, snapshot, mirror>>
process == <<phase, command, error, interrupted, flags, modified, todo, busy, hook>>
history == <<faults, dirty, unexported, damaged, halfdeleted, garbage, bare, lossy>>
vars == <<disk, process, history>>

-----------------------------------------------------------------------------

Flag == {"ADDED", "UNREFERENCED", "DELETED"}

Command == {"include", "change", "gensnapshot", "unreferencesnapshot", "deleteunreferenced"}

Phase == {"off", "action", "tidy", "export", "cleanup"}

TypeOK ==
    /\ packages \in [Target -> SUBSET Package]
    /\ refs \in [Target -> [FileKey -> Nat]]
    /\ checksums \subseteq FileKey
    /\ pool \subseteq FileKey
    /\ published \in [Target -> SUBSET Package]
    /\ snapshot \in [files : SUBSET FileKey, references : SUBSET FileKey]
    /\ mirror \subseteq FileKey
    /\ phase \in Phase
    /\ command \in Command \cup {"reference"}
    /\ error \in BOOLEAN
    /\ interrupted \in BOOLEAN
    /\ flags \in [FileKey -> SUBSET Flag]
    /\ modified \subseteq Target
    /\ todo \subseteq FileKey
    /\ busy \in FileKey \cup {NoFile}
    /\ hook \in [new : SUBSET FileKey, del : SUBSET FileKey]
    /\ faults \in 0..MaxFaults
    /\ dirty \subseteq Target
    /\ unexported \subseteq Target
    /\ damaged \subseteq Target
    /\ halfdeleted \subseteq FileKey
    /\ garbage \subseteq FileKey
    /\ bare \in BOOLEAN
    /\ lossy \in BOOLEAN

NoFlags == [f \in FileKey |-> {}]
NoHook == [new |-> {}, del |-> {}]
NoSnapshot == [files |-> {}, references |-> {}]

Init ==
    /\ packages = [t \in Target |-> {}]
    /\ refs = [t \in Target |-> [f \in FileKey |-> 0]]
    /\ checksums = {} /\ pool = {} /\ mirror = {}
    /\ published = [t \in Target |-> {}] /\ snapshot = NoSnapshot
    /\ phase = "off" /\ command = "change"
    /\ error = FALSE /\ interrupted = FALSE
    /\ flags = NoFlags /\ modified = {} /\ todo = {} /\ busy = NoFile
    /\ hook = NoHook
    /\ faults = 0 /\ dirty = {} /\ unexported = {} /\ damaged = {}
    /\ halfdeleted = {} /\ garbage = {} /\ bare = FALSE /\ lossy = FALSE

FilesIn(S) == UNION {Files[p] : p \in S}

(* references_isused *)
Used(f) ==
    \/ \E t \in Target : refs[t][f] > 0
    \/ f \in snapshot.references

Unused == {f \in checksums : ~Used(f)}

Fault == faults < MaxFaults /\ faults' = faults + 1

-----------------------------------------------------------------------------
(***************************************************************************)
(* The start of a run.  "include" stands for include, includedeb,          *)
(* includedsc and processincoming (NEED_DEREF and NEED_DELNEW), "change"   *)
(* for remove, copy, move, restore and their kind (NEED_DEREF only).  The  *)
(* directory of a snapshot is removed before it is unreferenced, as the    *)
(* manual asks for, and its name is not used for another one before.       *)
(***************************************************************************)
StartRun(c) ==
    /\ phase = "off"
    /\ c = "deleteunreferenced" => ~KeepUnreferenced
    /\ c = "gensnapshot" => snapshot = NoSnapshot
    /\ c = "unreferencesnapshot" => snapshot # NoSnapshot
    /\ phase' = "action"
    /\ command' = c
    /\ error' = FALSE /\ interrupted' = FALSE
    /\ flags' = NoFlags /\ modified' = {} /\ hook' = NoHook /\ dirty' = {}
    /\ garbage' = Unused
    /\ snapshot' = IF c = "unreferencesnapshot" THEN [snapshot EXCEPT !.files = {}] ELSE snapshot
    /\ bare' = (bare /\ c # "gensnapshot")
    /\ todo' = CASE c = "deleteunreferenced" -> Unused
                 [] c = "unreferencesnapshot" -> snapshot.references
                 [] OTHER -> {}
    /\ UNCHANGED <<packages, refs, checksums, pool, published, mirror, busy, faults,
                   unexported, damaged, halfdeleted, lossy>>

InAction(C) == phase = "action" /\ busy = NoFile /\ command \in C

(***************************************************************************)
(* files_checkincludefile and files_preinclude of a file that is not       *)
(* registered: it is copied to its place (replacing what lies there) and   *)
(* then registered.                                                        *)
(***************************************************************************)
CopyFile(f) ==
    /\ InAction({"include"})
    /\ f \notin checksums
    /\ pool' = pool \cup {f}
    /\ busy' = f
    /\ UNCHANGED <<packages, refs, checksums, published, snapshot, mirror, phase, command,
                   error, interrupted, flags, modified, todo, hook, history>>

(* files_expect: a file left in the pool that is not registered is taken. *)
ExpectFile(f) ==
    /\ InAction({"include"})
    /\ f \in pool \ checksums
    /\ busy' = f
    /\ UNCHANGED <<disk, phase, command, error, interrupted, flags, modified,
                   todo, hook, history>>

(* files_add_checksums with pool_markadded. *)
AddChecksums ==
    /\ phase = "action" /\ command = "include" /\ busy # NoFile
    /\ busy' = NoFile
    /\ \/ /\ checksums' = checksums \cup {busy}
          /\ flags' = [flags EXCEPT ![busy] = (@ \cup {"ADDED"}) \ {"DELETED"}]
          /\ UNCHANGED <<error, faults, lossy>>
       \/ /\ Fault
          /\ error' = TRUE /\ lossy' = TRUE
          /\ UNCHANGED <<checksums, flags>>
    /\ UNCHANGED <<packages, refs, pool, published, snapshot, mirror, phase, command,
                   interrupted, modified, todo, hook, dirty, unexported, damaged,
                   halfdeleted, garbage, bare>>

(* checkimproveorinclude: "was lost! ... trying to compensate" *)
RecopyFile(f) ==
    /\ InAction({"include"})
    /\ f \in checksums \ pool
    /\ pool' = pool \cup {f}
    /\ halfdeleted' = halfdeleted \ {f}
    /\ UNCHANGED <<packages, refs, checksums, published, snapshot, mirror, process,
                   faults, dirty, unexported, damaged, garbage, bare, lossy>>

-----------------------------------------------------------------------------
(***************************************************************************)
(* target_addpackage: the package goes in for an old version of its name   *)
(* or beside it, further old versions over the limit are trimmed (which    *)
(* ones is for PackageRefs), and every reference that is dropped marks     *)
(* its file.  The callers go on only with registered files, but            *)
(* archive_package takes what a target lists as it is, and so passes its   *)
(* damage on.                                                              *)
(***************************************************************************)
OldVersions(t, p, old, trimmed) ==
    /\ old \cup trimmed \subseteq {q \in packages[t] : Name[q] = Name[p]}
    /\ old \cap trimmed = {} /\ Cardinality(old) <= 1
    /\ old = {} => trimmed = {}
    /\ p \in packages[t] => old = {p} /\ trimmed = {}

Owners(S, f) == Cardinality({q \in S : f \in Files[q]})

One(f, S) == IF f \in S THEN 1 ELSE 0

(* A reference that is not there is not removed. *)
Less(n, k) == IF k < n THEN n - k ELSE 0

(* references_insert, references_delete and the references of what is trimmed *)
Referenced(t, new, lost, trimmed) ==
    [refs EXCEPT ![t] = [f \in FileKey |->
        Less(@[f] + One(f, new), One(f, lost) + Owners(trimmed, f))]]

(* the files for which there is a reference to drop *)
Held(t, S) == {f \in S : refs[t][f] > 0}

DereferencedUnmarked(S) == flags   \* mutant: pool_dereferenced is not called

Dereferenced(S) ==
    [f \in FileKey |-> IF f \in S THEN flags[f] \cup {"UNREFERENCED"} ELSE flags[f]]

Taken(t, p) ==
    \/ Files[p] \subseteq checksums
    \/ \E s \in damaged \ {t} : p \in packages[s]

Damaged(t, p) == IF Files[p] \subseteq checksums THEN damaged ELSE damaged \cup {t}

AddPackage(t, p) ==
    /\ InAction({"include", "change"})
    /\ Taken(t, p)
    /\ \E old \in SUBSET packages[t] : \E trimmed \in SUBSET packages[t] :
        /\ OldVersions(t, p, old, trimmed)
        /\ packages' = [packages EXCEPT ![t] = (@ \ (old \cup trimmed)) \cup {p}]
        /\ refs' = Referenced(t, Files[p] \ FilesIn(old), FilesIn(old) \ Files[p], trimmed)
        /\ flags' = Dereferenced(Held(t, (FilesIn(old) \ Files[p]) \cup FilesIn(trimmed)))
    /\ modified' = modified \cup {t}
    /\ dirty' = dirty \cup {t}
    /\ damaged' = Damaged(t, p)
    /\ UNCHANGED <<checksums, pool, published, snapshot, mirror, phase, command, error,
                   interrupted, todo, busy, hook, faults, unexported, halfdeleted,
                   garbage, bare, lossy>>

(***************************************************************************)
(* An addition that fails: at a reference it needs; at archiving or        *)
(* deleting the old version, which then stays in the index while its       *)
(* references go ("if (RET_IS_OK(r))" guards the deletion only) - a        *)
(* read-only archive is enough for that; at the new record; or at          *)
(* a reference to drop.  The trimming goes on, wasmodified is set by it    *)
(* alone.                                                                  *)
(***************************************************************************)
AddPackageFails(t, p) ==
    /\ InAction({"include", "change"})
    /\ Taken(t, p) /\ p \notin packages[t]
    /\ Fault
    /\ error' = TRUE
    /\ \E old \in SUBSET packages[t] : \E trimmed \in SUBSET packages[t] :
       LET new == Files[p] \ FilesIn(old)
           lost == FilesIn(old) \ Files[p]
       IN
        /\ OldVersions(t, p, old, trimmed)
        /\ \/ /\ packages' = [packages EXCEPT ![t] = @ \ trimmed]
              /\ \E some \in SUBSET new : refs' = Referenced(t, some, {}, trimmed)
              /\ flags' = Dereferenced(Held(t, FilesIn(trimmed)))
              /\ damaged' = Damaged(t, p)
           \/ /\ old # {}
              /\ packages' = [packages EXCEPT ![t] = (@ \ trimmed) \cup {p}]
              /\ refs' = Referenced(t, new, lost, trimmed)
              /\ flags' = Dereferenced(Held(t, lost \cup FilesIn(trimmed)))
              /\ damaged' = damaged \cup {t}
           \/ /\ packages' = [packages EXCEPT ![t] = @ \ (old \cup trimmed)]
              /\ refs' = Referenced(t, new, {}, trimmed)
              /\ flags' = Dereferenced(Held(t, FilesIn(trimmed)))
              /\ damaged' = Damaged(t, p)
           \/ /\ packages' = [packages EXCEPT ![t] = (@ \ (old \cup trimmed)) \cup {p}]
              /\ \E some \in SUBSET lost :
                    /\ refs' = Referenced(t, new, some, trimmed)
                    /\ flags' = Dereferenced(Held(t, some \cup FilesIn(trimmed)))
              /\ damaged' = Damaged(t, p)
        /\ modified' = IF trimmed = {} THEN modified ELSE modified \cup {t}
    /\ dirty' = IF packages' = packages THEN dirty ELSE dirty \cup {t}
    /\ UNCHANGED <<checksums, pool, published, snapshot, mirror, phase, command, interrupted,
                   todo, busy, hook, unexported, halfdeleted, garbage, bare, lossy>>

(* package_remove, whose references_delete may fail for some of the files *)
RemovePackage(t, p) ==
    /\ InAction({"change"})
    /\ p \in packages[t]
    /\ packages' = [packages EXCEPT ![t] = @ \ {p}]
    /\ \E kept \in SUBSET Files[p] :
        /\ IF kept = {} THEN UNCHANGED <<error, faults>> ELSE Fault /\ error' = TRUE
        /\ refs' = Referenced(t, {}, Files[p] \ kept, {})
        /\ flags' = Dereferenced(Held(t, Files[p] \ kept))
    /\ modified' = modified \cup {t}
    /\ dirty' = dirty \cup {t}
    /\ UNCHANGED <<checksums, pool, published, snapshot, mirror, phase, command, interrupted,
                   todo, busy, hook, unexported, damaged, halfdeleted, garbage, bare, lossy>>

-----------------------------------------------------------------------------
(***************************************************************************)
(* distribution_snapshot: when the files of the snapshot are in place,     *)
(* what they name is referenced.  If some of them could not be put there,  *)
(* "return r" hands back the result of an earlier call: nothing is         *)
(* referenced, and the run goes on as if all was well.                     *)
(***************************************************************************)
GenerateSnapshot(t) ==
    /\ InAction({"gensnapshot"})
    /\ ~error
    /\ command' = "reference"
    /\ \/ /\ snapshot' = [snapshot EXCEPT !.files = FilesIn(packages[t])]
          /\ todo' = FilesIn(packages[t])
          /\ bare' = (todo' # {})
          /\ UNCHANGED faults
       \/ /\ Fault
          /\ \/ /\ snapshot' = [snapshot EXCEPT !.files = FilesIn(packages[t])]
                /\ bare' = TRUE
             \/ UNCHANGED <<snapshot, bare>>
          /\ UNCHANGED todo
    /\ UNCHANGED <<packages, refs, checksums, pool, published, mirror, phase, error,
                   interrupted, flags, modified, busy, hook, dirty, unexported, damaged,
                   halfdeleted, garbage, lossy>>

(* Mutant: stops after the first file. *)
ReferenceFirstFile(f) ==
    /\ InAction({"reference"})
    /\ f \in todo /\ ~error
    /\ snapshot' = [snapshot EXCEPT !.references = @ \cup {f}]
    /\ todo' = {} /\ bare' = FALSE
    /\ UNCHANGED <<packages, refs, checksums, pool, published, mirror, phase, command, error,
                   faults, interrupted, flags, modified, busy, hook, dirty, unexported, damaged,
                   halfdeleted, garbage, lossy>>

(* references_add, through package_foreach, which stops at an error *)
ReferenceSnapshotFile(f) ==
    /\ InAction({"reference"})
    /\ f \in todo /\ ~error
    /\ \/ /\ snapshot' = [snapshot EXCEPT !.references = @ \cup {f}]
          /\ todo' = todo \ {f}
          /\ bare' = (todo' # {} \/ ~(snapshot.files \subseteq checksums))
          /\ UNCHANGED <<error, faults>>
       \/ /\ Fault
          /\ error' = TRUE
          /\ UNCHANGED <<snapshot, todo, bare>>
    /\ UNCHANGED <<packages, refs, checksums, pool, published, mirror, phase, command,
                   interrupted, flags, modified, busy, hook, dirty, unexported, damaged,
                   halfdeleted, garbage, lossy>>

(* references_remove, one reference after the other, whatever fails *)
UnreferenceSnapshotFile(f) ==
    /\ InAction({"unreferencesnapshot"})
    /\ f \in todo
    /\ todo' = todo \ {f}
    /\ \/ /\ snapshot' = [snapshot EXCEPT !.references = @ \ {f}]
          /\ flags' = Dereferenced({f})
          /\ UNCHANGED <<error, faults>>
       \/ /\ Fault
          /\ error' = TRUE
          /\ UNCHANGED <<snapshot, flags>>
    /\ UNCHANGED <<packages, refs, checksums, pool, published, mirror, phase, command,
                   interrupted, modified, busy, hook, dirty, unexported, damaged, halfdeleted,
                   garbage, bare, lossy>>

-----------------------------------------------------------------------------
(***************************************************************************)
(* Deleting a file of the pool takes two writes: deletepoolfile removes    *)
(* it from disk, after telling the outhook unless this run added it, then  *)
(* files_removesilent forgets it.                                          *)
(***************************************************************************)
DeletePoolFile(f, new) ==
    /\ hook' = IF new THEN hook ELSE [hook EXCEPT !.del = @ \cup {f}]
    /\ \/ /\ pool' = pool \ {f}
          /\ busy' = f
          /\ UNCHANGED <<todo, error, faults, lossy>>
       \/ /\ Fault
          /\ lossy' = TRUE
          /\ error' = IF phase = "tidy" THEN error ELSE TRUE
          /\ todo' = todo \ {f}
          /\ UNCHANGED <<pool, busy>>
    /\ UNCHANGED <<packages, refs, checksums, published, snapshot, mirror, phase, command,
                   interrupted, flags, modified, dirty, unexported, damaged, halfdeleted,
                   garbage, bare>>

ForgetFile ==
    /\ busy # NoFile
    /\ \/ phase \in {"tidy", "cleanup"}
       \/ phase = "action" /\ command = "deleteunreferenced"
    /\ busy' = NoFile
    /\ todo' = todo \ {busy}
    /\ \/ /\ busy \in checksums
          /\ checksums' = checksums \ {busy}
          /\ flags' = [flags EXCEPT ![busy] = (@ \cup {"DELETED"}) \ {"UNREFERENCED"}]
          /\ halfdeleted' = halfdeleted \ {busy}
          /\ UNCHANGED <<error, faults, lossy>>
       \/ /\ busy \in checksums
          /\ Fault
          /\ lossy' = TRUE
          /\ error' = IF phase = "tidy" THEN error ELSE TRUE
          /\ halfdeleted' = halfdeleted \cup {busy}
          /\ UNCHANGED <<checksums, flags>>
       \/ /\ busy \notin checksums
          /\ error' = TRUE
          /\ UNCHANGED <<checksums, flags, halfdeleted, faults, lossy>>
    /\ UNCHANGED <<packages, refs, pool, published, snapshot, mirror, phase, command,
                   interrupted, modified, hook, dirty, unexported, damaged, garbage, bare>>

(***************************************************************************)
(* deleteunreferenced: pool_delete of every registered file without        *)
(* reference; the first error, as a signal makes one, ends the walk.       *)
(***************************************************************************)
DeleteUnreferenced(f) ==
    /\ InAction({"deleteunreferenced"})
    /\ f \in todo
    /\ ~interrupted /\ ~error
    /\ DeletePoolFile(f, FALSE)

(***************************************************************************)
(* The command is done.  Something of it may have failed without a trace   *)
(* in the databases: a package that is not acceptable, a file that cannot  *)
(* be read, ...  What pool_tidyadded will delete is settled: new files,    *)
(* not deleted yet, without reference.                                     *)
(***************************************************************************)
(* Mutant: does not ask references_isused. *)
NewFiles == {f \in FileKey : "ADDED" \in flags[f] /\ "DELETED" \notin flags[f]}

UnusedNew == {f \in FileKey : /\ "ADDED" \in flags[f] /\ "DELETED" \notin flags[f]
                              /\ ~Used(f)}

EndAction(failed) ==
    /\ phase = "action" /\ busy = NoFile
    /\ \/ todo = {}
       \/ error /\ command # "unreferencesnapshot"
       \/ interrupted /\ command = "deleteunreferenced"
    /\ failed => command \in {"include", "change", "gensnapshot"}
    /\ phase' = "tidy"
    /\ error' = (error \/ failed \/ todo # {})
    /\ todo' = IF command = "include" /\ ~KeepUnusedNew THEN UnusedNew ELSE {}
    /\ UNCHANGED <<disk, command, interrupted, flags, modified, busy, hook, history>>

(* pool_tidyadded *)
TidyAdded(f) ==
    /\ phase = "tidy" /\ busy = NoFile
    /\ f \in todo
    /\ ~interrupted
    /\ DeletePoolFile(f, TRUE)

(***************************************************************************)
(* What distribution_exportlist is to export: nothing after an error, and  *)
(* nothing with --export=never or silent-never, which is no error.         *)
(***************************************************************************)
ToExport(when) == IF error \/ when = "never" THEN {} ELSE modified

(* Mutant: reports files that pool_tidyadded has deleted again. *)
SendAddedFiles(when) ==
    /\ phase = "tidy" /\ busy = NoFile /\ (todo = {} \/ interrupted)
    /\ hook' = [hook EXCEPT !.new = {f \in FileKey : "ADDED" \in flags[f]}]
    /\ phase' = "export"
    /\ todo' = {}
    /\ modified' = ToExport(when)
    /\ unexported' = IF when = "never" THEN unexported \cup dirty ELSE unexported
    /\ dirty' = IF when = "never" THEN {} ELSE dirty
    /\ UNCHANGED <<disk, command, error, interrupted, flags, busy, faults, damaged,
                   halfdeleted, garbage, bare, lossy>>

(***************************************************************************)
(* pool_sendnewfiles.  A run called with --export=never is not going to    *)
(* export what it changed: that is known here, before the clean-up.        *)
(***************************************************************************)
SendNewFiles(when) ==
    /\ phase = "tidy" /\ busy = NoFile /\ (todo = {} \/ interrupted)
    /\ hook' = [hook EXCEPT !.new = {f \in FileKey : /\ "ADDED" \in flags[f]
                                                     /\ "DELETED" \notin flags[f]}]
    /\ phase' = "export"
    /\ todo' = {}
    /\ modified' = ToExport(when)
    /\ unexported' = IF when = "never" THEN unexported \cup dirty ELSE unexported
    /\ dirty' = IF when = "never" THEN {} ELSE dirty
    /\ UNCHANGED <<disk, command, error, interrupted, flags, busy, faults, damaged,
                   halfdeleted, garbage, bare, lossy>>

(***************************************************************************)
(* distribution_exportlist: the index of a target with wasmodified is      *)
(* written anew.  A failure is before or after the renames; the loop goes  *)
(* on with the next distribution.  After a signal nothing is exported.     *)
(***************************************************************************)
Export(t) ==
    /\ phase = "export"
    /\ t \in modified
    /\ modified' = modified \ {t}
    /\ \/ /\ ~interrupted
          /\ published' = [published EXCEPT ![t] = packages[t]]
          /\ dirty' = dirty \ {t}
          /\ unexported' = unexported \ {t}
          /\ UNCHANGED <<error, faults>>
       \/ /\ ~interrupted
          /\ Fault
          /\ error' = TRUE
          /\ UNCHANGED <<published, dirty, unexported>>
       \/ /\ interrupted
          /\ UNCHANGED <<published, dirty, unexported, error, faults>>
    /\ UNCHANGED <<packages, refs, checksums, pool, snapshot, mirror, phase, command,
                   interrupted, flags, todo, busy, hook, damaged, halfdeleted, garbage, bare, lossy>>

(* Mutant: deletes although there was an error. *)
EndExportAlways ==
    /\ phase = "export" /\ modified = {}
    /\ phase' = "cleanup"
    /\ todo' = {f \in FileKey : "UNREFERENCED" \in flags[f] /\ ~Used(f)}
    /\ UNCHANGED <<disk, command, error, interrupted, flags, modified, busy, hook,
                   history>>

EndExport ==
    /\ phase = "export" /\ modified = {}
    /\ phase' = "cleanup"
    /\ todo' = IF error \/ KeepUnreferenced \/ command \notin {"include", "change"}
               THEN {} ELSE {f \in FileKey : "UNREFERENCED" \in flags[f] /\ ~Used(f)}
    /\ UNCHANGED <<disk, command, error, interrupted, flags, modified, busy, hook,
                   history>>

(* pool_removeunreferenced *)
RemoveUnreferenced(f) ==
    /\ phase = "cleanup" /\ busy = NoFile
    /\ f \in todo
    /\ ~interrupted
    /\ DeletePoolFile(f, "ADDED" \in flags[f])

(***************************************************************************)
(* outhook_call, unless interrupted, and the end of the process.  The      *)
(* script may fail.                                                        *)
(***************************************************************************)
EndRun ==
    /\ phase = "cleanup" /\ busy = NoFile /\ (todo = {} \/ interrupted)
    /\ phase' = "off"
    /\ \/ lossy' = (lossy \/ interrupted) /\ UNCHANGED faults
       \/ lossy' = TRUE /\ Fault
    /\ mirror' = IF lossy' THEN {} ELSE (mirror \cup hook.new) \ hook.del
    /\ unexported' = unexported \cup dirty
    /\ dirty' = {}
    /\ flags' = NoFlags /\ hook' = NoHook /\ todo' = {}
    /\ command' = "change" /\ error' = FALSE /\ interrupted' = FALSE
    /\ garbage' = {}
    /\ UNCHANGED <<packages, refs, checksums, pool, published, snapshot, modified, busy,
                   damaged, halfdeleted, bare>>

-----------------------------------------------------------------------------
(* SIGTERM, SIGINT and their like only set a flag. *)
Interrupt ==
    /\ phase # "off" /\ ~interrupted
    /\ Fault
    /\ interrupted' = TRUE
    /\ UNCHANGED <<disk, phase, command, error, flags, modified, todo, busy, hook,
                   dirty, unexported, damaged, halfdeleted, garbage, bare, lossy>>

(* The process is killed, or the machine dies. *)
Crash ==
    /\ phase # "off"
    /\ Fault
    /\ phase' = "off"
    /\ command' = "change" /\ error' = FALSE /\ interrupted' = FALSE
    /\ lossy' = TRUE /\ garbage' = {}
    /\ flags' = NoFlags /\ modified' = {} /\ todo' = {} /\ busy' = NoFile
    /\ hook' = NoHook
    /\ unexported' = unexported \cup dirty
    /\ dirty' = {}
    /\ halfdeleted' = IF busy \in checksums THEN halfdeleted \cup {busy} ELSE halfdeleted
    /\ mirror' = {}
    /\ UNCHANGED <<packages, refs, checksums, pool, published, snapshot, damaged, bare>>

Next ==
    \/ \E c \in Command : StartRun(c)
    \/ \E f \in FileKey : CopyFile(f) \/ ExpectFile(f) \/ RecopyFile(f)
    \/ AddChecksums
    \/ \E t \in Target : \E p \in Package :
        AddPackage(t, p) \/ AddPackageFails(t, p) \/ RemovePackage(t, p)
    \/ \E t \in Target : GenerateSnapshot(t)
    \/ \E f \in FileKey : ReferenceSnapshotFile(f) \/ UnreferenceSnapshotFile(f)
    \/ \E f \in FileKey : DeleteUnreferenced(f) \/ TidyAdded(f) \/ RemoveUnreferenced(f)
    \/ ForgetFile
    \/ \E failed \in BOOLEAN : EndAction(failed)
    \/ \E when \in ExportWhen : SendNewFiles(when)
    \/ \E t \in Target : Export(t)
    \/ EndExport \/ EndRun
    \/ Interrupt \/ Crash

Spec == Init /\ [][Next]_vars

-----------------------------------------------------------------------------

(***************************************************************************)
(* A file that something references is registered and on disk, whatever    *)
(* runs, failures and crashes came before; only a file whose deletion      *)
(* stopped between the disk and the database may be registered without     *)
(* being there.  Excluded are distributions that list a version after its  *)
(* archiving failed and its references are gone (damaged), what is         *)
(* archived from them, and snapshots made of them.                         *)
(***************************************************************************)
UsedFilesKept ==
    \A f \in FileKey :
        \/ \E t \in Target \ damaged : refs[t][f] > 0
        \/ f \in snapshot.references /\ (bare => damaged = {})
        => f \in checksums /\ f \in pool \cup halfdeleted

(***************************************************************************)
(* The index files outside clients see name only files that are there, at  *)
(* every moment: files are deleted after the export that drops them, and   *)
(* not at all after an error or a signal, and what a snapshot names stays  *)
(* until its directory is gone, whatever becomes of the distribution.      *)
(* Excluded are distributions a run changed and did not export - with      *)
(* --export=never from the clean-up of that very run on, as the manual     *)
(* warns -, those that still list a version whose archiving failed after   *)
(* its references are gone, and a snapshot whose making was cut short.     *)
(***************************************************************************)
PublishedFilesExist ==
    /\ \A t \in Target \ (unexported \cup damaged) :
          FilesIn(published[t]) \subseteq pool \cup halfdeleted
    /\ ~bare => snapshot.files \subseteq pool \cup halfdeleted

(***************************************************************************)
(* At the end of a run without error every registered file has a           *)
(* reference, except those that had none when it started: what a run adds  *)
(* in vain, and what loses its last reference in it, is gone.  Only        *)
(* unreferencesnapshot leaves files for deleteunreferenced, and the two    *)
(* options that ask for it.                                                *)
(***************************************************************************)
NoNewGarbage ==
    /\ phase = "cleanup" /\ busy = NoFile /\ todo = {} /\ command # "unreferencesnapshot"
    /\ ~error /\ ~interrupted /\ ~lossy /\ ~KeepUnreferenced /\ ~KeepUnusedNew
    => Unused \subseteq garbage

(***************************************************************************)
(* An outhook script that copies every POOLNEW and removes every           *)
(* POOLDELETE ends up with the pool, unless a run was cut short.  With     *)
(* --keepunusednewfiles it need not: a file that was added and lost its    *)
(* last reference in the same run is reported as new and then deleted in   *)
(* silence, as pool_removeunreferenced takes pl_ADDED for "not reported".  *)
(***************************************************************************)
MirrorMatchesPool == phase = "off" /\ ~lossy /\ ~KeepUnusedNew => mirror = pool

(***************************************************************************)
(* main.c skips the clean-up after an error "(To keep the files in the     *)
(* still existing index files from vanishing)": a file the clean-up is     *)
(* deleting is named by no exported index, of any distribution.            *)
(***************************************************************************)
ExportedFilesNeverVanish ==
    phase = "cleanup" /\ busy # NoFile
        => \A t \in Target : busy \notin FilesIn(published[t])

=============================================================================
