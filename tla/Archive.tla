------------------------------ MODULE Archive ------------------------------
(***************************************************************************)
(* What the commands that take new packages in (processincoming and        *)
(* include) share: the directory with the uploads, the pool, the           *)
(* distributions and the files tracking holds, and the few operations of   *)
(* files.c and target.c both use.                                          *)
(*                                                                         *)
(* A file is a name and a content; a content stands for the file's bytes   *)
(* and all its checksums.  The filekey of a file is its name: all files of *)
(* a source package live in one directory of the pool.  Registration in    *)
(* checksums.db and the file on disk are one here, module PoolRun takes    *)
(* them apart.  Reference counting is that of module PackageRefs: a file   *)
(* is used while a package or the tracking data names it.  Distributions   *)
(* have Limit: 1.                                                          *)
(***************************************************************************)
EXTENDS Naturals, FiniteSets, Sequences

CONSTANTS
    Names,         \* file names, those of the .changes files included
    Uploads,       \* the .changes files
    Contents,      \* what a file may hold
    MayHold,       \* MayHold[n], what uploaders may put under that name
    Beginnings,    \* what the incoming directory may hold at first
    None,          \* nothing there
    Distributions,
    Packages,      \* package names
    Kind,          \* Kind[n], the filetype a name stands for
    Lists,         \* Lists[u][n], the content upload u lists for n
    Malformed,     \* .changes files whose fields contradict each other or their files
    BadSignature,  \* .changes files with invalid signatures only
    Inside,        \* Inside[m], package file m: its content and what that says
    TrackExtras,   \* TrackExtras[d], the kinds its tracking includes
    MaxFaults      \* bound: signals, failures, crashes and lost races

Kinds == {"changes", "deb", "dsc", "source", "log", "buildinfo", "byhand"}

(* What a .changes or .dsc file lists: some files and their contents. *)
IsManifest(m) == DOMAIN m \subseteq Names /\ \A n \in DOMAIN m : m[n] \in Contents

ASSUME ArchiveAssumption ==
    /\ Uploads \subseteq Names
    /\ None \notin Contents
    /\ Kind \in [Names -> Kinds]
    /\ MayHold \in [Names -> SUBSET Contents]
    /\ Beginnings \subseteq [Names -> Contents \cup {None}]
    /\ \A in \in Beginnings, n \in Names : in[n] \in MayHold[n] \cup {None}
    /\ \A n \in Names : Kind[n] = "changes" <=> n \in Uploads
    /\ \A u \in Uploads : IsManifest(Lists[u]) /\ DOMAIN Lists[u] \cap Uploads = {}
    /\ DOMAIN Inside \subseteq {n \in Names : Kind[n] \in {"deb", "dsc"}}
    /\ \A m \in DOMAIN Inside :
          /\ Inside[m].name \in Packages /\ Inside[m].version \in Nat \ {0}
          /\ Inside[m].self \in Contents /\ IsManifest(Inside[m].needs)
    /\ \A u \in Uploads : \A f \in DOMAIN Lists[u] :
          Kind[f] \in {"deb", "dsc"} => f \in DOMAIN Inside /\ Lists[u][f] = Inside[f].self
    /\ TrackExtras \in [Distributions -> SUBSET {"changes", "byhand", "log", "buildinfo"}]
    /\ MaxFaults \in Nat

VARIABLES
    incoming,   \* incoming[n], what lies in the incoming directory
    morgue,     \* the files MorgueDir took from this command
    logdir,     \* the files LogDir took from it
    pool,       \* pool[n], the pool file, registered and on disk
    fresh,      \* pool files this command added
    dropped,    \* pool files this command took a reference from
    packages,   \* packages[d][p], the package in distribution d or None
    tracked,    \* tracked[d], the files its tracking data names besides
    command,    \* the running command
    failed,     \* RET_WAS_ERROR of its result
    signalled,  \* interrupted()
    faults      \* of the model: faults so far

store == <<pool, fresh, dropped, packages, tracked>>
archive == <<incoming, morgue, logdir, store, command, failed, signalled, faults>>

Master(n) == Kind[n] \in {"deb", "dsc"}

(* All files of package m, with their contents. *)
FilesOf(m) ==
    [f \in {m} \cup DOMAIN Inside[m].needs |->
        IF f = m THEN Inside[m].self ELSE Inside[m].needs[f]]

(* What a target has of a package *)
Placed(m) == [version |-> Inside[m].version, files |-> FilesOf(m)]

ArchiveTypeOK ==
    /\ incoming \in [Names -> Contents \cup {None}]
    /\ morgue \subseteq Names \X Contents /\ logdir \subseteq Names
    /\ pool \in [Names -> Contents \cup {None}]
    /\ fresh \cup dropped \subseteq Names
    /\ packages \in [Distributions -> [Packages -> {None} \cup {Placed(m) : m \in DOMAIN Inside}]]
    /\ tracked \in [Distributions -> SUBSET Names]
    /\ command \in {"none", "processincoming", "include", "includepackage"}
    /\ failed \in BOOLEAN /\ signalled \in BOOLEAN
    /\ faults \in 0..MaxFaults

ArchiveInit ==
    /\ incoming \in Beginnings
    /\ morgue = {} /\ logdir = {}
    /\ pool = [n \in Names |-> None] /\ fresh = {} /\ dropped = {}
    /\ packages = [d \in Distributions |-> [p \in Packages |-> None]]
    /\ tracked = [d \in Distributions |-> {}]
    /\ command = "none" /\ failed = FALSE /\ signalled = FALSE /\ faults = 0

(* files_canadd: the same file is there, nothing is there, or another is. *)
Present(f, c) == pool[f] = c
Absent(f) == pool[f] = None

(* A mutant: tracking is forgotten. *)
UsedByPackages ==
    {f \in Names : \E d \in Distributions, p \in Packages :
                      packages[d][p] # None /\ f \in DOMAIN packages[d][p].files}

Used ==
    {f \in Names : \E d \in Distributions :
        \/ f \in tracked[d]
        \/ \E p \in Packages : packages[d][p] # None /\ f \in DOMAIN packages[d][p].files}

(* target_checkaddpackage and target_addpackage compare the version with   *)
(* that of the package in the target.                                      *)
Older(d, m) == LET old == packages[d][Inside[m].name]
               IN  old # None /\ Inside[m].version < old.version
Equal(d, m) == LET old == packages[d][Inside[m].name]
               IN  old # None /\ Inside[m].version = old.version

(* target_addpackage: an older or equal version is skipped; otherwise the  *)
(* package takes the place of the one there.                               *)
AddPackage(d, m) ==
    LET old == packages[d][Inside[m].name] IN
    IF Older(d, m) \/ Equal(d, m) THEN UNCHANGED <<packages, dropped>>
    ELSE /\ packages' = [packages EXCEPT ![d][Inside[m].name] = Placed(m)]
         /\ dropped' = IF old = None THEN dropped ELSE dropped \cup DOMAIN old.files

(* files_hardlinkandadd, files_add_checksums: the file is put into the     *)
(* pool, over one that is there, and registered.                           *)
AddFile(f, c) ==
    /\ pool' = [pool EXCEPT ![f] = c]
    /\ fresh' = fresh \cup {f} /\ dropped' = dropped

Fault == faults < MaxFaults /\ faults' = faults + 1

(* Somebody else works in the incoming directory. *)
Put(n, c) ==
    /\ Fault /\ incoming[n] # c /\ c \in MayHold[n] \cup {None}
    /\ incoming' = [incoming EXCEPT ![n] = c]
    /\ UNCHANGED <<morgue, logdir, store, command, failed, signalled>>

(* A SIGTERM, SIGINT, SIGHUP or SIGABRT. *)
Signal ==
    /\ command # "none" /\ ~signalled /\ Fault
    /\ signalled' = TRUE
    /\ UNCHANGED <<incoming, morgue, logdir, store, command, failed>>

StartCommand(c) ==
    /\ command = "none" /\ command' = c
    /\ failed' = FALSE
    /\ UNCHANGED <<incoming, morgue, logdir, store, signalled, faults>>

(* The end of a command: pool_tidyadded deletes the files added in vain    *)
(* and, when nothing failed, pool_removeunreferenced those that lost their *)
(* last reference; both stop at a signal.                                  *)
EndCommand ==
    LET gone == (fresh \cup IF failed THEN {} ELSE dropped) \ Used IN
    /\ pool' = IF signalled THEN pool
               ELSE [n \in Names |-> IF n \in gone THEN None ELSE pool[n]]
    /\ fresh' = {} /\ dropped' = {}
    /\ command' = "none" /\ failed' = FALSE /\ signalled' = FALSE
    /\ morgue' = {} /\ logdir' = {}
    /\ UNCHANGED <<incoming, packages, tracked, faults>>

(* The process dies: its marks are gone, what is on disk stays. *)
Die ==
    /\ command # "none" /\ Fault
    /\ fresh' = {} /\ dropped' = {}
    /\ command' = "none" /\ failed' = FALSE /\ signalled' = FALSE
    /\ morgue' = {} /\ logdir' = {}
    /\ UNCHANGED <<incoming, pool, packages, tracked>>

=============================================================================
