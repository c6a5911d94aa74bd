------------------------------ MODULE Database ------------------------------
(***************************************************************************)
(* database.c: who may use the database directory, how the database is     *)
(* opened, created, translated from the layout of older versions and       *)
(* closed.  The commands are processes of their own that share only the    *)
(* files here; every file is a variable, every change to one a step.       *)
(***************************************************************************)
EXTENDS Integers, Sequences, FiniteSets

CONSTANTS
    Command,       \* the processes started, one command each
    Target,        \* the package databases conf/distributions asks for
    Package,       \* what they hold
    Kinds,         \* what a command may be, a set of [ro, nopackages, fast], the last
                   \* also for those that allow unused tables
    Stored,        \* Target -> the packages an older version stored there
    None,          \* no file
    MaxTries,      \* --waitforlock
    MaxFaults      \* bound: system calls that fail, kills

VARIABLES
    lockfile,      \* db/lockfile is there
    version,       \* db/version: None, "0" or "current"
    packages,      \* packages.db: None or its tables and records
    names,         \* packagenames.db, the secondary database by name
    legacy,        \* packages.legacy.db
    job,           \* Command -> where the process is and what it knows
    stored,        \* history: what the packages databases were last told to hold
    torn,          \* history: a table was created without its secondary one
    faults

files == <<lockfile, version, packages, names, legacy>>
database == <<files, job, stored, torn, faults>>

(* A record's key is the name of the package in the old layout and has the *)
(* version appended in the new one; keyed says how often it was appended.  *)
Record == [target : Target, package : Package, keyed : 0..2]
File == [tables : SUBSET Target, records : SUBSET Record]
Empty == [tables |-> {}, records |-> {}]

ASSUME DatabaseAssumption ==
    /\ Kinds \subseteq [ro : BOOLEAN, nopackages : BOOLEAN, fast : BOOLEAN]
    /\ Stored \in [Target -> SUBSET Package]
    /\ None \notin File
    /\ MaxTries \in Nat /\ MaxFaults \in Nat

Tables(file) == IF file = None THEN {} ELSE file.tables
Records(file) == IF file = None THEN {} ELSE file.records

(* What an older version left.                                             *)
Before == {x \in Target \X Package : x[2] \in Stored[x[1]]}

DatabaseInit ==
    /\ lockfile = FALSE /\ names = None /\ legacy = None
    /\ \/ version = None /\ packages = None /\ stored = {}
       \/ /\ version = "current" /\ stored = Before
          /\ packages = [tables |-> {t \in Target : Stored[t] # {}},
                         records |-> {[target |-> x[1], package |-> x[2], keyed |-> 0] : x \in Before}]
    /\ job = [c \in Command |-> [at |-> "new"]]
    /\ torn = FALSE /\ faults = 0

Fault == faults < MaxFaults /\ faults' = faults + 1

At(c, place) == job[c].at = place
Over(c) == job[c].at \in {"new", "ended", "died"}

(* The process is inside the directory: it holds the lock.                 *)
Inside(c) == ~Over(c) /\ job[c].at # "lock"

(* A mutant: O_EXCL is forgotten. *)
FreeForAll == TRUE

(* database_lock: open with O_CREAT and O_EXCL                              *)
Free == ~lockfile

Goto(c, place) == job' = [job EXCEPT ![c].at = place]

(* What is remembered of a process that is over: whether a signal came.    *)
Leave(c, how) == job' = [job EXCEPT ![c] = [at |-> how, interrupted |-> @.interrupted]]

(* What a process knows between the start of its command and the end.      *)
Place ==
    {"lock", "create", "createnew", "creating", "start", "work", "primary", "secondary", "open",
     "close table", "translate", "copy", "wait", "tidy", "wait again", "close"}

Working ==
    [at : Place, kind : Kinds, tries : 0..MaxTries, interrupted : BOOLEAN, failed : BOOLEAN,
     new : BOOLEAN, make : SUBSET Target, table : Target \cup {None}, ro : BOOLEAN,
     back : Target \cup {None, "work", "createnew", "creating"}]

DatabaseTypeOK ==
    /\ lockfile \in BOOLEAN /\ version \in {None, "0", "current"}
    /\ packages \in File \cup {None} /\ names \in File \cup {None}
    /\ legacy \in File \cup {None}
    /\ job \in [Command -> {[at |-> "new"]} \cup [at : {"ended", "died"}, interrupted : BOOLEAN]
                             \cup Working]
    /\ stored \subseteq Target \X Package /\ torn \in BOOLEAN
    /\ faults \in 0..MaxFaults

-----------------------------------------------------------------------------
(* The lock.                                                               *)

(* callaction: everything is read from conf/ before the lock is tried.     *)
Begin(c) ==
    /\ At(c, "new")
    /\ \E k \in Kinds :
         job' = [job EXCEPT ![c] =
            [at |-> "lock", kind |-> k, tries |-> 0, interrupted |-> FALSE, failed |-> FALSE,
             new |-> FALSE, make |-> {}, table |-> None, ro |-> FALSE, back |-> None]]
    /\ UNCHANGED <<files, stored, torn, faults>>

Acquire(c) ==
    /\ At(c, "lock") /\ Free
    /\ lockfile' = TRUE /\ Goto(c, "create")
    /\ UNCHANGED <<version, packages, names, legacy, stored, torn, faults>>

(* Ten seconds of sleep, also when a signal came meanwhile.                *)
TryAgain(c) ==
    /\ At(c, "lock") /\ ~Free
    /\ job[c].tries < MaxTries /\ ~job[c].interrupted
    /\ job' = [job EXCEPT ![c].tries = @ + 1]
    /\ UNCHANGED <<files, stored, torn, faults>>

GiveUp(c) ==
    /\ At(c, "lock") /\ ~Free
    /\ job[c].tries < MaxTries => job[c].interrupted
    /\ Leave(c, "ended")
    /\ UNCHANGED <<files, stored, torn, faults>>

(* database_openenv failing: lockfile is unlinked by a name already freed, *)
(* which may or may not still be the name.                                 *)
EnvironmentFails(c) ==
    /\ At(c, "create") /\ Fault
    /\ lockfile' \in BOOLEAN
    /\ Leave(c, "ended")
    /\ UNCHANGED <<version, packages, names, legacy, stored, torn>>

(* releaselock *)
ReleaseLock == lockfile' = FALSE

-----------------------------------------------------------------------------
(* database_create                                                         *)

(* readversionfile failing, or telling of a future version                 *)
VersionUnreadable(c) ==
    /\ At(c, "create") /\ Fault
    /\ ReleaseLock
    /\ Leave(c, "ended")
    /\ UNCHANGED <<version, packages, names, legacy, stored, torn>>

(* What is created at once: when nothing is there everything, otherwise by *)
(* warnidentifiers, unless the command allows unused tables, those of what *)
(* is new in conf/distributions.                                           *)
ToCreate(k, nothing) ==
    IF k.nopackages THEN {}
    ELSE IF nothing THEN Target
    ELSE IF packages = None \/ k.fast \/ k.ro THEN {} ELSE Target \ packages.tables

(* Nothing is there when there is no tracking.db, either; whether there is *)
(* is not modelled.                                                        *)
Create(c) ==
    /\ At(c, "create")
    /\ \E trackingfile \in BOOLEAN :
         LET nothing == packages = None /\ ~trackingfile IN
         job' = [job EXCEPT ![c].new = nothing, ![c].make = ToCreate(job[c].kind, nothing),
                            ![c].at = IF nothing /\ ~job[c].kind.nopackages
                                      THEN "createnew" ELSE "creating"]
    /\ UNCHANGED <<files, stored, torn, faults>>

(* target_initpackagesdb(READWRITE): the table of packages.db is created   *)
(* first, then that of packagenames.db.                                    *)
CreateTable(c) ==
    /\ job[c].at \in {"createnew", "creating"}
    /\ \E t \in job[c].make :
         job' = [job EXCEPT ![c].make = @ \ {t}, ![c].table = t, ![c].ro = FALSE,
                            ![c].back = job[c].at, ![c].at = "primary"]
    /\ UNCHANGED <<files, stored, torn, faults>>

(* writeversionfile: version.new is written and renamed.  What had no      *)
(* version file becomes version 0, unless nothing was there at all.        *)
Written(new) == IF version # None THEN version ELSE IF new THEN "current" ELSE "0"

CreatedNew(c) ==
    /\ At(c, "createnew") /\ job[c].make = {}
    /\ version' = Written(TRUE)
    /\ Goto(c, IF job[c].failed THEN "close" ELSE "start")
    /\ UNCHANGED <<lockfile, packages, names, legacy, stored, torn, faults>>

Created(c) ==
    /\ At(c, "creating") /\ job[c].make = {}
    /\ Goto(c, "start")
    /\ UNCHANGED <<files, stored, torn, faults>>

-----------------------------------------------------------------------------
(* database_openpackages: the table t of packages.db and its secondary in  *)
(* packagenames.db.                                                        *)

WithTable(file, t) ==
    IF file = None THEN [Empty EXCEPT !.tables = {t}] ELSE [file EXCEPT !.tables = @ \cup {t}]

OpenPackages(c, t, ro) ==
    /\ At(c, "work") /\ ~job[c].kind.nopackages
    /\ job[c].kind.ro => ro
    /\ job' = [job EXCEPT ![c].table = t, ![c].ro = ro, ![c].back = "work", ![c].at = "primary"]
    /\ UNCHANGED <<files, stored, torn, faults>>

(* Read-only a missing table is an empty one.                              *)
OpenPrimary(c) ==
    /\ At(c, "primary")
    /\ packages' = IF job[c].ro THEN packages ELSE WithTable(packages, job[c].table)
    /\ Goto(c, "secondary")
    /\ UNCHANGED <<lockfile, version, names, legacy, stored, torn, faults>>

(* A secondary table missing when only reading tells that packages.db is   *)
(* of the old layout; writing creates it, and associating it does not fill *)
(* it.                                                                     *)
OldLayout(c) ==
    /\ job[c].ro
    /\ job[c].table \in Tables(packages) /\ job[c].table \notin Tables(names)

OpenSecondary(c) ==
    /\ At(c, "secondary") /\ ~OldLayout(c)
    /\ names' = IF job[c].ro THEN names ELSE WithTable(names, job[c].table)
    /\ Goto(c, IF job[c].back = "work" THEN "open" ELSE "close table")
    /\ UNCHANGED <<lockfile, version, packages, legacy, stored, torn, faults>>

(* A table of packages.db is there and its secondary is not.               *)
Halfway(c) ==
    \/ At(c, "secondary") /\ ~job[c].ro /\ job[c].table \notin Tables(names)
    \/ At(c, "copy") /\ job[c].back \notin Tables(names)

(* An error ends the command, or before it database_create, but for        *)
(* createnewdatabase, which goes on with the other tables.                 *)
OpenFails(c) ==
    /\ job[c].at \in {"primary", "secondary"} /\ Fault
    /\ torn' = (torn \/ Halfway(c))
    /\ job' = [job EXCEPT ![c].failed = TRUE, ![c].table = None, ![c].ro = FALSE,
                          ![c].make = IF job[c].back = "createnew" THEN @ ELSE {},
                          ![c].at = IF job[c].back = "creating" THEN "close" ELSE job[c].back,
                          ![c].back = None]
    /\ UNCHANGED <<files, stored>>

(* database_translate_legacy_packages: what packages.db is becomes         *)
(* packages.legacy.db, and all tables in there are copied, with the        *)
(* version appended to each key, into a new packages.db.                   *)
TranslateLegacy(c) ==
    /\ At(c, "secondary") /\ OldLayout(c)
    /\ legacy' = packages /\ packages' = None
    /\ job' = [job EXCEPT ![c].make = packages.tables, ![c].at = "translate"]
    /\ UNCHANGED <<lockfile, version, names, stored, torn, faults>>

TranslatePrimary(c) ==
    /\ At(c, "translate")
    /\ \E t \in job[c].make :
         /\ packages' = WithTable(packages, t)
         /\ job' = [job EXCEPT ![c].make = @ \ {t}, ![c].back = t, ![c].at = "copy"]
    /\ UNCHANGED <<lockfile, version, names, legacy, stored, torn, faults>>

Copies(t) == {[r EXCEPT !.keyed = IF @ < 2 THEN @ + 1 ELSE 2] :
                 r \in {x \in legacy.records : x.target = t}}

(* A mutant: the records of the last table copied replace the others. *)
CopiedLast(t, file) == Copies(t)

Copied(t, file) == file.records \cup Copies(t)

TranslateTable(c) ==
    /\ At(c, "copy")
    /\ LET t == job[c].back IN
       /\ packages' = [packages EXCEPT !.records = Copied(t, packages)]
       /\ names' = [WithTable(names, t) EXCEPT !.records = Copied(t, WithTable(names, t))]
    /\ Goto(c, "translate")
    /\ UNCHANGED <<lockfile, version, legacy, stored, torn, faults>>

(* The copying of a table ends early: its secondary is there, and some of  *)
(* the records.                                                            *)
CopiedInPart(c) ==
    LET t == job[c].back IN
    /\ At(c, "copy")
    /\ \E done \in SUBSET Copies(t) :
         /\ packages' = [packages EXCEPT !.records = @ \cup done]
         /\ names' = [WithTable(names, t) EXCEPT !.records = @ \cup done]
    /\ torn' = torn

(* packages.legacy.db or a table cannot be opened, a record not be added,  *)
(* or packages.legacy.db not be deleted: what was copied stays, as does    *)
(* packages.legacy.db.                                                     *)
TranslateFails(c) ==
    /\ job[c].at \in {"translate", "copy"} /\ Fault
    /\ \/ torn' = (torn \/ Halfway(c)) /\ UNCHANGED <<packages, names>>
       \/ CopiedInPart(c)
    /\ job' = [job EXCEPT ![c].at = "work", ![c].failed = TRUE, ![c].make = {},
                          ![c].table = None, ![c].ro = FALSE, ![c].back = None]
    /\ UNCHANGED <<lockfile, version, legacy, stored>>

Translated(c) ==
    /\ At(c, "translate") /\ job[c].make = {}
    /\ legacy' = None
    /\ job' = [job EXCEPT ![c].at = "primary", ![c].back = "work"]
    /\ UNCHANGED <<lockfile, version, packages, names, stored, torn, faults>>

-----------------------------------------------------------------------------
(* What a command does with an open table: what packages are there is read *)
(* by the secondary database.                                              *)

Visible(t) == {r.package : r \in {x \in Records(names) : x.target = t}}

AddRecord(c, p) ==
    /\ At(c, "open") /\ ~job[c].ro
    /\ p \notin Visible(job[c].table)
    /\ LET t == job[c].table
           r == [target |-> t, package |-> p, keyed |-> 1] IN
       /\ packages' = [packages EXCEPT !.records = @ \cup {r}]
       /\ names' = [names EXCEPT !.records = @ \cup {r}]
       /\ stored' = stored \cup {<<t, p>>}
    /\ UNCHANGED <<lockfile, version, legacy, job, torn, faults>>

(* Deleting by the cursor of the secondary database deletes in both.       *)
RemoveRecord(c, p) ==
    /\ At(c, "open") /\ ~job[c].ro
    /\ p \in Visible(job[c].table)
    /\ LET t == job[c].table
           gone == {x \in names.records : x.target = t /\ x.package = p} IN
       /\ packages' = [packages EXCEPT !.records = @ \ gone]
       /\ names' = [names EXCEPT !.records = @ \ gone]
       /\ stored' = stored \ {<<t, p>>}
    /\ UNCHANGED <<lockfile, version, legacy, job, torn, faults>>

CloseTable(c) ==
    /\ job[c].at \in {"open", "close table"}
    /\ job' = [job EXCEPT ![c].at = job[c].back, ![c].table = None, ![c].back = None, ![c].ro = FALSE]
    /\ UNCHANGED <<files, stored, torn, faults>>

-----------------------------------------------------------------------------
(* database_close                                                          *)

Close(c) ==
    /\ At(c, "close")
    /\ version' = Written(job[c].new)
    /\ ReleaseLock
    /\ Leave(c, "ended")
    /\ UNCHANGED <<packages, names, legacy, stored, torn, faults>>

(* Neither an unwritable version file nor an error when closing keeps the  *)
(* lock.                                                                   *)
CloseFails(c) ==
    /\ At(c, "close") /\ Fault
    /\ ReleaseLock
    /\ Leave(c, "ended")
    /\ UNCHANGED <<version, packages, names, legacy, stored, torn>>

Signal(c) ==
    /\ ~Over(c) /\ ~job[c].interrupted
    /\ job' = [job EXCEPT ![c].interrupted = TRUE]
    /\ UNCHANGED <<files, stored, torn, faults>>

Kill(c) ==
    /\ ~Over(c) /\ Fault
    /\ \/ torn' = (torn \/ Halfway(c)) /\ UNCHANGED <<packages, names>>
       \/ CopiedInPart(c)
    /\ Leave(c, "died")
    /\ UNCHANGED <<lockfile, version, legacy, stored>>

(* "Do not delete the lock file unless you are sure no other version is    *)
(* still running!"                                                         *)
DeleteLockfile ==
    /\ lockfile /\ \A c \in Command : ~Inside(c)
    /\ lockfile' = FALSE
    /\ UNCHANGED <<version, packages, names, legacy, job, stored, torn, faults>>

=============================================================================
