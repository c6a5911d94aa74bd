---------------------------- MODULE PackageRefs ----------------------------
(***************************************************************************)
(* The package databases (packages.db) and the reference database          *)
(* (references.db) of reprepro, one database write per step.               *)
(*                                                                         *)
(* target.c keeps, for every target, the records of the packages in it,    *)
(* and reference.c keeps a bag of pairs (file of the pool, who needs it).  *)
(* There is no transaction around an operation: a write may fail, and the  *)
(* process may die between any two writes.  What must survive is that      *)
(* every file of every listed package stays referenced by its target, as   *)
(* a file without references is one that the clean-up deletes.             *)
(*                                                                         *)
(* A distribution is modelled with one target, so Target stands for both.  *)
(* A call of target_addpackage is an activation record frame[t]: the only  *)
(* recursion of the code is through archive_package into the target of the *)
(* archive distribution, which has to be declared earlier, so a target     *)
(* never has two activations at a time.                                    *)
(***************************************************************************)
EXTENDS Integers, FiniteSets

CONSTANTS
    Target,      \* the targets
    NoTarget,    \* "no Archive: header"
    FileKey,     \* the files in pool/
    Package,     \* the control chunks that can be put into a target
    NoPackage,   \* "no old package"
    Name,        \* Name[p], the name of package p
    Version,     \* Version[p], its version; a larger number is newer
    Files,       \* Files[p], the filekeys it lists (getfilekeys)
    Archive,     \* Archive[t], the target of the archive distribution
    ReadOnly,    \* the targets of distributions with "ReadOnly: yes"
    Limit,       \* Limit[t], versions kept per name; < 1 keeps all
    MaxFaults    \* bound: failing writes and crashes in a behaviour

ASSUME TargetAssumption ==
    /\ NoTarget \notin Target
    /\ Archive \in [Target -> Target \cup {NoTarget}]
    /\ \A t \in Target : Archive[t] # t
    /\ ReadOnly \subseteq Target
    /\ Limit \in [Target -> Int]

ASSUME PackageAssumption ==
    /\ IsFiniteSet(Package)
    /\ NoPackage \notin Package
    /\ Version \in [Package -> Int]
    /\ DOMAIN Name = Package
    /\ Files \in [Package -> SUBSET FileKey]

ASSUME FaultAssumption == MaxFaults \in Nat

VARIABLES
    packages,    \* packages.db: the records of every target
    refs,        \* references.db: how often target t references file f
    frame,       \* the activation record of every target
    faults,      \* failures so far
    damaged,     \* history: targets whose references no longer cover them
    leaky        \* history: targets that may hold a reference too many

vars == <<packages, refs, frame, faults, damaged, leaky>>

-----------------------------------------------------------------------------

(***************************************************************************)
(* Where a target can be in target_addpackage, target_removepackage or     *)
(* target_rereference.  "archiving" waits for the nested call.             *)
(***************************************************************************)
PC == {"idle", "insert", "archive", "archiving", "delete", "add", "unref",
       "trim", "rmdelete", "forget", "relist", "done"}

Frame == [pc : PC,
          new : Package \cup {NoPackage},  \* the package being added
          old : Package \cup {NoPackage},  \* the one to be replaced or removed
          todo : SUBSET FileKey,           \* files the current loop has left
          trim : SUBSET Package,           \* packages the iterator has left
          trimming : BOOLEAN,              \* past addpackages, in the trim loop
          res : {"ok", "nothing", "error"}]

Idle == [pc |-> "idle", new |-> NoPackage, old |-> NoPackage, todo |-> {},
         trim |-> {}, trimming |-> FALSE, res |-> "nothing"]

TypeOK ==
    /\ packages \in [Target -> SUBSET Package]
    /\ refs \in [Target -> [FileKey -> Nat]]
    /\ frame \in [Target -> Frame]
    /\ faults \in 0..MaxFaults
    /\ damaged \subseteq Target
    /\ leaky \subseteq Target

Init ==
    /\ packages = [t \in Target |-> {}]
    /\ refs = [t \in Target |-> [f \in FileKey |-> 0]]
    /\ frame = [t \in Target |-> Idle]
    /\ faults = 0
    /\ damaged = {}
    /\ leaky = {}

FilesOf(p) == IF p = NoPackage THEN {} ELSE Files[p]

(***************************************************************************)
(* The primary key of packages.db is "name|version".                       *)
(***************************************************************************)
SameKey(p, q) == Name[p] = Name[q] /\ Version[p] = Version[q]

(***************************************************************************)
(* A write that fails uses up one of the failures of the behaviour.        *)
(***************************************************************************)
Fault == faults < MaxFaults /\ faults' = faults + 1

SetFrame(t, fr) == frame' = [frame EXCEPT ![t] = fr]

-----------------------------------------------------------------------------

(***************************************************************************)
(* The first half of target_addpackage: which record is replaced, which    *)
(* older ones the iterator will trim, or whether the package is skipped.   *)
(* Versions of a name are visited newest first, so the record at index     *)
(* Limit - 1 is the one with Limit - 1 newer ones.                         *)
(***************************************************************************)
Named(t, p) == {q \in packages[t] : Name[q] = Name[p]}

Older(t, q) == {r \in Named(t, q) : Version[r] < Version[q]}

(* Mutant: one version too many is kept. *)
BeyondLimit(t, p) ==
    {q \in Named(t, p) :
        Cardinality({r \in Named(t, p) : Version[r] > Version[q]}) = Limit[t]}

AtLimit(t, p) ==
    {q \in Named(t, p) :
        Cardinality({r \in Named(t, p) : Version[r] > Version[q]}) = Limit[t] - 1}

(* Mutant: references_insert without the exclude list. *)
ReplacingAll(p, old, trim) ==
    [pc |-> "insert", new |-> p, old |-> old, todo |-> Files[p], trim |-> trim,
     trimming |-> FALSE, res |-> "ok"]

Replacing(p, old, trim) ==
    [pc |-> "insert", new |-> p, old |-> old,
     todo |-> Files[p] \ FilesOf(old), trim |-> trim,
     trimming |-> FALSE, res |-> "ok"]

(* A record added behind the cursor's position is met by it later. *)
Behind(t, p, q) == Older(t, q) \cup (IF Version[p] < Version[q] THEN {p} ELSE {})

Skipped == [Idle EXCEPT !.pc = "done"]

(* The frames target_addpackage(t, p, downgrade) may start with. *)
AddFrames(t, p, downgrade) ==
    LET same == {q \in packages[t] : SameKey(q, p)}
    IN  IF same # {}
        THEN IF downgrade THEN {Replacing(p, q, {}) : q \in same} ELSE {Skipped}
        ELSE IF Limit[t] < 1 \/ AtLimit(t, p) = {}
        THEN {Replacing(p, NoPackage, {})}
        ELSE {IF Version[p] < Version[q] /\ ~downgrade
              THEN Skipped
              ELSE Replacing(p, q, Behind(t, p, q)) : q \in AtLimit(t, p)}

(***************************************************************************)
(* Operations start when the process is doing nothing else.                *)
(***************************************************************************)
AllIdle == \A t \in Target : frame[t] = Idle

AddPackage(t, p, downgrade) ==
    /\ AllIdle
    /\ t \notin ReadOnly
    /\ \E fr \in AddFrames(t, p, downgrade) : SetFrame(t, fr)
    /\ UNCHANGED <<packages, refs, faults, damaged, leaky>>

RemovePackage(t, p) ==
    /\ AllIdle
    /\ t \notin ReadOnly
    /\ p \in packages[t]
    /\ SetFrame(t, [Idle EXCEPT !.pc = "rmdelete", !.old = p,
                                !.trimming = TRUE, !.res = "ok"])
    /\ UNCHANGED <<packages, refs, faults, damaged, leaky>>

(* A target is not covered by its references until all are back. *)
Rereference(t) ==
    /\ AllIdle
    /\ SetFrame(t, [Idle EXCEPT !.pc = "forget", !.todo = FileKey, !.res = "ok"])
    /\ damaged' = damaged \cup {t}
    /\ UNCHANGED <<packages, refs, faults, leaky>>

-----------------------------------------------------------------------------

(***************************************************************************)
(* addpackages: references_insert of the files the old package has not,    *)
(* a failing one is remembered while the loop goes on.                     *)
(***************************************************************************)
InsertOne(t) ==
    LET fr == frame[t] IN
    /\ fr.pc = "insert"
    /\ \E f \in fr.todo :
        \/ /\ refs' = [refs EXCEPT ![t][f] = @ + 1]
           /\ SetFrame(t, [fr EXCEPT !.todo = @ \ {f}])
           /\ UNCHANGED <<faults, leaky>>
        \/ /\ Fault
           /\ SetFrame(t, [fr EXCEPT !.todo = @ \ {f}, !.res = "error"])
           /\ leaky' = leaky \cup {t}
           /\ UNCHANGED refs
    /\ UNCHANGED <<packages, damaged>>

InsertEnd(t) ==
    LET fr == frame[t] IN
    /\ fr.pc = "insert"
    /\ fr.todo = {}
    /\ SetFrame(t, IF fr.res = "error" THEN [fr EXCEPT !.pc = "trim", !.trimming = TRUE]
                   ELSE IF fr.old = NoPackage THEN [fr EXCEPT !.pc = "add"]
                   ELSE [fr EXCEPT !.pc = "archive"])
    /\ UNCHANGED <<packages, refs, faults, damaged, leaky>>

(* Mutant: the result of archive_package is ignored. *)
ArchivedAnyway(fr, ok) ==
    [fr EXCEPT !.pc = IF fr.trimming THEN "rmdelete" ELSE "delete"]

(***************************************************************************)
(* What the caller of archive_package does with its result: addpackages    *)
(* leaves the old record alone if it failed, and goes on; the trim loop    *)
(* skips the package.                                                      *)
(***************************************************************************)
Archived(fr, ok) ==
    IF ok THEN [fr EXCEPT !.pc = IF fr.trimming THEN "rmdelete" ELSE "delete"]
          ELSE [fr EXCEPT !.pc = IF fr.trimming THEN "trim" ELSE "add",
                          !.res = "error"]

(***************************************************************************)
(* archive_package: no archive (or one without this component and          *)
(* architecture) is a success, a read-only one or a database that cannot   *)
(* be opened an error; otherwise the package is added to it.               *)
(***************************************************************************)
ArchivePackage(t) ==
    LET fr == frame[t]
        a  == Archive[t] IN
    /\ fr.pc = "archive"
    /\ \/ /\ a = NoTarget
          /\ SetFrame(t, Archived(fr, TRUE))
          /\ UNCHANGED faults
       \/ /\ a # NoTarget /\ a \in ReadOnly
          /\ SetFrame(t, Archived(fr, FALSE))
          /\ UNCHANGED faults
       \/ /\ a # NoTarget /\ a \notin ReadOnly
          /\ Fault
          /\ SetFrame(t, Archived(fr, FALSE))
       \/ /\ a # NoTarget /\ a \notin ReadOnly
          /\ frame[a] = Idle
          /\ \E callee \in AddFrames(a, fr.old, FALSE) :
                frame' = [frame EXCEPT ![t] = [fr EXCEPT !.pc = "archiving"],
                                       ![a] = callee]
          /\ UNCHANGED faults
    /\ UNCHANGED <<packages, refs, damaged, leaky>>

ArchiveReturn(t) ==
    LET fr == frame[t]
        a  == Archive[t] IN
    /\ fr.pc = "archiving"
    /\ a # NoTarget /\ frame[a].pc = "done"
    /\ frame' = [frame EXCEPT ![t] = Archived(fr, frame[a].res # "error"),
                              ![a] = Idle]
    /\ UNCHANGED <<packages, refs, faults, damaged, leaky>>

(* table_deleterecord of the old package; addpackages goes on if it fails. *)
DeleteOld(t) ==
    LET fr == frame[t] IN
    /\ fr.pc = "delete"
    /\ \/ /\ packages' = [packages EXCEPT ![t] = @ \ {fr.old}]
          /\ SetFrame(t, [fr EXCEPT !.pc = "add"])
          /\ UNCHANGED faults
       \/ /\ Fault
          /\ SetFrame(t, [fr EXCEPT !.pc = "add", !.res = "error"])
          /\ UNCHANGED packages
    /\ UNCHANGED <<refs, damaged, leaky>>

(* Mutant: references_delete without the exclude list. *)
AddNewDropAll(t) ==
    LET fr == frame[t] IN
    /\ fr.pc = "add"
    /\ \A q \in packages[t] : ~SameKey(q, fr.new)
    /\ packages' = [packages EXCEPT ![t] = @ \cup {fr.new}]
    /\ SetFrame(t, [fr EXCEPT !.pc = "unref", !.trimming = TRUE,
                              !.todo = FilesOf(fr.old)])
    /\ UNCHANGED <<refs, faults, damaged, leaky>>

(***************************************************************************)
(* table_adduniqrecord.  The references that only the old package needed   *)
(* are dropped next whether or not its record is gone.                     *)
(***************************************************************************)
AddNew(t) ==
    LET fr == frame[t] IN
    /\ fr.pc = "add"
    /\ \/ /\ \A q \in packages[t] : ~SameKey(q, fr.new)
          /\ packages' = [packages EXCEPT ![t] = @ \cup {fr.new}]
          /\ SetFrame(t, [fr EXCEPT !.pc = "unref", !.trimming = TRUE,
                                    !.todo = FilesOf(fr.old) \ Files[fr.new]])
          /\ damaged' = IF fr.old \in packages[t] THEN damaged \cup {t} ELSE damaged
          /\ UNCHANGED <<faults, leaky>>
       \/ /\ \E q \in packages[t] : SameKey(q, fr.new)
          /\ SetFrame(t, [fr EXCEPT !.pc = "trim", !.trimming = TRUE, !.res = "error"])
          /\ leaky' = leaky \cup {t}
          /\ UNCHANGED <<packages, faults, damaged>>
       \/ /\ Fault
          /\ SetFrame(t, [fr EXCEPT !.pc = "trim", !.trimming = TRUE, !.res = "error"])
          /\ leaky' = leaky \cup {t}
          /\ UNCHANGED <<packages, damaged>>
    /\ UNCHANGED refs

(***************************************************************************)
(* references_delete, one references_decrement at a time.  A reference     *)
(* that is not there is no error.                                          *)
(***************************************************************************)
UnrefOne(t) ==
    LET fr == frame[t] IN
    /\ fr.pc = "unref"
    /\ \E f \in fr.todo :
        \/ /\ refs' = [refs EXCEPT ![t][f] = IF @ > 0 THEN @ - 1 ELSE 0]
           /\ SetFrame(t, [fr EXCEPT !.todo = @ \ {f}])
           /\ UNCHANGED <<faults, leaky>>
        \/ /\ Fault
           /\ SetFrame(t, [fr EXCEPT !.todo = @ \ {f}, !.res = "error"])
           /\ leaky' = leaky \cup {t}
           /\ UNCHANGED refs
    /\ UNCHANGED <<packages, damaged>>

UnrefEnd(t) ==
    LET fr == frame[t] IN
    /\ fr.pc = "unref"
    /\ fr.todo = {}
    /\ SetFrame(t, [fr EXCEPT !.pc = "trim"])
    /\ UNCHANGED <<packages, refs, faults, damaged, leaky>>

(* Mutant: the iterator does not move past a package it skips. *)
TrimNextStuck(t) ==
    LET fr == frame[t] IN
    /\ fr.pc = "trim"
    /\ \/ /\ fr.trim = {}
          /\ SetFrame(t, [fr EXCEPT !.pc = "done"])
       \/ \E q \in fr.trim :
            SetFrame(t, IF SameKey(q, fr.new) THEN fr
                        ELSE [fr EXCEPT !.pc = "archive", !.old = q,
                                        !.trim = @ \ {q}])
    /\ UNCHANGED <<packages, refs, faults, damaged, leaky>>

(***************************************************************************)
(* The loop at the end of target_addpackage: every version older than the  *)
(* replaced one is archived and then removed, newest first.                *)
(***************************************************************************)
TrimNext(t) ==
    LET fr == frame[t] IN
    /\ fr.pc = "trim"
    /\ \/ /\ fr.trim = {}
          /\ SetFrame(t, [fr EXCEPT !.pc = "done"])
       \/ \E q \in fr.trim :
            /\ \A r \in fr.trim : Version[r] =< Version[q]
            /\ SetFrame(t, IF SameKey(q, fr.new)
                           THEN [fr EXCEPT !.trim = @ \ {q}]
                           ELSE [fr EXCEPT !.pc = "archive", !.old = q,
                                           !.trim = @ \ {q}])
    /\ UNCHANGED <<packages, refs, faults, damaged, leaky>>

(* package_remove and package_remove_by_cursor. *)
RemoveRecord(t) ==
    LET fr == frame[t] IN
    /\ fr.pc = "rmdelete"
    /\ \/ /\ packages' = [packages EXCEPT ![t] = @ \ {fr.old}]
          /\ SetFrame(t, [fr EXCEPT !.pc = "unref", !.todo = FilesOf(fr.old)])
          /\ UNCHANGED faults
       \/ /\ Fault
          /\ SetFrame(t, [fr EXCEPT !.pc = "trim", !.res = "error"])
          /\ UNCHANGED packages
    /\ UNCHANGED <<refs, damaged, leaky>>

(***************************************************************************)
(* target_rereference: references_remove deletes every reference by the    *)
(* target (a record that cannot be deleted stays and the walk goes on),    *)
(* then every package is referenced anew.                                  *)
(***************************************************************************)
ForgetOne(t) ==
    LET fr == frame[t] IN
    /\ fr.pc = "forget"
    /\ \E f \in fr.todo :
        \/ /\ refs' = [refs EXCEPT ![t][f] = 0]
           /\ SetFrame(t, [fr EXCEPT !.todo = @ \ {f}])
           /\ UNCHANGED faults
        \/ /\ Fault
           /\ \E n \in 1..refs[t][f] : refs' = [refs EXCEPT ![t][f] = n]
           /\ SetFrame(t, [fr EXCEPT !.todo = @ \ {f}, !.res = "error"])
    /\ UNCHANGED <<packages, damaged, leaky>>

ForgetEnd(t) ==
    LET fr == frame[t] IN
    /\ fr.pc = "forget"
    /\ fr.todo = {}
    /\ \/ /\ SetFrame(t, [fr EXCEPT !.pc = "relist", !.trim = packages[t]])
          /\ UNCHANGED faults
       \/ /\ Fault              \* the package database cannot be opened
          /\ SetFrame(t, [fr EXCEPT !.pc = "done", !.res = "error"])
    /\ UNCHANGED <<packages, refs, damaged, leaky>>

RelistOne(t) ==
    LET fr == frame[t] IN
    /\ fr.pc = "relist"
    /\ \E p \in fr.trim :
        \/ /\ refs' = [refs EXCEPT ![t] =
                        [f \in FileKey |-> IF f \in Files[p] THEN @[f] + 1 ELSE @[f]]]
           /\ SetFrame(t, [fr EXCEPT !.trim = @ \ {p}])
           /\ UNCHANGED faults
        \/ /\ Fault
           /\ \E S \in SUBSET Files[p] \ {Files[p]} :
                refs' = [refs EXCEPT ![t] =
                          [f \in FileKey |-> IF f \in S THEN @[f] + 1 ELSE @[f]]]
           /\ SetFrame(t, [fr EXCEPT !.trim = @ \ {p}, !.res = "error"])
    /\ UNCHANGED <<packages, damaged, leaky>>

RelistEnd(t) ==
    LET fr == frame[t] IN
    /\ fr.pc = "relist"
    /\ fr.trim = {}
    /\ SetFrame(t, [fr EXCEPT !.pc = "done"])
    /\ IF fr.res = "error"
       THEN UNCHANGED <<damaged, leaky>>
       ELSE damaged' = damaged \ {t} /\ leaky' = leaky \ {t}
    /\ UNCHANGED <<packages, refs, faults>>

(* An operation that nobody archived for returns to its command. *)
Return(t) ==
    /\ frame[t].pc = "done"
    /\ \A u \in Target : frame[u].pc = "archiving" => Archive[u] # t
    /\ SetFrame(t, Idle)
    /\ UNCHANGED <<packages, refs, faults, damaged, leaky>>

-----------------------------------------------------------------------------

(***************************************************************************)
(* The process dies: the databases stay as they are.                       *)
(***************************************************************************)
Crash ==
    /\ ~AllIdle
    /\ Fault
    /\ frame' = [t \in Target |-> Idle]
    /\ leaky' = leaky \cup {t \in Target : frame[t] # Idle}
    /\ UNCHANGED <<packages, refs, damaged>>

Step(t) ==
    \/ InsertOne(t) \/ InsertEnd(t)
    \/ ArchivePackage(t) \/ ArchiveReturn(t)
    \/ DeleteOld(t) \/ AddNew(t)
    \/ UnrefOne(t) \/ UnrefEnd(t)
    \/ TrimNext(t) \/ RemoveRecord(t)
    \/ ForgetOne(t) \/ ForgetEnd(t)
    \/ RelistOne(t) \/ RelistEnd(t)
    \/ Return(t)

Begin(t) ==
    \/ \E p \in Package : \E downgrade \in BOOLEAN : AddPackage(t, p, downgrade)
    \/ \E p \in Package : RemovePackage(t, p)
    \/ Rereference(t)

Next ==
    \/ \E t \in Target : Begin(t) \/ Step(t)
    \/ Crash

Spec == Init /\ [][Next]_vars

(***************************************************************************)
(* A running process goes on with its current operation.                   *)
(***************************************************************************)
FairSpec == Spec /\ WF_vars(\E t \in Target : Step(t))

-----------------------------------------------------------------------------

(* How many packages of the set P need file f. *)
Count(P, f) == Cardinality({p \in P : f \in Files[p]})

(***************************************************************************)
(* Every file of every listed package is referenced by its target, at      *)
(* every step of every operation and so after a crash anywhere, except in  *)
(* a target whose references were lost in one of the two known ways: an    *)
(* old record that stayed after its references were dropped (the archive   *)
(* or the deletion failed), or a rereference that did not finish.          *)
(***************************************************************************)
PackagesReferenced ==
    \A t \in Target \ damaged : \A p \in packages[t] : \A f \in Files[p] :
        refs[t][f] > 0

(***************************************************************************)
(* Between operations a target that never saw a failure holds exactly one  *)
(* reference per listed package and file: none too few, as a file shared   *)
(* by two packages must survive the removal of one, and none too many, as  *)
(* the file could never be deleted.                                        *)
(***************************************************************************)
ReferencesExact ==
    \A t \in Target \ (damaged \cup leaky) :
        frame[t] = Idle => \A f \in FileKey : refs[t][f] = Count(packages[t], f)

(***************************************************************************)
(* The accounting behind both, for a target with records P, references R   *)
(* and activation fr, d and l telling whether it is damaged or leaky.      *)
(* Owed is the set of files of which one reference more is there than the  *)
(* records account for: those inserted for a package not yet listed, or    *)
(* not yet dropped for a package no longer listed.                         *)
(***************************************************************************)
BeforeAdd(fr) ==
    \/ fr.pc \in {"delete", "add"}
    \/ fr.pc \in {"archive", "archiving"} /\ ~fr.trimming

Owed(P, fr) ==
    IF fr.pc = "insert" /\ fr.res # "error"
    THEN (Files[fr.new] \ FilesOf(fr.old)) \ fr.todo
    ELSE IF BeforeAdd(fr) /\ fr.old \in P THEN Files[fr.new] \ FilesOf(fr.old)
    ELSE IF BeforeAdd(fr) THEN Files[fr.new] \cup FilesOf(fr.old)
    ELSE IF fr.pc = "unref" THEN fr.todo
    ELSE {}

Balance(P, fr, f) == Count(P, f) + (IF f \in Owed(P, fr) THEN 1 ELSE 0)

(* What the steps know of their activation. *)
FrameOK(P, fr) ==
    /\ fr.pc = "insert" \/ BeforeAdd(fr) => fr.new \in Package
    /\ fr.pc = "insert" => /\ ~fr.trimming
                           /\ fr.old = NoPackage \/ fr.old \in P
                           /\ fr.todo \subseteq Files[fr.new] \ FilesOf(fr.old)
    /\ fr.pc \in {"archive", "archiving", "delete", "rmdelete"} => fr.old \in P
    /\ fr.pc \in {"rmdelete", "unref", "trim"} => fr.trimming
    /\ fr.trim \ {fr.new} \subseteq P
    /\ fr.old \notin fr.trim

(* A rereference in progress has so far counted the packages it has seen. *)
Relisting(P, R, fr, d) ==
    /\ fr.pc \in {"forget", "relist"} => d /\ fr.old = NoPackage
    /\ fr.pc = "forget" /\ fr.res # "error" => \A f \in FileKey \ fr.todo : R[f] = 0
    /\ fr.pc = "relist" => fr.trim \subseteq P
    /\ fr.pc = "relist" /\ fr.res # "error"
            => \A f \in FileKey : R[f] = Count(P \ fr.trim, f)

Accounts(P, R, fr, d, l) ==
    /\ FrameOK(P, fr)
    /\ Relisting(P, R, fr, d)
    /\ fr.pc = "insert" /\ fr.res = "error" => l
    /\ ~d => \A f \in FileKey : R[f] >= Balance(P, fr, f)
    /\ ~d /\ ~l => \A f \in FileKey : R[f] = Balance(P, fr, f)

(***************************************************************************)
(* The books of every target balance at every step: no crash can make a    *)
(* target hold fewer references than its records need.                     *)
(***************************************************************************)
Accounting ==
    \A t \in Target :
        Accounts(packages[t], refs[t], frame[t], t \in damaged, t \in leaky)

(***************************************************************************)
(* A target_addpackage that succeeded with a new version leaves at most    *)
(* Limit versions of the name, even if earlier failures or another Limit   *)
(* left more.  (Replacing an equal version does not look at the limit.)    *)
(***************************************************************************)
LimitEnforced ==
    \A t \in Target :
        LET fr == frame[t] IN
        fr.pc = "done" /\ fr.res = "ok" /\ fr.new # NoPackage /\ Limit[t] > 0
            => \/ Cardinality(Named(t, fr.new)) =< Limit[t]
               \/ fr.old # NoPackage /\ SameKey(fr.old, fr.new)

(***************************************************************************)
(* A version that an addition takes out of a target is in the archive by   *)
(* then: the record is removed only after archive_package succeeded.       *)
(* (Stated for archives without Limit, the others may decline it.)         *)
(***************************************************************************)
ArchivedBeforeRemoval ==
    [][\A t \in Target :
        LET a == Archive[t] IN
        frame[t].new # NoPackage /\ a # NoTarget /\ Limit[a] < 1
            => \A p \in packages[t] \ packages'[t] :
                    \E q \in packages[a] : SameKey(q, p)]_vars

(***************************************************************************)
(* Every operation comes to its end: the nested archive calls return and   *)
(* the trim loop stops.                                                    *)
(***************************************************************************)
OperationsFinish == []<>AllIdle

=============================================================================
