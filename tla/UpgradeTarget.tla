---------------------------- MODULE UpgradeTarget ----------------------------
(***************************************************************************)
(* One target in an update, a predelete or a pull (upgradelist.c and the   *)
(* parts of updates.c and pull.c that call it).  The rules are processed   *)
(* in their order: a delete rule marks everything, an index or a source    *)
(* distribution offers packages one by one.  When all rules are read and   *)
(* the files are there, the list is worked off, package by package; an     *)
(* error or a signal stops it at any of them, and the list is gone.        *)
(***************************************************************************)
EXTENDS UpgradeList

CONSTANTS
    Packages,   \* the packages in the order of their names
    InLists,    \* the actions to be found in the rules' filter lists,
    InCommand,  \* and those in the command line's
    MaxVersion  \* bound: versions

ASSUME PackagesAssumption ==
    /\ Packages \in Seq(Package)
    /\ InLists \cup InCommand \subseteq ListAction
    /\ MaxVersion \in Nat \ {0}

VARIABLES
    packages,    \* the version of each package in the target, 0 for none
    source,      \* the target is of source packages
    \* of the running process
    pc,
    command,
    restrict,    \* the command line's lists: [src, bin]
    list,        \* upgradelist->list
    todo,        \* the packages the loop over the list has left
    \* history of the run
    cleared,     \* packages a delete rule or a supersede has spoken of
    invited,     \* packages accepted with more than upgradeonly
    held         \* packages with nothing but holds and upgrades after that

process == <<command, restrict>>
history == <<cleared, invited, held>>
vars == <<packages, source, pc, process, list, todo, history>>

Version == 1..MaxVersion

Empty == [p \in Package |-> Unlisted]

(* What is candidate is never the version in use. *)
Sound(e) ==
    /\ e \in Entry
    /\ e.inuse \in 0..MaxVersion
    /\ e.new \in 0..MaxVersion
    /\ e.fromnew => e.new \notin {0, e.inuse}

TypeOK ==
    /\ packages \in [Package -> 0..MaxVersion]
    /\ source \in BOOLEAN
    /\ pc \in {"idle", "read", "install", "predelete"}
    /\ command \in {"update", "predelete", "pull"}
    /\ restrict \in [src : BOOLEAN, bin : BOOLEAN]
    /\ list \in [Package -> Entry]
    /\ \A p \in Package : Sound(list[p])
    /\ todo \in Seq(Package)
    /\ cleared \cup invited \cup held \subseteq Package

Init ==
    /\ packages \in [Package -> 0..MaxVersion]
    /\ source \in BOOLEAN
    /\ pc = "idle"
    /\ command = "update" /\ restrict = [src |-> FALSE, bin |-> FALSE]
    /\ list = Empty /\ todo = <<>>
    /\ cleared = {} /\ invited = {} /\ held = {}

(* upgradelist_initialize *)
Initialize ==
    /\ pc = "idle"
    /\ pc' = "read"
    /\ command' \in {"update", "predelete", "pull"}
    /\ restrict' \in [src : BOOLEAN, bin : BOOLEAN]
    /\ list' = [p \in Package |-> InUse(packages[p])]
    /\ cleared' = {} /\ invited' = {} /\ held' = {}
    /\ UNCHANGED <<packages, source, todo>>

(* A delete rule of the target *)
DeleteAll ==
    /\ pc = "read"
    /\ list' = [p \in Package |-> Cleared(list[p])]
    /\ cleared' = Package /\ held' = {}
    /\ UNCHANGED <<packages, source, pc, process, todo, invited>>

(* The answers a list of the command line can give. *)
Answers(given) == IF given THEN InCommand \cup {"auto_hold"} ELSE {"unchanged"}

Asked(action, src, bin) ==
    IF command = "pull"
        THEN AskedByRule(source, action, src, bin, restrict.bin)
        ELSE AskedByPattern(source, action, src, bin)

(***************************************************************************)
(* upgradelist_update or upgradelist_pull get to version v of package p:   *)
(* upgradelist_trypackage.  An error ends the whole run.                   *)
(***************************************************************************)
TryPackage(p, v, said, meets) ==
    LET d == Decision(said, meets, Current(list[p]))
        asked == Asks(list[p], v)
    IN  /\ pc = "read"
        /\ ~(asked /\ d = "error")
        /\ list' = [list EXCEPT ![p] = Tried(@, v, d)]
        /\ cleared' = IF asked /\ d = "supersede" THEN cleared \cup {p} ELSE cleared
        /\ invited' = IF asked /\ d = "upgrade" /\ said[1] # "upgradeonly"
                          THEN invited \cup {p} ELSE invited
        /\ held' = IF ~asked THEN held
                   ELSE IF d = "hold" THEN held \cup {p}
                   ELSE IF d = "supersede" THEN held \ {p} ELSE held
        /\ UNCHANGED <<packages, source, pc, process, todo>>

Offer ==
    \E p \in Package, v \in Version, action \in InLists, meets \in BOOLEAN :
        \E src \in Answers(restrict.src), bin \in Answers(restrict.bin) :
            TryPackage(p, v, Asked(action, src, bin), meets)

(***************************************************************************)
(* The list is given up (an action error in a filter list, an unreadable   *)
(* index, a failed download, --onlysmalldeletes, a failure or a signal     *)
(* while it is worked off), or it is done; or the process dies.            *)
(***************************************************************************)
Free ==
    /\ pc # "idle"
    /\ pc' = "idle"
    /\ command' = "update" /\ restrict' = [src |-> FALSE, bin |-> FALSE]
    /\ list' = Empty /\ todo' = <<>>
    /\ cleared' = {} /\ invited' = {} /\ held' = {}
    /\ UNCHANGED <<packages, source>>

(* All rules are read, and what they want is there. *)
Enqueue ==
    /\ pc = "read"
    /\ pc' = IF command = "predelete" THEN "predelete" ELSE "install"
    /\ todo' = Packages
    /\ UNCHANGED <<packages, source, process, list, history>>

(* One round of the loop of upgradelist_install *)
Install ==
    /\ pc = "install" /\ todo # <<>>
    /\ LET p == Head(todo)
       IN packages' = IF ToInstall(list[p]) \/ ToRemove(list[p])
                          THEN [packages EXCEPT ![p] = Result(list[p])] ELSE packages
    /\ todo' = Tail(todo)
    /\ UNCHANGED <<source, pc, process, list, history>>

(* One round of the loop of upgradelist_predelete *)
Predelete ==
    /\ pc = "predelete" /\ todo # <<>>
    /\ LET p == Head(todo)
       IN packages' = IF ToPredelete(list[p])
                          THEN [packages EXCEPT ![p] = 0] ELSE packages
    /\ todo' = Tail(todo)
    /\ UNCHANGED <<source, pc, process, list, history>>

Next == Initialize \/ DeleteAll \/ Offer \/ Enqueue \/ Install \/ Predelete \/ Free

Spec == Init /\ [][Next]_vars

---------------------------------------------------------------------------
(* What the runs check                                                     *)

(* What the list has to say of a package in the terms of Selection *)
MarkOf(e) == [best |-> Current(e), kept |-> Listed(e) /\ ~e.deleted]

Stage == CASE pc = "idle" -> "idle"
           [] pc = "read" -> "choosing"
           [] pc = "install" -> "acting"
           [] OTHER -> "clearing"

Marks == INSTANCE Selection WITH
    marks <- [p \in Package |-> MarkOf(list[p])],
    stage <- Stage

(***************************************************************************)
(* The juggling with version_in_use, version and new_version amounts to    *)
(* one mark per package, and what is installed is always the version that  *)
(* is marked as the best.                                                  *)
(***************************************************************************)
Selects == Marks!Spec

(***************************************************************************)
(* docs/reprepro.1: without a delete rule or a supersede an update or a    *)
(* pull never downgrades or removes a package.                             *)
(***************************************************************************)
NeverDowngrades ==
    [][\A p \in Package :
          packages'[p] < packages[p] => command = "predelete" \/ p \in cleared]_vars

(***************************************************************************)
(* A package not in the target is only added when some rule accepted it    *)
(* with another action than upgradeonly: upgradeonly alone adds nothing,   *)
(* whatever the other rules delete or hold.                                *)
(***************************************************************************)
AddedWereInvited ==
    [][\A p \in Package : packages[p] = 0 /\ packages'[p] # 0 => p \in invited \/ list[p].inuse # 0]_vars

(***************************************************************************)
(* A hold after the last delete rule (or supersede) keeps the package in   *)
(* the target, if not in the version it had.                               *)
(***************************************************************************)
HeldStay ==
    [][\A p \in held : packages[p] # 0 /\ packages'[p] = 0 => command = "predelete"]_vars

=============================================================================
