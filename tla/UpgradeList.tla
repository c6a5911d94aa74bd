----------------------------- MODULE UpgradeList -----------------------------
(***************************************************************************)
(* What an update or a pull decides about the packages of one target       *)
(* (upgradelist.c, filterlist.c, ud_decide_by_pattern in updates.c and     *)
(* ud_decide_by_rule in pull.c).                                           *)
(*                                                                         *)
(* The list has one record for each package of the target and of the       *)
(* indices read so far.  Versions are compared by dpkg's rules in the      *)
(* program, which are a total order: here they are numbers, and 0 is the   *)
(* NULL pointer.  The code tells by the identity of two pointers whether   *)
(* the version it settled on is the candidate (version == new_version):    *)
(* that is the field fromnew.                                              *)
(***************************************************************************)
EXTENDS Integers, Sequences, FiniteSets

CONSTANTS
    Package,   \* names of packages
    BigCount,  \* upgradelist_isbigdelete: 10, the least number of losses that is big
    BigShare   \* upgradelist_isbigdelete: 5, one loss in so many is small

ASSUME UpgradeAssumption ==
    /\ BigCount \in Nat \ {0}
    /\ BigShare \in Nat \ {0}

(* enum filterlisttype *)
ListAction ==
    {"install", "upgradeonly", "supersede", "deinstall", "purge", "warning", "hold", "error"}

(* struct package_data: inuse is version_in_use, new is new_version *)
Entry == [inuse : Nat, new : Nat, fromnew : BOOLEAN, deleted : BOOLEAN]

(* A package neither the target nor the indices have: it is not in the list. *)
Unlisted == [inuse |-> 0, new |-> 0, fromnew |-> FALSE, deleted |-> FALSE]

(* version *)
Current(e) == IF e.fromnew THEN e.new ELSE e.inuse

Listed(e) == Current(e) # 0

(* upgradelist_initialize with the version the target has *)
InUse(v) == [inuse |-> v, new |-> 0, fromnew |-> FALSE, deleted |-> FALSE]

---------------------------------------------------------------------------
(* The decision about one offered package                                  *)

(* A mutant: upgradeonly adds packages, too. *)
RefusesLess(action, known) == action \in {"deinstall", "purge", "warning"}

Refuses(action, known) ==
    \/ action \in {"deinstall", "purge", "warning"}
    \/ action = "upgradeonly" /\ known = 0

(***************************************************************************)
(* ud_decide_by_pattern and ud_decide_by_rule.  said is what the FilterList*)
(* (or FilterSrcList) of the rule, the --restrict and the --restrict-bin   *)
(* lists say of the package, in this order.  The first that refuses it or  *)
(* is an error ends the matter; otherwise the last that has an opinion     *)
(* counts.  A package on none of the command line's lists is held, unless  *)
(* it is on the other one.                                                 *)
(***************************************************************************)
Decision(said, meets, known) ==
    LET stops == {i \in DOMAIN said : said[i] = "error" \/ Refuses(said[i], known)}
        Undecided == said[2] \in {"auto_hold", "unchanged"}
        voices == {i \in DOMAIN said :
                      \/ said[i] \in {"hold", "supersede"}
                      \/ said[i] = "install" /\ i > 1
                      \/ said[i] = "auto_hold" /\ (i = 2 \/ Undecided)}
    IN  IF \E i \in stops : said[i] = "error" /\ \A j \in stops : i <= j
            THEN "error"
        ELSE IF stops # {} \/ ~meets
            THEN "no"
        ELSE IF \E i \in voices : said[i] \in {"hold", "auto_hold"} /\ \A j \in voices : j <= i
            THEN "hold"
        ELSE IF \E i \in voices : said[i] = "supersede" /\ \A j \in voices : j <= i
            THEN "supersede"
        ELSE "upgrade"

(***************************************************************************)
(* What they ask: an update looks at the --restrict-bin list for binary    *)
(* packages only; a pull takes from it for a source package only whether   *)
(* there is one (restricted).                                              *)
(***************************************************************************)
AskedByPattern(source, list, src, bin) ==
    IF source THEN <<list, src>> ELSE <<list, src, bin>>

AskedByRule(source, list, src, bin, restricted) ==
    <<list, src,
      IF ~source THEN bin ELSE IF restricted THEN "auto_hold" ELSE "unchanged">>

---------------------------------------------------------------------------
(* The list                                                                *)

(* An older candidate is only remembered, for checkupdate and checkpull. *)
Noticed(e, v) == IF ~e.fromnew /\ v > e.new THEN [e EXCEPT !.new = v] ELSE e

(* A mutant: the package stays marked as to be deleted. *)
EnteredStillDeleted(e, v) == [e EXCEPT !.new = v, !.fromnew = TRUE]

Entered(e, v) == [e EXCEPT !.new = v, !.fromnew = TRUE, !.deleted = FALSE]

(* The version accepted is the one at hand, so no candidate has to be installed. *)
Kept(e, v) == [e EXCEPT !.new = IF e.deleted /\ ~(e.fromnew /\ v = e.new) THEN v ELSE @,
                        !.fromnew = e.fromnew /\ v = e.new,
                        !.deleted = FALSE]

(* A mutant: older versions are not left aside. *)
AsksAlways(e, v) == TRUE

(* Whether upgradelist_trypackage asks for a decision at all *)
Asks(e, v) == ~Listed(e) \/ v > Current(e) \/ e.deleted

(* A mutant: a hold does not bring back a package marked as to be deleted. *)
TriedWithoutHold(e, v, d) ==
    IF ~Asks(e, v) THEN Noticed(e, v)
    ELSE CASE d = "upgrade" -> IF Listed(e) /\ v \in {Current(e), e.inuse}
                                   THEN Kept(e, v) ELSE Entered(e, v)
           [] d = "supersede" -> [e EXCEPT !.deleted = Listed(e)]
           [] OTHER -> e

(* upgradelist_trypackage with version v and the decision d *)
Tried(e, v, d) ==
    IF ~Asks(e, v) THEN Noticed(e, v)
    ELSE CASE d = "upgrade" -> IF Listed(e) /\ v \in {Current(e), e.inuse}
                                   THEN Kept(e, v) ELSE Entered(e, v)
           [] d = "hold" -> [e EXCEPT !.deleted = FALSE]
           [] d = "supersede" -> [e EXCEPT !.deleted = Listed(e)]
           [] OTHER -> e

(* upgradelist_deleteall *)
Cleared(e) == [e EXCEPT !.deleted = Listed(e)]

(* What upgradelist_enqueue requests and upgradelist_install adds *)
ToInstall(e) == e.fromnew /\ ~e.deleted

(* What upgradelist_install removes, and upgradelist_predelete, too, *)
(* besides the packages that have something newer                    *)
ToRemove(e) == e.deleted /\ e.inuse # 0

ToPredelete(e) == e.inuse # 0 /\ (e.fromnew \/ e.deleted)

(* The version the target has after upgradelist_install is done with it *)
Result(e) == IF ToInstall(e) THEN e.new ELSE IF ToRemove(e) THEN 0 ELSE e.inuse

(* A mutant: the packages that are to be added count, too. *)
IsBigDeleteOfAll(list) ==
    LET all == {p \in Package : Listed(list[p])}
        deleted == {p \in all : list[p].inuse # 0 /\ list[p].deleted}
    IN  /\ Cardinality(deleted) >= BigCount
        /\ Cardinality(all) \div Cardinality(deleted) < BigShare

(* upgradelist_isbigdelete: all/deleted < BigShare in integers *)
IsBigDelete(list) ==
    LET all == {p \in Package : list[p].inuse # 0}
        deleted == {p \in all : list[p].deleted}
    IN  /\ Cardinality(deleted) >= BigCount
        /\ Cardinality(all) \div Cardinality(deleted) < BigShare

(* upgradelist_woulddelete *)
WouldDelete(list) == \E p \in Package : ToRemove(list[p])

=============================================================================
