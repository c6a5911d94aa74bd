------------------------------ MODULE Copying ------------------------------
(***************************************************************************)
(* copy, move and restore (copypackages.c): packages are chosen and listed *)
(* first, by the targets they come from and go to, then added one after    *)
(* the other and, for a move, removed where they came from.  Distributions *)
(* are functions of their names, [limit, targets], targets functions of    *)
(* component, architecture and type; a package is [name, version, source,  *)
(* sourceversion].  Their tracking data is left out.                       *)
(***************************************************************************)
EXTENDS Integers, SequencesExt, FiniteSetsExt

Nowhere == "nowhere"   \* where the packages of a snapshot come from

Greater(p, q) == p.name > q.name \/ (p.name = q.name /\ p.version > q.version)

(* list_newpackage: the list the package is put in is that of the first    *)
(* with the same target or the same origin; a target is only left out if   *)
(* neither is.                                                             *)
ListFor(lists, into, from) ==
    LET at == SelectInSeq(lists, LAMBDA t : t.into = into \/ t.from = from)
    IN  IF at = 0 THEN [lists |-> Append(lists, [into |-> into, from |-> from, packages |-> <<>>]),
                        at |-> Len(lists) + 1]
        ELSE [lists |-> lists, at |-> at]

NewPackage(lists, into, from, p) ==
    LET l == ListFor(lists, into, from)
        packages == l.lists[l.at].packages
        before == Len(SelectSeq(packages, LAMBDA q : Greater(q, p)))
    IN  IF p \in Range(packages) THEN [ok |-> FALSE, lists |-> lists]
        ELSE [ok |-> TRUE, lists |-> [l.lists EXCEPT ![l.at].packages = InsertAt(@, before + 1, p)]]

(* What is missing has files that are not in the pool.                     *)
PrepareAdd(s, into, from, p, missing) ==
    IF ~s.ok THEN s
    ELSE IF p \in missing THEN [s EXCEPT !.ok = FALSE]
    ELSE NewPackage(s.lists, into, from, p)

-----------------------------------------------------------------------------
(* How packages are chosen: names, each with a version or 0 for the newest *)
(* one, where only the first of equal ones counts; a source and versions   *)
(* of it; or what a glob or formula says.                                  *)
Newest(packages) == {p \in packages : \A q \in packages : q.version <= p.version}

Get(packages, d) ==
    LET named == {p \in packages : p.name = d.name}
    IN  IF d.version = 0 THEN Newest(named) ELSE {p \in named : p.version = d.version}

ByName(packages, names) ==
    FlattenSeq([i \in DOMAIN names |->
        IF \E j \in 1..(i - 1) : names[j] = names[i] THEN <<>> ELSE SetToSeq(Get(packages, names[i]))])

FromSource(p, wanted) ==
    p.source = wanted.source /\ (wanted.versions = {} \/ p.sourceversion \in wanted.versions)

Choose(packages, by) ==
    CASE by.kind = "name" -> ByName(packages, by.names)
      [] by.kind = "source" -> SetToSortSeq({p \in packages : FromSource(p, by)}, Greater)
      [] by.kind = "glob" -> SetToSortSeq({p \in packages : p.name \in by.matching}, Greater)

(* From a snapshot all versions of a name are taken.                       *)
AnyVersion(by) ==
    IF by.kind = "name" THEN [kind |-> "glob", matching |-> {by.names[i].name : i \in DOMAIN by.names}] ELSE by

(* origin[t]: what is noted as the target a package of t comes from.       *)
Listed(order, contents, by, origin, missing) ==
    LET OfTarget(s, t) ==
            FoldLeft(LAMBDA l, p : PrepareAdd(l, t, origin[t], p, missing), s, Choose(contents[t], by))
    IN  FoldLeft(OfTarget, [ok |-> TRUE, lists |-> <<>>],
                 SelectSeq(order, LAMBDA t : t \in DOMAIN origin))

-----------------------------------------------------------------------------
(* target_addpackage, downgrading: with a limit of one version another one *)
(* of the name is replaced.                                                *)
WithPackage(packages, p, limit) ==
    {q \in packages : q.name # p.name \/ (limit # 1 /\ q.version # p.version)} \cup {p}

(* A mutant: a package is removed although it could not be added.          *)
PackageAddAnyway(dists, into, from, t, f, p, move, failing) ==
    LET added == IF <<"add", p>> \in failing THEN dists
                 ELSE [dists EXCEPT ![into].targets[t] = WithPackage(@, p, dists[into].limit)]
    IN  IF ~move \/ <<"remove", p>> \in failing THEN added
        ELSE [added EXCEPT ![from].targets[f] = @ \ {p}]

PackageAdd(dists, into, from, t, f, p, move, failing) ==
    LET added == [dists EXCEPT ![into].targets[t] = WithPackage(@, p, dists[into].limit)]
    IN  IF <<"add", p>> \in failing THEN dists
        ELSE IF ~move \/ <<"remove", p>> \in failing THEN added
        ELSE [added EXCEPT ![from].targets[f] = @ \ {p}]

PackagelistAdd(dists, into, from, lists, move, failing) ==
    LET OfList(ds, l) ==
            FoldLeft(LAMBDA d, p : PackageAdd(d, into, from, l.into, l.from, p, move, failing), ds, l.packages)
    IN  FoldLeft(OfList, dists, lists)

(* copy_by_name, copy_by_source, copy_by_glob and copy_by_formula; order   *)
(* is that of the targets in the configuration, matching are those         *)
(* selected by options.                                                    *)
Copy(dists, into, from, order, matching, by, move, missing, failing) ==
    LET both == matching \cap DOMAIN dists[from].targets \cap DOMAIN dists[into].targets
        s == Listed(order, dists[from].targets, by, [t \in both |-> t], missing)
    IN  IF s.ok THEN PackagelistAdd(dists, into, from, s.lists, move, failing) ELSE dists

(* restore_from_snapshot; a snapshot is a function of the targets.         *)
Restore(dists, into, snapshot, order, matching, by, missing, failing) ==
    LET both == matching \cap DOMAIN dists[into].targets \cap DOMAIN snapshot
        s == Listed(order, snapshot, AnyVersion(by), [t \in both |-> Nowhere], missing)
    IN  IF s.ok THEN PackagelistAdd(dists, into, Nowhere, s.lists, FALSE, failing) ELSE dists

-----------------------------------------------------------------------------
(* What is asked for, of the packages of a target                          *)
Wanted(packages, by) ==
    CASE by.kind = "name" -> UNION {Get(packages, by.names[i]) : i \in DOMAIN by.names}
      [] by.kind = "source" -> {p \in packages : FromSource(p, by)}
      [] by.kind = "glob" -> {p \in packages : p.name \in by.matching}

Twice(packages, by) ==
    by.kind = "name" /\ \E i, j \in DOMAIN by.names :
        by.names[i] # by.names[j] /\ Get(packages, by.names[i]) \cap Get(packages, by.names[j]) # {}

(* A limited distribution ends up with the lowest of several versions.     *)
Kept(packages, limit) ==
    {p \in packages : limit = 1 => \A q \in packages : q.name = p.name => p.version <= q.version}
Replaced(packages, new, limit) ==
    {p \in packages : \A q \in new : q.name = p.name => limit # 1 /\ q.version # p.version}

Without(what, packages, failing) == {p \in packages : <<what, p>> \notin failing}

(* What a distribution has in a target then, if wanted[t] is added to it   *)
After(distribution, t, wanted, refused, failing) ==
    IF refused \/ t \notin DOMAIN wanted THEN distribution.targets[t]
    ELSE LET new == Without("add", wanted[t], failing)
         IN  Replaced(distribution.targets[t], new, distribution.limit) \cup Kept(new, distribution.limit)

(* A copy or move does all of what was asked for in every matching target, *)
(* but what fails, or nothing at all, if a package has files missing or is *)
(* asked for twice; what is not asked for stays.  Nothing a move takes     *)
(* away is not in the destination, as long as that is another distribution *)
(* and has room for all its versions.                                      *)
CopiesExactly(dists, into, from, order, matching, by, move, missing, failing) ==
    LET after == Copy(dists, into, from, order, matching, by, move, missing, failing)
        both == matching \cap DOMAIN dists[from].targets \cap DOMAIN dists[into].targets
        wanted == [t \in both |-> Wanted(dists[from].targets[t], by)]
        refused == \E t \in both : wanted[t] \cap missing # {} \/ Twice(dists[from].targets[t], by)
        Moved(t) == Without("remove", Without("add", wanted[t], failing), failing)
    IN  into # from =>
          /\ \A t \in DOMAIN dists[into].targets :
                after[into].targets[t] = After(dists[into], t, wanted, refused, failing)
          /\ \A t \in DOMAIN dists[from].targets :
                after[from].targets[t] =
                    dists[from].targets[t] \ (IF refused \/ ~move \/ t \notin both THEN {} ELSE Moved(t))
          /\ dists[into].limit # 1 => \A t \in both :
                dists[from].targets[t] \subseteq after[from].targets[t] \cup after[into].targets[t]

(* Restoring one target does the same (of several, only the first gets     *)
(* packages: those of all).                                                *)
RestoresExactly(dists, into, snapshot, order, matching, by, missing, failing) ==
    LET after == Restore(dists, into, snapshot, order, matching, by, missing, failing)
        both == matching \cap DOMAIN dists[into].targets \cap DOMAIN snapshot
        wanted == [t \in both |-> Wanted(snapshot[t], AnyVersion(by))]
        refused == \E t \in both : wanted[t] \cap missing # {}
    IN  Cardinality(both) <= 1 =>
          \A t \in DOMAIN dists[into].targets :
              after[into].targets[t] = After(dists[into], t, wanted, refused, failing)

=============================================================================
