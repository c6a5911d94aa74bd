------------------------------- MODULE Flood -------------------------------
(***************************************************************************)
(* flood (archallflood.c): packages of architecture all of the other       *)
(* architectures of a distribution are added to each of its architectures. *)
(* A package is [name, all, version, source]; source stands for a source   *)
(* package and its version.  Packages of a target come sorted by name, one *)
(* version of each (Limit 1).                                              *)
(***************************************************************************)
EXTENDS Integers, SequencesExt, FiniteSetsExt

None == 0

(* struct aa_package_data; sources with a package that is not for all      *)
(* architectures are siblings of those of the same source that are.        *)
Entry(name, old, oldsource, new, sibling) ==
    [name |-> name, old |-> old, oldsource |-> oldsource, new |-> new, sibling |-> sibling]

SavePackageVersion(packages) ==
    LET Add(list, p) == Append(list, Entry(p.name, p.version, p.source, None, FALSE))
    IN  [list |-> FoldLeft(Add, <<>>, SelectSeq(packages, LAMBDA p : p.all)),
         siblings |-> {p.source : p \in {x \in Range(packages) : ~x.all}}]

(* Where a name belongs: from the entry last used forward, or from the     *)
(* start if it is before that.                                             *)
RECURSIVE Place(_, _, _)
Place(list, name, after) ==
    LET next == after + 1 IN
    IF next <= Len(list) /\ name > list[next].name THEN Place(list, name, next)
    ELSE IF next <= Len(list) /\ name = list[next].name THEN [known |-> TRUE, at |-> next]
    ELSE IF after # 0 /\ name = list[after].name THEN [known |-> TRUE, at |-> after]
    ELSE IF after # 0 /\ name < list[after].name THEN Place(list, name, 0)
    ELSE [known |-> FALSE, at |-> next]

(* A mutant: whether a candidate has a sibling does not matter.            *)
RefusedUnlessNewer(e, p, siblings) == p.version <= e.old \/ (e.new # None /\ p.version <= e.new)

Refused(e, p, siblings) ==
    \/ e.sibling /\ p.version <= e.new
    \/ ~e.sibling /\ e.old # None /\ p.version <= e.old
    \/ /\ p.source \notin siblings
       /\ IF e.new = None THEN e.oldsource \in siblings ELSE e.sibling \/ p.version <= e.new

(* What is not known yet is added as if it had no sibling.                 *)
TryPackage(s, p) ==
    LET place == Place(s.list, p.name, s.last)
        e == s.list[place.at]
    IN  IF ~place.known
        THEN [s EXCEPT !.list = InsertAt(@, place.at, Entry(p.name, None, None, p.version, FALSE)),
                       !.last = place.at]
        ELSE IF Refused(e, p, s.siblings) THEN [s EXCEPT !.last = place.at]
        ELSE [s EXCEPT !.list = ReplaceAt(@, place.at, [e EXCEPT !.new = p.version,
                                                                 !.sibling = p.source \in s.siblings]),
                       !.last = place.at]

FloodlistPull(s, packages) ==
    FoldLeft(TryPackage, [s EXCEPT !.last = 0], SelectSeq(packages, LAMBDA p : p.all))

(* target_addpackage without downgrading: the version of a name after it   *)
Added(version, new) == IF new > version THEN new ELSE version

VersionOf(packages, name) == Max({0} \cup {p.version : p \in {x \in Range(packages) : x.name = name}})

(* The versions of the names in a target after it was flooded from others  *)
FloodTarget(target, others, names) ==
    LET saved == SavePackageVersion(target)
        start == [list |-> saved.list, siblings |-> saved.siblings, last |-> 0]
        done == FoldLeft(FloodlistPull, start, others).list
    IN  [n \in names |->
            FoldLeft(LAMBDA v, e : IF e.name = n /\ e.new # None THEN Added(v, e.new) ELSE v,
                     VersionOf(target, n), done)]

-----------------------------------------------------------------------------
(* What flood is for: nothing is downgraded or lost.  Where there is a     *)
(* package for all architectures already, the newest of the newer ones     *)
(* with a sibling takes its place, else, if it has none itself, the newest.*)
(* A name that is new gets the newest one with a sibling, else the newest, *)
(* unless the first one found has a sibling (which is forgotten) and is    *)
(* not the only one.                                                       *)
FloodPrefers(target, others, names) ==
    LET after == FloodTarget(target, others, names)
        siblings == {p.source : p \in {x \in Range(target) : ~x.all}}
        found == SelectSeq(FlattenSeq(others), LAMBDA p : p.all)
        Of(n) == SelectSeq(found, LAMBDA p : p.name = n)
        Old(n) == {p \in Range(target) : p.name = n /\ p.all}
        Best(candidates) == Max({0} \cup {p.version : p \in candidates})
        With(candidates) == {p \in candidates : p.source \in siblings}
        Preferred(candidates) == Best(IF With(candidates) # {} THEN With(candidates) ELSE candidates)
    IN  \A n \in names :
          LET before == VersionOf(target, n)
              newer == {p \in Range(Of(n)) : p.version > before}
          IN  /\ after[n] >= before
              /\ after[n] \in {before} \cup {p.version : p \in Range(Of(n))}
              /\ Old(n) # {} =>
                    after[n] = IF With(newer) = {} /\ With(Old(n)) # {} THEN before
                               ELSE IF newer = {} THEN before ELSE Preferred(newer)
              /\ Old(n) = {} /\ (Len(Of(n)) > 1 => Of(n)[1].source \notin siblings) =>
                    after[n] = Added(before, Preferred(Range(Of(n))))

=============================================================================
