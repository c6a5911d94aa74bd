------------------------------ MODULE Reports ------------------------------
(***************************************************************************)
(* What is reported of sources and binaries that miss each other           *)
(* (sourcecheck.c: unusedsources, sourcemissing, reportcruft) and of       *)
(* sources not built yet (needbuild.c).  A distribution is [sources,       *)
(* binaries], sources a sequence of targets, each a sequence of [name,     *)
(* version] by name, and binaries a set of [name, source].                 *)
(***************************************************************************)
EXTENDS Integers, SequencesExt, FiniteSetsExt

Id(name, version) == [name |-> name, version |-> version]

(* A mutant, in place of CollectOne: another version of a source found     *)
(* before is not looked at.                                                *)
CollectFirst(s, p) ==
    LET Before(i) == s.list[i].name < p.name
        from == IF s.last # 0 /\ s.list[s.last].name <= p.name THEN s.last ELSE 1
        at == Min({i \in from..Len(s.list) : ~Before(i)} \cup {Len(s.list) + 1})
        known == at <= Len(s.list) /\ s.list[at].name = p.name
    IN  [last |-> at,
         list |-> IF known THEN s.list ELSE InsertAt(s.list, at, [name |-> p.name, versions |-> <<p.version>>])]

(* One more source package: its name is looked for from where the last one *)
(* was found, or from the start if it is before that.                      *)
CollectOne(s, p) ==
    LET Before(i) == s.list[i].name < p.name
        from == IF s.last # 0 /\ s.list[s.last].name <= p.name THEN s.last ELSE 1
        at == Min({i \in from..Len(s.list) : ~Before(i)} \cup {Len(s.list) + 1})
        known == at <= Len(s.list) /\ s.list[at].name = p.name
        More(versions) == IF p.version \in Range(versions) THEN versions ELSE Append(versions, p.version)
    IN  [last |-> at,
         list |-> IF known THEN ReplaceAt(s.list, at, [s.list[at] EXCEPT !.versions = More(@)])
                  ELSE InsertAt(s.list, at, [name |-> p.name, versions |-> <<p.version>>])]

CollectSourceVersions(d) == FoldLeft(CollectOne, [list |-> <<>>, last |-> 0], FlattenSeq(d.sources)).list

(* Is the source of a binary in the sorted list?                           *)
Found(list, source) ==
    LET at == SelectInSeq(list, LAMBDA s : s.name >= source.name)
    IN  at # 0 /\ list[at].name = source.name /\ source.version \in Range(list[at].versions)

Used(d, list) == {b.source : b \in {x \in d.binaries : Found(list, x.source)}}
Missing(d, list) == {b \in d.binaries : ~Found(list, b.source)}
Listed(list) == UNION {{Id(s.name, v) : v \in Range(s.versions)} : s \in Range(list)}

(* Without tracking.  Without any source package there is nothing to do.   *)
UntrackedUnused(d) == LET list == CollectSourceVersions(d) IN Listed(list) \ Used(d, list)
UntrackedMissing(d) ==
    LET list == CollectSourceVersions(d) IN IF list = <<>> THEN {} ELSE Missing(d, list)
UntrackedCruft(d) ==
    [binaries |-> {b.source : b \in UntrackedMissing(d)}, sources |-> UntrackedUnused(d)]

(* With tracking: tracks are [source, files], files a sequence of [type,   *)
(* count]; what is not used by any target has the count 0.                 *)
Has(track, types) == \E i \in DOMAIN track.files : track.files[i].count # 0 /\ track.files[i].type \in types
ListUnusedSources(track) == Has(track, {"s"}) /\ ~Has(track, {"a", "b"})
ListSourceMissing(track) == Has(track, {"a", "b"}) /\ ~Has(track, {"s"})
ListCruft(tracks) ==
    [binaries |-> {t.source : t \in {x \in tracks : ListSourceMissing(x)}},
     sources |-> {t.source : t \in {x \in tracks : ListUnusedSources(x)}}]

(* The records of a distribution, kept being sources whose package is gone *)
TracksOf(d, kept) ==
    LET sources == {Id(p.name, p.version) : p \in Range(FlattenSeq(d.sources))}
        Files(id) ==
            (IF id \in sources \cup kept
             THEN <<[type |-> "s", count |-> IF id \in sources THEN 1 ELSE 0]>> ELSE <<>>)
              \o (IF \E b \in d.binaries : b.source = id
                  THEN <<[type |-> "b", count |-> 1]>> ELSE <<>>)
    IN  {[source |-> id, files |-> Files(id)] : id \in sources \cup kept \cup {b.source : b \in d.binaries}}

-----------------------------------------------------------------------------
(* needbuild: an architecture is <<system, processor>>, an Architecture    *)
(* field a set of them, of <<system, "any">> and <<"any", "any">>.  Files  *)
(* of a track are [type, architectures].  That a package built for all     *)
(* architectures is among those in the Binary field is never found out, as *)
(* its name is compared with the whole name of the file.                   *)
All == <<"all", "all">>

ToBuild(field, architecture) ==
    \/ architecture \in field
    \/ architecture # All /\ (<<"any", "any">> \in field \/ <<architecture[1], "any">> \in field)

(* A mutant: a log or .changes file of several architectures is not taken  *)
(* apart.                                                                  *)
BuiltAlone(file, architecture) ==
    CASE file.type = "a" -> architecture = All
      [] file.type \in {"b", "log", "changes", "buildinfo"} -> file.architectures = {architecture}
      [] OTHER -> FALSE

Built(file, architecture) ==
    CASE file.type = "a" -> architecture = All
      [] file.type \in {"b", "log", "changes", "buildinfo"} -> architecture \in file.architectures
      [] OTHER -> FALSE

(* A source is [field, binaries: the names in its Binary field, tracked],  *)
(* files are those of its track; without one there is only a warning.      *)
NeedsBuild(source, files, architecture) ==
    /\ ToBuild(source.field, architecture)
    /\ source.tracked
    /\ \A i \in DOMAIN files : ~Built(files[i], architecture)
    /\ source.binaries # {}

-----------------------------------------------------------------------------
(* With and without tracking the same is reported: source packages no      *)
(* binary was built from, and binaries whose source is not in the          *)
(* distribution.  Excepted are what is reported without tracking where     *)
(* there is no source at all, and whether sourcemissing lists the binaries *)
(* of a source that is only kept by tracking: the manual says that such a  *)
(* source is enough, listsourcemissing does not count it.                  *)
ReportsAgree(d, kept) ==
    LET sources == {Id(p.name, p.version) : p \in Range(FlattenSeq(d.sources))}
        built == {b.source : b \in d.binaries}
        tracks == TracksOf(d, kept)
        cruft == [binaries |-> built \ sources, sources |-> sources \ built]
        Names(S) == {t.source : t \in S}
        onlykept == kept \ sources
    IN  /\ Names({t \in tracks : ListUnusedSources(t)}) = sources \ built
        /\ Names({t \in tracks : ListSourceMissing(t)}) \ onlykept = built \ (sources \cup onlykept)
        /\ ListCruft(tracks) = cruft
        /\ UntrackedUnused(d) = sources \ built
        /\ sources # {} => /\ UntrackedMissing(d) = {b \in d.binaries : b.source \notin sources}
                           /\ UntrackedCruft(d) = cruft

(* A tracked source with a Binary field stays listed for exactly the       *)
(* architectures its Architecture field names of which nothing is there    *)
(* yet, in whatever order they are built and whatever is stored of a       *)
(* build.  Excepted, as they are never listed, are sources without a track *)
(* or without anything in their Binary field.                              *)
BuildsListed(source, builds, architectures) ==
    LET files == FlattenSeq([i \in DOMAIN builds |-> builds[i].files])
        done == UNION {builds[i].architectures : i \in DOMAIN builds}
        wanted == {a \in architectures :
                      \/ a \in source.field
                      \/ a # All /\ \E f \in source.field : f[2] = "any" /\ f[1] \in {"any", a[1]}}
        listed == {a \in architectures : NeedsBuild(source, files, a)}
    IN  listed = IF source.tracked /\ source.binaries # {} THEN wanted \ done ELSE {}

=============================================================================
