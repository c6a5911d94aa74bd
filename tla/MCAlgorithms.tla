---------------------------- MODULE MCAlgorithms ----------------------------
(* Inputs that are small, but contain what the algorithms decide upon.     *)
EXTENDS Algorithms

SeqsUpTo(S, n) == UNION {[1..k -> S] : k \in 0..n}

-----------------------------------------------------------------------------
(* Patches: versions of an index file that differ in more than one place.  *)
MCVersion == {<<>>, <<1, 2, 3>>, <<2, 4>>, <<1, 2, 5, 3>>, <<2, 3>>}
MCFile == {[i \in 1..n |-> i] : n \in {0, 2}}
MCText(n) == {<<>>, <<10 * n>>, <<10 * n, 10 * n + 1>>}

-----------------------------------------------------------------------------
(* Globs over the characters 1 to 3                                        *)
MCString == SeqsUpTo(1..3, 3)
MCPattern == SeqsUpTo(
    {[is |-> {Rules!Star}, written |-> <<Rules!Star>>],
     [is |-> 1..3, written |-> <<Rules!AnyOne>>],
     [is |-> {1}, written |-> <<1>>],
     [is |-> {1, 3}, written |-> <<Rules!Open, 1, 3, Rules!Close>>],
     [is |-> {2, 3}, written |-> <<Rules!Open, 2, Rules!Dash, 3, Rules!Close>>],
     [is |-> {3}, written |-> <<Rules!Open, Rules!Not, 1, Rules!Dash, 2, Rules!Close>>]}, 3)

(* Versions with "~", zeros in front, letters, other characters, epochs    *)
(* and revisions                                                           *)
Upstream == SeqsUpTo({-1, 0, 1, 10}, 2) \cup {<<0, 1, 10>>, <<10, 1, -1>>, <<1, 300, 0>>}
MCPackageVersion ==
    [epoch : {0}, version : Upstream, revision : {<<>>}]
      \cup [epoch : {0, 1}, version : {<<1>>, <<1, -1>>}, revision : {<<0>>, <<-1>>}]

(* Formulas of up to four atoms, in which no more is closed than is open   *)
Atom == [opens : 0..2, close : BOOLEAN, junction : {",", "|"}]
Depth(f, n) == FoldLeft(LAMBDA d, i : d + f[i].opens - (IF f[i].close THEN 1 ELSE 0), 0, [i \in 1..n |-> i])
WellFormed(f) == Depth(f, Len(f)) = 0 /\ \A n \in DOMAIN f : Depth(f, n) >= 0
MCFormula ==
    {Append(Front(f), [Last(f) EXCEPT !.junction = "none"])
       : f \in {g \in SeqsUpTo(Atom, 4) \ {<<>>} : WellFormed(g)}}

MCFilterList == SeqsUpTo([name : 1..3, version : 0..2, what : {"hold"}], 3)
MCQuestion == [1..2 -> 0..4]

-----------------------------------------------------------------------------
(* Keys: one with a subkey, one that is in order, expired or revoked.      *)
Sub(fpr, expired, revoked) == [fpr |-> fpr, expired |-> expired, revoked |-> revoked, cansign |-> TRUE]
Primary == <<1, 1, 1>>
Subkey == <<1, 1, 2>>
Second == <<2, 2, 1>>
Keyring(expired) == <<<<Sub(Primary, expired, FALSE), Sub(Subkey, FALSE, FALSE)>>,
                      <<Sub(Second, FALSE, FALSE)>>>>
SecondRevoked == <<<<Sub(Primary, FALSE, FALSE), Sub(Subkey, TRUE, FALSE)>>,
                   <<Sub(Second, FALSE, TRUE)>>>>

Signed(gpg, sigs) ==
    [dash |-> TRUE, begin |-> TRUE, marker |-> TRUE, gpg |-> gpg, content |-> "one", sigs |-> sigs]
Unsigned == [Signed("nodata", <<>>) EXCEPT !.dash = FALSE]
By(fpr, status) == [fpr |-> fpr, status |-> status]

MCDelivery ==
    {[keyring |-> x[1], file |-> x[2], command |-> x[3]] : x \in
       {<<Keyring(FALSE), Unsigned, "include">>,
        <<Keyring(FALSE), Signed("ok", <<By(Subkey, "ok")>>), "incoming">>,
        <<Keyring(TRUE), Signed("ok", <<By(Subkey, "ok")>>), "incoming">>,
        <<Keyring(FALSE), Signed("noplain", <<By(Second, "ok")>>), "include">>,
        <<Keyring(FALSE), Signed("ok", <<By(Primary, "bad"), By(Second, "ok")>>), "include">>}}

(* Uploads: a source package with two binaries, or with a byhand file      *)
Of(type, section, name, architecture) ==
    [type |-> type, section |-> section, name |-> name, architecture |-> architecture]

MCUpload ==
    {[source |-> 1, codename |-> 9,
      files |-> <<Of("dsc", 1, 1, 1), Of("tar", 2, 1, 1), Of("deb", 1, 1, 2), Of("deb", 1, 3, 2)>>],
     [source |-> 2, codename |-> 9,
      files |-> <<Of("dsc", 1, 2, 1), Of("byhand", 5, 3, 0)>>]}

Term(not, type, contain, names, join) ==
    [not |-> not, type |-> type, contain |-> contain, names |-> names, blanks |-> 2, join |-> join]

Terms ==
    [not : BOOLEAN, type : {"source", "sections", "byhand"}, contain : {FALSE},
     names : {{1, 5}}, blanks : {2}, join : {"and", "or"}]
      \cup [not : BOOLEAN, type : {"binaries"}, contain : BOOLEAN,
            names : {{1, 5}}, blanks : {2}, join : {"and", "or"}]

Rule(terms, by, who) == [what |-> "allow", terms |-> terms, by |-> by, who |-> who]
Everything == <<Term(FALSE, "always", FALSE, {}, "by")>>
Source == <<Term(FALSE, "source", FALSE, {1}, "by")>>

(* Conditions of up to three terms, the rest of the file being one rule    *)
OneRule ==
    {<<Rule(terms, "anybody", 0)>> : terms \in SeqsUpTo(Terms, 3) \ {<<>>}}
TwoRules ==
    {<<Rule(<<s, t>>, "anybody", 0), Rule(<<Term(TRUE, "source", FALSE, {2}, "or"), t>>, "anybody", 0)>>
       : s, t \in Terms}

(* Lines about keys and groups; another file adds to them, too.            *)
WithSub == [id |-> <<1, 1>>, subkeys |-> TRUE]
Alone == [id |-> <<2, 1>>, subkeys |-> FALSE]
Lines ==
    {[what |-> "add", group |-> 1, key |-> WithSub],
     [what |-> "add", group |-> 2, key |-> Alone],
     [what |-> "contains", group |-> 1, member |-> 2],
     [what |-> "contains", group |-> 2, member |-> 1],
     [what |-> "empty", group |-> 1],
     [what |-> "unused", group |-> 2],
     [what |-> "include", file |-> "more"],
     [what |-> "include", file |-> "uploaders"],
     Rule(Everything, "group", 1), Rule(Source, "group", 2),
     Rule(Everything, "key", [id |-> <<1, 1, 2>>, subkeys |-> FALSE]),
     Rule(Source, "key", WithSub), Rule(Everything, "key", Alone),
     Rule(Source, "anykey", 0), Rule(Everything, "unsigned", 0), Rule(Source, "anybody", 0)}
More == <<[what |-> "contains", group |-> 2, member |-> 3],
          [what |-> "add", group |-> 3, key |-> WithSub],
          Rule(Source, "group", 2)>>

Files(lines) == [f \in {"uploaders", "more"} |-> IF f = "uploaders" THEN lines ELSE More]
MCUploadersFiles == {Files(lines) : lines \in OneRule \cup TwoRules \cup SeqsUpTo(Lines, 3)}

-----------------------------------------------------------------------------
(* One condition of up to two alternatives, or two of one                  *)
Part == [id : {<<1>>, <<1, 1>>, <<1, 2>>, <<2, 1>>}, bad : BOOLEAN, subkeys : BOOLEAN]
MCVerifyRelease ==
    {<<c>> : c \in SeqsUpTo(Part, 2)} \cup {<<<<p>>, <<q>>>> : p, q \in Part}

MCRelease ==
    {[keyring |-> k, file |-> f, ignoring |-> {"expiredkey"}] :
       k \in {Keyring(TRUE), SecondRevoked},
       f \in {Unsigned} \cup {Signed("ok", sigs) : sigs \in
           {<<By(Primary, "ok")>>, <<By(Subkey, "ok")>>, <<By(Second, "ok")>>,
            <<By(Subkey, "keyexpired")>>, <<By(Second, "bad")>>, <<By(Second, "revoked")>>,
            <<By(Subkey, "other"), By(Primary, "ok")>>, <<By(Second, "bad"), By(Subkey, "ok")>>,
            <<By(<<3, 3, 3>>, "nopubkey"), By(Primary, "keyexpired")>>}}}

-----------------------------------------------------------------------------
(* Claims that agree, know different hashes or are wrong, and lists of two *)
(* files that may contradict each other                                    *)
Hashes(a, b) == [t \in Sums!Types |-> IF t = Sums!Sha1 THEN a ELSE b]
MCClaim ==
    {[md5 |-> m, hashes |-> Hashes(a, b), size |-> 1] : m, a \in 0..2, b \in 0..1}
      \cup {[md5 |-> m, hashes |-> Hashes(0, 0), size |-> 2] : m \in 0..1}
MCContent == [md5 |-> 1, hashes |-> Hashes(1, 1), size |-> 1]

FileLine == [file : {1}, sum : {1}, size : 1..2] \cup [file : {1, 2}, sum : {2}, size : {1}]
MCFields == [Range(Sums!Kinds) -> SeqsUpTo(FileLine, 2)]

-----------------------------------------------------------------------------
(* Flooding: names 1 and 2 have versions below and above what is there,    *)
(* name 3 is a package that only makes its source a sibling.               *)
Deb(name, all, version, source) == [name |-> name, all |-> all, version |-> version, source |-> source]
Perhaps(S) == {<<>>} \cup {<<x>> : x \in S}
There(n) == {Deb(n, a, 2, s) : a \in BOOLEAN, s \in 1..2}
Coming(n) == {Deb(n, TRUE, v, s) : v \in 1..4, s \in 1..2} \ {Deb(n, TRUE, 4, 1)}
MCFlooding ==
    {[target |-> a \o b \o c, others |-> <<d \o e, f>>] :
       a \in Perhaps(There(1)), b \in Perhaps(There(2)), c \in Perhaps({Deb(3, FALSE, 1, 1)}),
       d \in Perhaps(Coming(1)), e \in Perhaps({Deb(2, TRUE, 3, 1), Deb(2, TRUE, 3, 2)}),
       f \in Perhaps(Coming(1)) \cup {<<Deb(2, TRUE, 4, 2)>>}}

(* Reports: sources in two components, sorted by name                      *)
Src(n, v) == [name |-> n, version |-> v]
SortedSources == {s \in SeqsUpTo({Src(n, v) : n \in 1..3, v \in 1..2}, 2) : \A i, j \in DOMAIN s : i < j => s[i].name <= s[j].name /\ s[i] # s[j]}
MCReporting ==
    {[distribution |-> [sources |-> <<a, b>>, binaries |-> c], kept |-> k] :
       a, b \in SortedSources,
       c \in SUBSET {[name |-> 1, source |-> Src(1, 1)], [name |-> 2, source |-> Src(2, 2)],
                      [name |-> 3, source |-> Src(3, 1)]},
       k \in {{}, {Src(1, 1)}}}

Amd == <<"linux", "amd64">>
Hurd == <<"hurd", "i386">>
MCArchitecture == {Amd, Hurd, Reports!All}
BinaryOf(a) == [type |-> IF a = Reports!All THEN "a" ELSE "b", architectures |-> {a}]
LogOf(S) == [type |-> "log", architectures |-> S]
Builds ==
    {[architectures |-> S, files |-> SetToSeq({BinaryOf(a) : a \in S})] : S \in SUBSET MCArchitecture}
      \cup {[architectures |-> S, files |-> <<LogOf(S)>>] : S \in SUBSET MCArchitecture \ {{}}}
      \cup {[architectures |-> {}, files |-> <<[type |-> "s", architectures |-> {}]>>]}
FieldSets == SUBSET {Amd, Hurd, Reports!All, <<"any", "any">>, <<"linux", "any">>}
MCBuilding ==
    [source : [field : FieldSets, binaries : {{1}}, tracked : {TRUE}], builds : SeqsUpTo(Builds, 2)]
      \cup [source : [field : FieldSets, binaries : {{}, {1}}, tracked : BOOLEAN], builds : SeqsUpTo(Builds, 1)]

(* Copies: two targets, versions of two sources, a destination with and    *)
(* without limit                                                           *)
P(n, v, s) == [name |-> n, version |-> v, source |-> s, sourceversion |-> v]
MCTargetOrder == <<"main", "contrib">>
Contents == SUBSET {P(1, 1, 1), P(1, 2, 1), P(2, 1, 1)}
MCDistributions ==
    {[d \in {"into", "from"} |->
        IF d = "from" THEN [limit |-> 0, targets |-> "main" :> a @@ "contrib" :> b]
        ELSE [limit |-> l, targets |-> c]] :
       a \in Contents, b \in SUBSET {P(1, 1, 1), P(2, 2, 2)}, l \in {0, 1},
       c \in {"main" :> {P(1, 2, 1)}, "main" :> {} @@ "contrib" :> {P(2, 1, 1)}}}
Asking ==
    [kind : {"name"}, names : SeqsUpTo([name : {1}, version : {0, 1}] \cup {[name |-> 2, version |-> 0]}, 2) \ {<<>>}]
      \cup [kind : {"source"}, source : {1}, versions : {{}, {2}}]
      \cup [kind : {"glob"}, matching : {{1}, {1, 2}}]
MCRequest == [by : Asking, matching : {{"main"}, {"main", "contrib"}}]
MCFailures ==
    [missing : {{}}, failing : {{}} \cup {{<<what, p>>} : what \in {"add", "remove"}, p \in {P(1, 1, 1), P(1, 2, 1)}}]
      \cup [missing : {{P(1, 2, 1)}}, failing : {{}}]

=============================================================================
