----------------------------- MODULE Uploaders -----------------------------
(***************************************************************************)
(* The Uploaders file of a distribution (uploaderslist.c): how it is read  *)
(* into groups, keys and decision trees, and what processincoming          *)
(* (incoming.c) and include (checkin.c) ask it about an upload.            *)
(*                                                                         *)
(* A line is [what |-> "add", group, key], "contains" [group, member],     *)
(* "empty" or "unused" [group], "include" [file], or "allow" [terms, by,   *)
(* who], where a key is [id, subkeys: given with a "+"] and a term is      *)
(* [not, type, contain, names, blanks, join].  Names stand for what the    *)
(* globs given match, join is the keyword after the term.                  *)
(***************************************************************************)
EXTENDS Signatures, TLC

CONSTANT MaxIncludes        \* include directives may be nested that deep

-----------------------------------------------------------------------------
(* parse_condition: the nodes, which refer to each other by number.        *)
Null == 0
Fallback == -1

Needs(term) ==
    CASE term.type = "byhand" -> "existsall"
      [] term.type \in {"architectures", "binaries", "sections"} /\ ~term.contain -> "all"
      [] OTHER -> "any"

Node(term) ==
    [type |-> term.type, needs |-> Needs(term), names |-> term.names,
     acceptTrue |-> ~term.not, acceptFalse |-> term.not,
     nextTrue |-> IF term.not THEN Fallback ELSE Null,
     nextFalse |-> IF term.not THEN Null ELSE Fallback]

(* A mutant: the first success is forgotten, not made to depend on n. *)
AndThenFirst(node, n) ==
    [node EXCEPT !.acceptTrue = FALSE, !.nextTrue = IF node.acceptTrue THEN n ELSE @]

(* What made it succeed now makes it look at n, too.                       *)
AndThen(node, n) ==
    [node EXCEPT !.acceptTrue = FALSE, !.acceptFalse = FALSE,
                 !.nextTrue = IF node.acceptTrue THEN n ELSE @,
                 !.nextFalse = IF node.acceptFalse THEN n ELSE @]

(* What made it fail now makes it look at n.                               *)
OrElse(node, n) ==
    [node EXCEPT !.nextTrue = IF @ = Fallback THEN n ELSE @,
                 !.nextFalse = IF @ = Fallback THEN n ELSE @]

AddTerm(s, term) ==
    LET n == Len(s.nodes) + 1
        nodes == CASE s.join = "none" -> <<>>
                   [] s.join = "and" -> [i \in DOMAIN s.nodes |-> AndThen(s.nodes[i], n)]
                   [] s.join = "or" -> [i \in DOMAIN s.nodes |->
                          IF i >= s.scope THEN OrElse(s.nodes[i], n) ELSE s.nodes[i]]
    IN  [nodes |-> Append(nodes, Node(term)), join |-> term.join,
         scope |-> IF s.join = "and" THEN n ELSE s.scope]

ParseCondition(terms) == FoldLeft(AddTerm, [nodes |-> <<>>, join |-> "none", scope |-> 1], terms).nodes

(* Two characters more than the keyword are skipped for a "byhand".        *)
Readable(terms) == \A i \in DOMAIN terms : terms[i].type = "byhand" => terms[i].blanks >= 2

(* condition_add: what the rules before do not decide is for the new one.  *)
ConditionAdd(permissions, condition) ==
    LET first == Len(permissions) + 1
        Falls(k) == IF k = Fallback THEN first ELSE k
        Moved(k) == IF k > 0 THEN k + Len(permissions) ELSE k
        Redirect(nodes, To(_)) ==
            [i \in DOMAIN nodes |-> [nodes[i] EXCEPT !.nextTrue = To(@), !.nextFalse = To(@)]]
    IN  Redirect(permissions, Falls) \o Redirect(condition, Moved)

-----------------------------------------------------------------------------
(* parseuploaderline, with the groups and keys known so far: groups and    *)
(* keys are functions, the rest are permissions.                           *)
NoUploaders == [groups |-> <<>>, keys |-> <<>>, ok |-> TRUE,
                anybody |-> <<>>, unsigned |-> <<>>, anykey |-> <<>>]

NewGroup == [memberof |-> {}, member |-> FALSE, empty |-> FALSE,
             used |-> FALSE, unused |-> FALSE, rules |-> <<>>]

AddGroup(u, group) == [u EXCEPT !.groups = @ @@ (group :> NewGroup)]
AddKey(u, key) == [u EXCEPT !.keys = @ @@ (key :> [memberof |-> {}, rules |-> <<>>])]

RECURSIVE IsIncludedIn(_, _, _)
IsIncludedIn(groups, needle, chair) ==
    \E g \in groups[needle].memberof : g = chair \/ IsIncludedIn(groups, g, chair)

Unless(refused, u, v) == IF refused THEN [u EXCEPT !.ok = FALSE] ELSE v

GroupAdd(u, line) ==
    Unless(line.group \in u.keys[line.key].memberof \/ u.groups[line.group].empty, u,
           [u EXCEPT !.keys[line.key].memberof = @ \cup {line.group},
                     !.groups[line.group].member = TRUE])

GroupContains(u, line) ==
    LET group == line.group
        member == line.member
    IN  Unless(\/ group = member \/ IsIncludedIn(u.groups, group, member)
               \/ group \in u.groups[member].memberof
               \/ u.groups[group].empty \/ u.groups[member].unused, u,
               [u EXCEPT !.groups[member].memberof = @ \cup {group},
                         !.groups[group].member = TRUE, !.groups[member].used = TRUE])

Allow(u, line) ==
    LET condition == ParseCondition(line.terms) IN
    CASE line.by = "key" -> LET v == AddKey(u, line.who) IN
             [v EXCEPT !.keys[line.who].rules = ConditionAdd(@, condition)]
      [] line.by = "group" -> LET v == AddGroup(u, line.who) IN
             Unless(v.groups[line.who].unused, v,
                    [v EXCEPT !.groups[line.who].rules = ConditionAdd(@, condition),
                              !.groups[line.who].used = TRUE])
      [] OTHER -> [u EXCEPT ![line.by] = ConditionAdd(@, condition)]

ParseLine(u, line) ==
    CASE line.what = "add" -> GroupAdd(AddKey(AddGroup(u, line.group), line.key), line)
      [] line.what = "contains" -> GroupContains(AddGroup(AddGroup(u, line.group), line.member), line)
      [] line.what = "empty" -> LET v == AddGroup(u, line.group) IN
             Unless(v.groups[line.group].member, v, [v EXCEPT !.groups[line.group].empty = TRUE])
      [] line.what = "unused" -> LET v == AddGroup(u, line.group) IN
             Unless(v.groups[line.group].used, v, [v EXCEPT !.groups[line.group].unused = TRUE])
      [] line.what = "allow" -> Unless(~Readable(line.terms), u, Allow(u, line))

(* uploaders_load: an included file is read where it is included.          *)
RECURSIVE LoadFile(_, _, _, _)
LoadFile(u, files, name, depth) ==
    LET Read(v, line) ==
            IF ~v.ok THEN v
            ELSE IF line.what = "include" THEN LoadFile(v, files, line.file, depth + 1)
            ELSE ParseLine(v, line)
    IN  Unless(depth > MaxIncludes + 1 \/ name \notin DOMAIN files, u, FoldLeft(Read, u, files[name]))

UploadersLoad(files, name) == LoadFile(NoUploaders, files, name, 0)

-----------------------------------------------------------------------------
(* uploaders_permissions: the permissions an upload with such a signature  *)
(* can use.  A key counts with its groups, and the groups they are in.     *)
RECURSIVE GroupRules(_, _)
GroupRules(groups, memberof) ==
    {groups[g].rules : g \in memberof} \cup UNION {GroupRules(groups, groups[g].memberof) : g \in memberof}

(* A mutant: what a signature is worth is not looked at again. *)
FitsAnyState(key, signature) == EndsIn(IF key.subkeys THEN signature.primary ELSE signature.keyid, key.id)

Fits(key, signature) ==
    /\ signature.state = "valid"
    /\ EndsIn(IF key.subkeys THEN signature.primary ELSE signature.keyid, key.id)

FindKey(u, signature) ==
    UNION {{u.keys[key].rules} \cup GroupRules(u.groups, u.keys[key].memberof)
             : key \in {k \in DOMAIN u.keys : Fits(k, signature)}}

UploadersPermissions(u, read) ==
    {u.anybody} \cup (IF ~read.signed THEN {u.unsigned} ELSE {})
      \cup (IF ValidCount(read.signatures) > 0 THEN {u.anykey} ELSE {})
      \cup UNION {FindKey(u, read.signatures[n]) : n \in DOMAIN read.signatures}

(* isallowed, permissionssuffice: what is asked about.  An upload is       *)
(* [source, codename, files: each [type, section, name, architecture]].    *)
Package(command) == IF command = "include" THEN {"dsc", "deb", "tar"} ELSE {"dsc", "deb"}

Asked(upload, type, command) ==
    LET Of(types) == SelectSeq(upload.files, LAMBDA f : f.type \in types)
        Field(files, name) == [i \in DOMAIN files |-> files[i][name]]
    IN  CASE type = "source" -> <<upload.source>>
          [] type = "distribution" -> <<upload.codename>>
          [] type = "sections" -> Field(Of(Package(command)), "section")
          [] type = "architectures" -> Field(Of(Package(command)), "architecture")
          [] type = "binaries" -> Field(Of({"deb"}), "name")
          [] type = "byhand" -> Field(Of({"byhand"}), IF command = "include" THEN "name" ELSE "section")

(* uploaders_verifystring, until the case is settled.                      *)
Verify(node, s, name) ==
    [needscandidate |-> FALSE,
     matching |-> IF node.needs = "any" THEN s.matching \/ name \in node.names
                  ELSE s.matching /\ name \in node.names]

Matching(node, names) ==
    LET Next(s, name) == Verify(node, s, name)
        end == FoldLeft(Next, [matching |-> node.needs # "any",
                               needscandidate |-> node.needs = "existsall"], names)
    IN  end.matching /\ ~end.needscandidate

(* uploaders_nextcondition: along the nodes of one's permissions           *)
RECURSIVE Accepts(_, _, _, _)
Accepts(nodes, k, upload, command) ==
    IF k \notin DOMAIN nodes THEN FALSE
    ELSE LET true == \/ nodes[k].type = "always"
                     \/ Matching(nodes[k], Asked(upload, nodes[k].type, command))
         IN  IF true THEN nodes[k].acceptTrue \/ Accepts(nodes, nodes[k].nextTrue, upload, command)
             ELSE nodes[k].acceptFalse \/ Accepts(nodes, nodes[k].nextFalse, upload, command)

Allowed(u, read, upload, command) ==
    \E nodes \in UploadersPermissions(u, read) : Accepts(nodes, 1, upload, command)

-----------------------------------------------------------------------------

(* What the lines say: the lines in the order they are read, who is in a   *)
(* group, what a condition asks for, "or" binding more than "and", and     *)
(* whom a rule is for.                                                     *)
RECURSIVE LinesOf(_, _)
LinesOf(files, name) ==
    FlattenSeq([i \in DOMAIN files[name] |->
        IF files[name][i].what = "include" THEN LinesOf(files, files[name][i].file) ELSE <<files[name][i]>>])

RECURSIVE KeysOf(_, _)
KeysOf(lines, group) ==
    {l.key : l \in {l \in lines : l.what = "add" /\ l.group = group}}
      \cup UNION {KeysOf(lines, l.member) : l \in {l \in lines : l.what = "contains" /\ l.group = group}}

(* The values a condition is about (docs/reprepro.1:2299-2341): those of   *)
(* the packages as listed in the .changes file, and of byhand files the    *)
(* section.                                                                *)
Meant(upload, type) ==
    LET Values(types, field) == {f[field] : f \in {g \in ToSet(upload.files) : g.type \in types}} IN
    CASE type = "source" -> {upload.source}
      [] type = "distribution" -> {upload.codename}
      [] type \in {"sections", "architectures"} ->
             Values({"dsc", "deb"}, IF type = "sections" THEN "section" ELSE "architecture")
      [] type = "binaries" -> Values({"deb"}, "name")
      [] type = "byhand" -> Values({"byhand"}, "section")
      [] type = "always" -> {}

Holds(term, upload) ==
    LET values == Meant(upload, term.type)
        some == values \cap term.names # {}
        each == values \subseteq term.names
    IN  term.not # CASE term.type = "always" -> TRUE
                     [] term.type \in {"source", "distribution"} -> some
                     [] term.type = "byhand" -> values # {} /\ each
                     [] OTHER -> IF term.contain THEN some ELSE each

Says(terms, upload) ==
    \A i \in DOMAIN terms : i = 1 \/ terms[i - 1].join = "and" =>
        \E j \in i..Len(terms) : /\ \A k \in i..j - 1 : terms[k].join = "or"
                                 /\ Holds(terms[j], upload)

(* What include reads otherwise (checkin.c:1376-1409): it compares byhand  *)
(* conditions with the names of the files, and sections also with those of *)
(* the other files of the source package.                                  *)
ReadOtherwise(term, upload, command) ==
    /\ command = "include"
    /\ \/ term.type = "byhand" /\ \E f \in ToSet(upload.files) : f.type = "byhand" /\ f.name # f.section
       \/ /\ term.type = "sections"
          /\ \E f, dsc \in ToSet(upload.files) :
                f.type = "tar" /\ dsc.type = "dsc" /\ f.section # dsc.section

(* A signature counts when gpg found it good and the primary key of its    *)
(* key is neither revoked nor expired.                                     *)
Counts(keyring, sig) ==
    sig.status = "ok" /\ \A k \in Owners(keyring, sig.fpr) : ~keyring[k][1].revoked /\ ~keyring[k][1].expired

SignedBy(keyring, sig, key) ==
    /\ Counts(keyring, sig)
    /\ IF key.subkeys THEN \E k \in Owners(keyring, sig.fpr) : EndsIn(KeyId(keyring[k][1]), key.id)
       ELSE EndsIn(sig.fpr, key.id)

IsFor(line, lines, keyring, file) ==
    LET sigs == IF file.dash /\ file.gpg = "ok" THEN {file.sigs[n] : n \in DOMAIN file.sigs} ELSE {} IN
    CASE line.by = "anybody" -> TRUE
      [] line.by = "unsigned" -> ~file.dash
      [] line.by = "anykey" -> \E s \in sigs : Counts(keyring, s)
      [] line.by = "key" -> \E s \in sigs : SignedBy(keyring, s, line.who)
      [] line.by = "group" -> \E s \in sigs, key \in KeysOf(lines, line.who) : SignedBy(keyring, s, key)

(* An upload gets in exactly when there is a rule for whoever signed it    *)
(* whose condition it meets as the manual says, wherever in the files that *)
(* rule is, however the groups are nested and whatever other rules there   *)
(* are.  Excepted is include with a rule that it reads otherwise: about    *)
(* byhand files, or sections when the source package is listed with        *)
(* several.                                                                *)
UploadDecided(files, keyring, file, upload, command) ==
    LET u == UploadersLoad(files, "uploaders")
        read == ReadSignedChunk(keyring, file)
        lines == LinesOf(files, "uploaders")
        rules == {lines[i] : i \in DOMAIN lines}
        otherwise == \E l \in rules : /\ l.what = "allow"
                                      /\ \E n \in DOMAIN l.terms : ReadOtherwise(l.terms[n], upload, command)
    IN  u.ok /\ read.ok /\ ~otherwise =>
          (Allowed(u, read, upload, command) <=>
             \E l \in rules : /\ l.what = "allow" /\ IsFor(l, rules, keyring, file)
                              /\ Says(l.terms, upload))

=============================================================================
