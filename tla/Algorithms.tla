----------------------------- MODULE Algorithms -----------------------------
(***************************************************************************)
(* What reprepro computes from its input alone, next to what it is to be:  *)
(* an input is chosen, and the invariants compare the two.  Without one    *)
(* this is PatchIndex, where patches are kept from one export to the next. *)
(***************************************************************************)
EXTENDS PatchIndex

CONSTANTS
    String, Pattern,         \* strings, globs as sequences of [is: a set or {Star}, written]
    PackageVersion,
    Formula,
    FilterList, Question,    \* lines of a filter list, names looked for one after the other
    UploadersFiles, Delivery, Upload,   \* Delivery: [keyring, file, command]
    VerifyRelease, Release,  \* sequences of conditions, [keyring, file, ignoring]
    Claim, Content, Fields,  \* claims of what a file is, what it is, fields listing files
    Flooding,                \* [target, others]
    Reporting, Building, Architecture,  \* [distribution, kept], [source, builds]
    Distributions, TargetOrder, Request, Failures,  \* of copies: what is there, asked for and fails
    MaxIncludes,
    File, Text(_), MaxCommands   \* what patches are for, what a command may put in

VARIABLE input

Rules == INSTANCE Conditions
Rights == INSTANCE Uploaders
Sums == INSTANCE Checksums
Floods == INSTANCE Flood
Reports == INSTANCE Reports
Copies == INSTANCE Copying

allVars == <<vars, input>>

AlgorithmsInit == Init /\ input = [kind |-> "none"]

Unchosen == exports = 0 /\ input.kind = "none" /\ UNCHANGED vars

ChooseGlob ==
    Unchosen /\ \E s \in String, p \in Pattern : input' = [kind |-> "glob", string |-> s, pattern |-> p]

ChooseVersions ==
    /\ Unchosen
    /\ \E u, v, w \in PackageVersion : input' = [kind |-> "versions", u |-> u, v |-> v, w |-> w]

ChooseFormula == Unchosen /\ \E f \in Formula : input' = [kind |-> "formula", formula |-> f]

ChooseFilter ==
    Unchosen /\ \E l \in FilterList, q \in Question : input' = [kind |-> "filter", lines |-> l, asked |-> q]

ChooseUpload ==
    /\ Unchosen
    /\ \E f \in UploadersFiles, d \in Delivery, u \in Upload :
          input' = [kind |-> "upload", files |-> f, delivery |-> d, upload |-> u]

ChooseRelease ==
    /\ Unchosen
    /\ \E c \in VerifyRelease, r \in Release :
          input' = [kind |-> "release", conditions |-> c, release |-> r]

ChooseClaims ==
    Unchosen /\ \E a, b, c \in Claim : input' = [kind |-> "claims", claims |-> <<a, b, c>>]

ChooseLists == Unchosen /\ \E f \in Fields : input' = [kind |-> "lists", fields |-> f]

ChooseFlood == Unchosen /\ \E f \in Flooding : input' = [kind |-> "flood", flood |-> f]

ChooseReport == Unchosen /\ \E r \in Reporting : input' = [kind |-> "report", report |-> r]

ChooseBuilds == Unchosen /\ \E b \in Building : input' = [kind |-> "builds", builds |-> b]

ChooseCopy ==
    /\ Unchosen
    /\ \E d \in Distributions, r \in Request, f \in Failures, command \in {"copy", "move", "restore"} :
          input' = [kind |-> command, dists |-> d, request |-> r, fault |-> f]

ChooseFile == Unchosen /\ \E f \in File : input' = [kind |-> "patch", file |-> f, commands |-> <<>>]

(* The commands an editor could be given for the file it has by now.       *)
CommandsFor(f, texts) ==
    [type : {"a"}, from : 0..Len(f), text : texts \ {<<>>}]
      \cup [type : {"i"}, from : 1..Len(f), text : texts \ {<<>>}]
      \cup [type : {"c"}, from : 1..Len(f), text : texts]
      \cup [type : {"d"}, from : 1..Len(f), text : {<<>>}]

ChooseCommand ==
    /\ input.kind = "patch" /\ Len(input.commands) < MaxCommands
    /\ LET now == Ed(input.file, input.commands) IN
       \E c \in CommandsFor(now, Text(Len(input.commands) + 1)) :
       \E to \in c.from..(IF c.type \in {"c", "d"} THEN Len(now) ELSE c.from) :
          input' = [input EXCEPT !.commands =
                       Append(@, [type |-> c.type, from |-> c.from, to |-> to, text |-> c.text])]
    /\ UNCHANGED vars

KeepPatches == input.kind = "none" /\ Next /\ UNCHANGED input

AlgorithmsNext ==
    \/ ChooseGlob \/ ChooseVersions \/ ChooseFormula \/ ChooseFilter \/ ChooseUpload
    \/ ChooseRelease \/ ChooseClaims \/ ChooseLists
    \/ ChooseFlood \/ ChooseReport \/ ChooseBuilds \/ ChooseCopy
    \/ ChooseFile \/ ChooseCommand \/ KeepPatches

AlgorithmsSpec == AlgorithmsInit /\ [][AlgorithmsNext]_allVars

-----------------------------------------------------------------------------
(* rredtool: patches read, merged, printed and read again do what an       *)
(* editor does with the commands they were read from.                      *)
EditsKept == input.kind = "patch" => PatchesAgree(input.file, input.commands)

(* Globs, version comparison, formulas and filter lists say what they mean *)
(* to say (see GlobAgrees, VersionsOrdered, FormulaDecides, FilterFinds).  *)
RulesMean ==
    CASE input.kind = "glob" ->
             Rules!GlobAgrees(input.string,
                 FlattenSeq([i \in DOMAIN input.pattern |-> input.pattern[i].written]),
                 [i \in DOMAIN input.pattern |-> input.pattern[i].is])
      [] input.kind = "versions" -> Rules!VersionsOrdered(input.u, input.v, input.w)
      [] input.kind = "formula" -> Rules!FormulaDecides(input.formula)
      [] input.kind = "filter" -> Rules!FilterFinds(input.lines, input.asked)
      [] OTHER -> TRUE

(* Who may upload what, and which Release file is trusted, is what the     *)
(* Uploaders file and the VerifyRelease conditions say.  Excepted is       *)
(* include with a rule about byhand files, or about sections when the      *)
(* files of a source package are listed with several: it reads these       *)
(* otherwise than the manual (see ReadOtherwise, UploadDecided,            *)
(* ReleaseTrusted).                                                        *)
RightsMean ==
    CASE input.kind = "upload" ->
             Rights!UploadDecided(input.files, input.delivery.keyring, input.delivery.file,
                                  input.upload, input.delivery.command)
      [] input.kind = "release" ->
             Rights!ReleaseTrusted(input.release.keyring, input.conditions,
                                   input.release.file, input.release.ignoring)
      [] OTHER -> TRUE

(* What is known of a file's content is all that was claimed of it, and    *)
(* the files of a .dsc or .changes are read as listed (see ClaimsAdded,    *)
(* ListsKept).                                                             *)
HashesKept ==
    CASE input.kind = "claims" -> Sums!ClaimsAdded(input.claims, Content)
      [] input.kind = "lists" -> Sums!ListsKept(input.fields)
      [] OTHER -> TRUE

(* Flooding, reports, copies, moves and restores do what they are to do.   *)
(* Excepted is what sourcemissing says of sources only kept by tracking,   *)
(* and the rest that FloodPrefers, ReportsAgree, BuildsListed,             *)
(* CopiesExactly and RestoresExactly name.                                 *)
CommandsMean ==
    CASE input.kind = "flood" ->
             Floods!FloodPrefers(input.flood.target, input.flood.others,
                 {p.name : p \in Range(input.flood.target \o FlattenSeq(input.flood.others))})
      [] input.kind = "report" -> Reports!ReportsAgree(input.report.distribution, input.report.kept)
      [] input.kind = "builds" -> Reports!BuildsListed(input.builds.source, input.builds.builds, Architecture)
      [] input.kind \in {"copy", "move"} ->
             \A from \in DOMAIN input.dists :
                 Copies!CopiesExactly(input.dists, "into", from, TargetOrder, input.request.matching,
                     input.request.by, input.kind = "move", input.fault.missing, input.fault.failing)
      [] input.kind = "restore" ->
             Copies!RestoresExactly(input.dists, "into", input.dists["from"].targets, TargetOrder,
                 input.request.matching, input.request.by, input.fault.missing, input.fault.failing)
      [] OTHER -> TRUE

=============================================================================
