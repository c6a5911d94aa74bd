----------------------------- MODULE PatchIndex -----------------------------
(***************************************************************************)
(* rredtool.c, the export hook that keeps a directory of patches besides   *)
(* an index file, so that who has an older one can get the new one by a    *)
(* small patch.  It is called when the new index file is written, and what *)
(* it writes is put in place after that by release_finish, one file at a   *)
(* time; the process can die between any two.                              *)
(***************************************************************************)
EXTENDS RredPatch, FiniteSetsExt

CONSTANTS
    Version,         \* what the index file can be, sequences of lines
    MaxPatchCount,   \* --max-patch-count
    MaxExports,      \* bound: exports
    MaxDate,         \* bound: seconds, of which an export may take none
    MaxFaults        \* bound: failures

VARIABLES
    file,       \* the index file in place, <<>> if there is none
    index,      \* its .diff/Index in place
    patches,    \* the other files there: name -> patch, as printed
    news,       \* those with .new appended
    pending,    \* what release_finish has still to do, in its order
    moved,      \* somethingwasdone
    date,
    exports, faults,
    damaged,    \* history: "index files might be in a inconsistent state"
    reused      \* history: the name of a patch in place was used again

directory == <<file, index, patches, news>>
vars == <<directory, pending, moved, date, exports, faults, damaged, reused>>

(* A patch is called by the time it was made, before that stands for the   *)
(* older of them what tells the version apart it is from: the time its     *)
(* first patch was made, and as many + as it takes.  0 stands for          *)
(* "aptbug545699".                                                         *)
Name == [first : 0..MaxDate, plus : 0..MaxExports, date : 0..MaxDate]
Direct == [first |-> date, plus |-> 0, date |-> 0]
Fake == [first |-> 0, plus |-> 1, date |-> date]

NoIndex == [current |-> <<>>, history |-> <<>>]

Init ==
    /\ file = <<>> /\ index = NoIndex /\ patches = <<>> /\ news = <<>>
    /\ pending = <<>> /\ moved = FALSE
    /\ date = 1 /\ exports = 0 /\ faults = 0 /\ damaged = FALSE /\ reused = FALSE

Fault == faults < MaxFaults /\ faults' = faults + 1

(* A mutant: the Index there is believed whatever it is about. *)
OldIndexAnyhow == index

(* An Index that is not about the file in place is ignored.                *)
OldIndex == IF index.current = file THEN index ELSE NoIndex

-----------------------------------------------------------------------------

(* make_prefix_uniq: each later entry of the same prefix has one + more    *)
(* put after this one's.                                                   *)
NamePrefix(history, i) ==
    [first |-> history[i].name.first,
     plus |-> 1 + Cardinality({j \in i + 1..Len(history) :
                                 history[j].name.first = history[i].name.first})]

MergedName(history, i) ==
    LET prefix == NamePrefix(history, i)
    IN  [first |-> prefix.first, plus |-> prefix.plus, date |-> date]

(* diff --ed --minimal.  No line is there twice, so the lines both have    *)
(* are what is kept.                                                       *)
EdDiff(old, new) ==
    LET Kept(s, t) == SelectSeq(s, LAMBDA l : l \in ToSet(t))
        common == Kept(old, new)
        Place(s, k) == IF k = 0 THEN 0 ELSE IF k > Len(common) THEN Len(s) + 1
                       ELSE CHOOSE i \in DOMAIN s : s[i] = common[k]
        Hunk(k) == [start |-> Place(old, k) + 1,
                    old |-> Place(old, k + 1) - Place(old, k) - 1,
                    new |-> SubSeq(new, Place(new, k) + 1, Place(new, k + 1) - 1)]
    IN  SelectSeq([k \in 1..Len(common) + 1 |-> Hunk(k - 1)],
                  LAMBDA m : m.old > 0 \/ m.new # <<>>)

(* The patches of an older version that are merged with the new one, the   *)
(* newest first: not those of the old or the new version itself, and not   *)
(* those that are missing; and only so many.                               *)
Mergeable(new) ==
    LET h == OldIndex.history
        wanted == {i \in DOMAIN h : h[i].from \notin {OldIndex.current, new}
                                    /\ h[i].name \in DOMAIN patches}
    IN  {i \in wanted : Cardinality({j \in wanted : j > i}) < MaxPatchCount - 1}

Merged(new, i) ==
    CombinePatches(PatchLoad(patches[OldIndex.history[i].name]).mods, EdDiff(file, new)).mods

(* What is listed for the new version, the oldest first, with those left   *)
(* out that are bigger than the file itself.                               *)
NewHistory(new, big) ==
    LET h == OldIndex.history
        is == SetToSortSeq(Mergeable(new) \ big, <)
    IN  [k \in DOMAIN is |-> [from |-> h[is[k]].from, name |-> MergedName(h, is[k]),
                              patch |-> AddStuff(Merged(new, is[k]), new)]]
        \o <<[from |-> file, name |-> Direct, patch |-> AddStuff(EdDiff(file, new), new)],
             [from |-> new, name |-> Fake, patch |-> AddStuff(<<>>, new)]>>

(* remove_old_diffs: everything else there is to be deleted, and without   *)
(* anything to keep the Index, too.                                        *)
Removals(keep) ==
    SetToSeq({[do |-> "delete", name |-> n] : n \in DOMAIN patches \ keep}
             \cup {[do |-> "delete new", name |-> n] : n \in DOMAIN news \ keep})
    \o (IF keep = {} /\ index # NoIndex THEN <<[do |-> "delete index"]>> ELSE <<>>)

Listed(history) ==
    [current |-> <<>>, history |-> [i \in DOMAIN history |->
        [from |-> history[i].from, name |-> history[i].name]]]

(* handle_diff, with the new index file written, too.                      *)
Replace(new) == <<[do |-> "file", file |-> new]>>

StartExport ==
    /\ pending = <<>> /\ exports < MaxExports /\ exports' = exports + 1
    /\ date' \in {d \in {date, date + 1} : d <= MaxDate}
    /\ moved' = FALSE
    /\ UNCHANGED <<file, index, patches, faults, damaged>>

(* Without an old file or a new one, or with a patch that is bigger than   *)
(* the new file: everything is deleted.                                    *)
ExportWithout(new) ==
    /\ StartExport
    /\ file # new
    /\ pending' = Replace(new) \o Removals({})
    /\ UNCHANGED <<news, reused>>

Export(new) ==
    /\ file # <<>> /\ new # <<>> /\ file # new
    /\ StartExport
    /\ \E big \in SUBSET Mergeable(new) :
         LET h == NewHistory(new, big)
             written == {h[i].name : i \in DOMAIN h}
         IN  /\ reused' = (reused \/ written \cap DOMAIN patches # {})
             /\ news' = [n \in DOMAIN news \cup written |->
                  IF n \in written
                    THEN PrintAsPatch(h[CHOOSE i \in DOMAIN h : h[i].name = n].patch)
                    ELSE news[n]]
             /\ pending' =
                  Replace(new) \o Removals(written)
                  \o [i \in DOMAIN h |-> [do |-> "move", name |-> h[i].name]]
                  \o <<[do |-> "index", index |-> [Listed(h) EXCEPT !.current = new]]>>

(* Nothing changed: an Index that is about something else goes away.       *)
ExportUnchanged ==
    /\ StartExport
    /\ file # <<>> /\ OldIndex = NoIndex
    /\ pending' = Removals({})
    /\ UNCHANGED <<news, reused>>

-----------------------------------------------------------------------------
(* release_finish                                                          *)

Without(f, n) == [m \in DOMAIN f \ {n} |-> f[m]]
With(f, n, x) == [m \in DOMAIN f \cup {n} |-> IF m = n THEN x ELSE f[m]]

Finish ==
    /\ pending # <<>>
    /\ LET next == Head(pending) IN
       /\ file' = IF next.do = "file" THEN next.file ELSE file
       /\ index' = IF next.do = "index" THEN next.index
                   ELSE IF next.do = "delete index" THEN NoIndex ELSE index
       /\ patches' = IF next.do = "move" THEN With(patches, next.name, news[next.name])
                     ELSE IF next.do = "delete" THEN Without(patches, next.name) ELSE patches
       /\ news' = IF next.do \in {"move", "delete new"} THEN Without(news, next.name) ELSE news
       /\ moved' = (moved \/ next.do \in {"file", "index", "move"})
       /\ damaged' = (damaged /\ next.do # "file")
    /\ pending' = Tail(pending)
    /\ UNCHANGED <<date, exports, faults, reused>>

(* A failing rename ends it if it is the first, and otherwise is told of.  *)
(* What cannot be deleted stays, and nobody minds.                         *)
FinishFails ==
    /\ pending # <<>> /\ Fault
    /\ LET next == Head(pending)
           serious == next.do \in {"file", "index", "move"} IN
       /\ pending' = IF serious /\ ~moved THEN <<>> ELSE Tail(pending)
       /\ damaged' = (damaged \/ (serious /\ moved))
    /\ UNCHANGED <<directory, moved, date, exports, reused>>

Crash ==
    /\ pending # <<>> /\ Fault
    /\ pending' = <<>>
    /\ UNCHANGED <<directory, moved, date, exports, damaged, reused>>

Next ==
    \/ \E new \in Version : ExportWithout(new) \/ Export(new)
    \/ ExportUnchanged \/ Finish \/ FinishFails \/ Crash

Spec == Init /\ [][Next]_vars

-----------------------------------------------------------------------------
(* Between two exports an Index that is about the index file in place      *)
(* offers patches that are there and make the file of what they say they   *)
(* are for, also when one died or failed, unless it was told that "some    *)
(* files were already moved to place, some could not be" and the file was  *)
(* not exported again, or exports of one second, the names of whose        *)
(* patches are the same, were among those that failed.                     *)
Serves(entry) ==
    /\ entry.name \in DOMAIN patches
    /\ LET patch == PatchLoad(patches[entry.name]) IN
       /\ ~patch.broken
       /\ PatchFile(entry.from, patch.mods) = [failed |-> FALSE, file |-> file]

IndexServes ==
    (pending = <<>> /\ ~damaged /\ (faults = 0 \/ ~reused)
        /\ index # NoIndex /\ index.current = file) =>
        \A i \in DOMAIN index.history : Serves(index.history[i])

=============================================================================
