------------------------------ MODULE RredPatch ------------------------------
(***************************************************************************)
(* rredpatch.c: patches in the restricted ed format of the .diff           *)
(* directories, read, merged, printed and applied.  A file is a sequence   *)
(* of lines, a patch a sequence of modifications in the order of the lines *)
(* they change, each telling the first line it is about, how many lines    *)
(* there it replaces, and the lines it puts there instead.                 *)
(***************************************************************************)
EXTENDS Integers, SequencesExt

(* What has a modification overlap with the next one, or is reported as an *)
(* "Internal error in rred merging!".                                      *)
Good(mods) == [broken |-> FALSE, mods |-> mods]
Broken == [broken |-> TRUE, mods |-> <<>>]

(* A mutant: what is replaced at the end is cut off at the start. *)
StripsStart(m, r) == [m EXCEPT !.new = SubSeq(@, r + 1, Len(@))]

StripEndLines(m, r) == [m EXCEPT !.new = SubSeq(@, 1, Len(@) - r)]

StripStartLines(m, r) == [m EXCEPT !.new = SubSeq(@, r + 1, Len(@))]

(* move_queue: a modification following the last without a line between    *)
(* them is joined with it if one of them adds nothing.  (Joining the parts *)
(* of what was one text, too, only saves a command.)                       *)
Moved(mods, m) ==
    LET last == mods[Len(mods)]
        joined == [start |-> last.start, old |-> last.old + m.old, new |-> last.new \o m.new]
    IN  IF mods = <<>> THEN <<m>>
        ELSE IF m.start = last.start + last.old /\ (m.new = <<>> \/ last.new = <<>>)
          THEN Front(mods) \o <<joined>>
        ELSE Append(mods, m)

InOrder(mods) == \A i \in 1..Len(mods) - 1 : mods[i].start + mods[i].old <= mods[i + 1].start

(***************************************************************************)
(* combine_patches: merge the patch second, about what the patch first     *)
(* makes of a file, into first.  ofs is what a line number of second       *)
(* changes by for what was done of first.                                  *)
(***************************************************************************)
RECURSIVE Combined(_, _, _, _)
Combined(result, first, second, ofs) ==
    LET a == Head(second)
        p == Head(first)
        from == ofs + a.start
        to == from + a.old
        end == p.start + Len(p.new)
        shift == p.old - Len(p.new)
        Whole == [a EXCEPT !.start = @ - shift, !.old = @ + shift]
        Before(r) == [a EXCEPT !.start = from, !.old = @ - r]
        Nothing(m) == m.old = 0 /\ m.new = <<>>
    IN
    IF second = <<>> THEN
        LET all == FoldLeft(Moved, result, first)
        IN  IF InOrder(all) THEN Good(all) ELSE Broken
    (* totally before *)
    ELSE IF first = <<>> \/ to <= p.start THEN
        Combined(Moved(result, Before(0)), first, Tail(second), ofs)
    (* after *)
    ELSE IF from >= end THEN
        Combined(Moved(result, p), Tail(first), second, ofs + shift)
    (* removes everything the old one added *)
    ELSE IF from <= p.start /\ to >= end THEN
        Combined(result, Tail(first),
                 (IF Nothing(Whole) THEN <<>> ELSE <<Whole>>) \o Tail(second), ofs + shift)
    (* start of a removes end of p *)
    ELSE IF from > p.start /\ to >= end THEN
        Combined(Moved(result, StripEndLines(p, end - from)), Tail(first),
                 <<[a EXCEPT !.start = @ + (end - from), !.old = @ - (end - from)]>> \o Tail(second),
                 ofs + shift)
    (* end of a removes start of p *)
    ELSE IF from <= p.start /\ to > p.start THEN
        LET r == to - p.start IN
        Combined(IF Nothing(Before(r)) THEN result ELSE Moved(result, Before(r)),
                 <<StripStartLines(p, r)>> \o Tail(first), Tail(second), ofs - r)
    (* a inside p, which is split *)
    ELSE IF from > p.start /\ to < end THEN
        LET n == [StripEndLines(p, end - from) EXCEPT !.old = 0] IN
        Combined(Moved(result, n),
                 <<StripStartLines(p, Len(n.new))>> \o Tail(first), second, ofs - Len(n.new))
    ELSE Broken

CombinePatches(first, second) == Combined(<<>>, first, second, 0)

-----------------------------------------------------------------------------
(***************************************************************************)
(* patch_load: a command has a type, "a", "i", "c" or "d", the lines it is *)
(* about and the text that follows.                                        *)
(***************************************************************************)
Parsed(cmd) ==
    CASE cmd.type = "a" -> [start |-> cmd.from + 1, old |-> 0, new |-> cmd.text]
      [] cmd.type = "i" -> [start |-> cmd.from, old |-> 0, new |-> cmd.text]
      [] OTHER -> [start |-> cmd.from, old |-> (cmd.to - cmd.from) + 1, new |-> cmd.text]

(* diff prints the last change first; what is not before everything read   *)
(* so far is merged with that.                                             *)
AndCommand(patch, cmd) ==
    LET n == Parsed(cmd) IN
    IF patch.broken THEN patch
    ELSE IF patch.mods # <<>> /\ n.start + n.old > patch.mods[1].start
      THEN CombinePatches(patch.mods, <<n>>)
      ELSE Good(<<n>> \o patch.mods)

PatchLoad(commands) == FoldLeft(AndCommand, Good(<<>>), commands)

(* modification_printaspatch: the last modification first, several without *)
(* a line between them as one.                                             *)
Joined(mods, m) ==
    LET last == mods[Len(mods)] IN
    IF mods # <<>> /\ m.start = last.start + last.old
      THEN Front(mods) \o <<[last EXCEPT !.old = @ + m.old, !.new = @ \o m.new]>>
      ELSE Append(mods, m)

Command(m) ==
    IF m.new = <<>> THEN [type |-> "d", from |-> m.start, to |-> m.start + m.old - 1, text |-> <<>>]
    ELSE IF m.old = 0 THEN [type |-> "a", from |-> m.start - 1, to |-> m.start - 1, text |-> m.new]
    ELSE [type |-> "c", from |-> m.start, to |-> m.start + m.old - 1, text |-> m.new]

PrintAsPatch(mods) ==
    LET all == FoldLeft(Joined, <<>>, mods)
    IN  [i \in DOMAIN all |-> Command(all[Len(all) + 1 - i])]

(* patch_file *)
PatchFile(file, mods) ==
    LET Copy(s, m) ==
            [at |-> m.start + m.old, failed |-> s.failed \/ m.start > Len(file) + 1,
             out |-> s.out \o SubSeq(file, s.at, m.start - 1) \o m.new]
        s == FoldLeft(Copy, [at |-> 1, failed |-> FALSE, out |-> <<>>], mods)
    IN  [failed |-> s.failed, file |-> s.out \o SubSeq(file, s.at, Len(file))]

(* modification_addstuff: a patch that is empty or only adds lines at the  *)
(* start replaces the next line, by itself, as well; file is what the      *)
(* patch makes.                                                            *)
OnlyAtStart(mods) == \A i \in DOMAIN mods : mods[i].old = 0 /\ mods[i].start <= 1

AddStuff(mods, file) ==
    LET added == FoldLeft(LAMBDA n, m : n + Len(m.new), 0, mods) IN
    IF OnlyAtStart(mods)
      THEN Append(mods, [start |-> 1, old |-> 1, new |-> <<file[added + 1]>>])
      ELSE mods

-----------------------------------------------------------------------------
(* What the commands of a patch do when an editor does one after the other.*)
Edited(file, cmd) ==
    CASE cmd.type = "a" -> SubSeq(file, 1, cmd.from) \o cmd.text \o SubSeq(file, cmd.from + 1, Len(file))
      [] cmd.type = "i" -> SubSeq(file, 1, cmd.from - 1) \o cmd.text \o SubSeq(file, cmd.from, Len(file))
      [] OTHER -> SubSeq(file, 1, cmd.from - 1) \o cmd.text \o SubSeq(file, cmd.to + 1, Len(file))

Ed(file, commands) == FoldLeft(Edited, file, commands)

(* "make sure things are in the order diff usually generates them": a      *)
(* patch read, in whatever order its commands are, does what an editor     *)
(* does with them; two patches merged, and printed and read again, do what *)
(* the one and then the other does.                                        *)
DoesAsEd(file, mods, commands) ==
    ~mods.broken /\ InOrder(mods.mods)
        /\ PatchFile(file, mods.mods) = [failed |-> FALSE, file |-> Ed(file, commands)]

PatchesAgree(file, commands) ==
    \A k \in 0..Len(commands) :
        LET first == PatchLoad(SubSeq(commands, 1, k))
            second == PatchLoad(SubSeq(commands, k + 1, Len(commands)))
            merged == CombinePatches(first.mods, second.mods)
        IN  /\ ~first.broken /\ ~second.broken
            /\ DoesAsEd(file, merged, commands)
            /\ DoesAsEd(file, PatchLoad(PrintAsPatch(merged.mods)), commands)

=============================================================================
