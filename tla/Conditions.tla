----------------------------- MODULE Conditions -----------------------------
(***************************************************************************)
(* What decides which packages a rule is about: globs (globmatch.c), the   *)
(* order of versions (dpkgversions.c), formulas (terms.c, termdecide.c)    *)
(* and filter lists (filterlist.c), each next to what it is to compute.    *)
(***************************************************************************)
EXTENDS Integers, SequencesExt

(* Characters are numbers, those with a meaning in a glob negative ones; 0 *)
(* is the end of a string.                                                 *)
Star == -1
AnyOne == -2
Open == -3
Close == -4
Not == -5
Dash == -6

CharAt(s, i) == IF i <= Len(s) THEN s[i] ELSE 0

-----------------------------------------------------------------------------
(* globmatch                                                               *)

(* What of a [...] a character c can match, from its element at j on.      *)
RECURSIVE ClassMatch(_, _, _, _)
ClassMatch(pattern, j, c, matches) ==
    LET range == CharAt(pattern, j + 1) = Dash /\ CharAt(pattern, j + 2) \notin {Close, 0}
        now == matches \/ (IF range THEN pattern[j] <= c /\ c <= pattern[j + 2] ELSE c = pattern[j])
        next == IF range THEN j + 3 ELSE j + 1
    IN  IF CharAt(pattern, next) = 0 THEN [stray |-> TRUE, matches |-> FALSE, next |-> next]
        ELSE IF pattern[next] = Close THEN [stray |-> FALSE, matches |-> now, next |-> next + 1]
        ELSE ClassMatch(pattern, next, c, now)

Class(pattern, i, c) ==
    LET negate == CharAt(pattern, i + 1) = Not
        first == IF negate THEN i + 2 ELSE i + 1
        class == ClassMatch(pattern, first, c, FALSE)
    IN  IF CharAt(pattern, first) = 0 THEN [stray |-> TRUE, matches |-> FALSE, next |-> first]
        ELSE [class EXCEPT !.matches = (@ # negate)]

RECURSIVE AfterStars(_, _)
AfterStars(pattern, j) == IF CharAt(pattern, j) = Star THEN AfterStars(pattern, j + 1) ELSE j

(* The places of the pattern the string may have got to after one more     *)
(* character, from place i.                                                *)
Places(pattern, i, c) ==
    LET Past(j) == {j, AfterStars(pattern, j)} IN
    IF CharAt(pattern, i) = 0 THEN {}
    ELSE IF pattern[i] = Star THEN {i, AfterStars(pattern, i)}
    ELSE IF pattern[i] = Open
      THEN LET class == Class(pattern, i, c) IN IF class.matches THEN Past(class.next) ELSE {}
    ELSE IF pattern[i] \in {AnyOne, c} THEN Past(i + 1) ELSE {}

Stray(pattern, i, c) == CharAt(pattern, i) = Open /\ Class(pattern, i, c).stray

GlobMatch(string, pattern) ==
    LET Step(possible, c) ==
            IF \E i \in possible : Stray(pattern, i, c) THEN {}
            ELSE UNION {Places(pattern, i, c) : i \in possible}
    IN  Len(pattern) + 1 \in FoldLeft(Step, {1, AfterStars(pattern, 1)}, string)

(* What it is to compute, for a pattern given as a sequence of its parts:  *)
(* Star, or the set of characters one may be.                              *)
RECURSIVE Matches(_, _)
Matches(string, parts) ==
    IF parts = <<>> THEN string = <<>>
    ELSE IF Head(parts) = {Star}
      THEN \E n \in 0..Len(string) : Matches(SubSeq(string, n + 1, Len(string)), Tail(parts))
    ELSE string # <<>> /\ Head(string) \in Head(parts) /\ Matches(Tail(string), Tail(parts))

-----------------------------------------------------------------------------
(* dpkgversions_cmp, of versions already taken apart.  Digits are numbers  *)
(* 0 to 9, "~" is -1, letters are 10 and up and other characters 300 and   *)
(* up.                                                                     *)
Digit(c) == c \in 0..9
NonDigit(s) == s # <<>> /\ ~Digit(Head(s))

(* A mutant: what ends first is smaller, also before a "~". *)
OrderAtEnd(s) == IF s = <<>> THEN -2 ELSE IF Digit(Head(s)) THEN 0 ELSE Head(s)

Order(s) == IF s = <<>> \/ Digit(Head(s)) THEN 0 ELSE Head(s)

RECURSIVE Digits(_)
Digits(s) == IF s = <<>> \/ NonDigit(s) THEN <<>> ELSE <<Head(s)>> \o Digits(Tail(s))

RECURSIVE NoZeros(_)
NoZeros(s) == IF s # <<>> /\ Head(s) = 0 THEN NoZeros(Tail(s)) ELSE s

(* Of two numbers without zeros in front, the longer one is the bigger.    *)
DigitsCmp(m, n) ==
    IF Len(m) # Len(n) THEN Len(m) - Len(n)
    ELSE LET differ == {i \in DOMAIN m : m[i] # n[i]} IN
         IF differ = {} THEN 0
         ELSE LET i == CHOOSE k \in differ : \A l \in differ : k <= l IN m[i] - n[i]

RECURSIVE VerRevCmp(_, _)
VerRevCmp(val, ref) ==
    IF val = <<>> /\ ref = <<>> THEN 0
    ELSE IF NonDigit(val) \/ NonDigit(ref) THEN
        IF Order(val) # Order(ref) THEN Order(val) - Order(ref)
        ELSE VerRevCmp(Tail(val), Tail(ref))
    ELSE LET m == NoZeros(Digits(val))
             n == NoZeros(Digits(ref))
             After(s) == SubSeq(s, Len(Digits(s)) + 1, Len(s))
         IN  IF DigitsCmp(m, n) # 0 THEN DigitsCmp(m, n) ELSE VerRevCmp(After(val), After(ref))

VersionCompare(v, w) ==
    IF v.epoch # w.epoch THEN v.epoch - w.epoch
    ELSE LET r == VerRevCmp(v.version, w.version) IN
         IF r # 0 THEN r ELSE VerRevCmp(v.revision, w.revision)

-----------------------------------------------------------------------------
(* term_compile: a formula is a sequence of atoms, each with the "(" before*)
(* it, whether a ")" follows and the "," or "|" after that.  The atoms are *)
(* numbered, 0 is NULL.                                                    *)
RECURSIVE LastFalse(_, _)
LastFalse(t, p) == IF t.false[p] = 0 THEN p ELSE LastFalse(t, t.false[p])

RECURSIVE LastTrue(_, _)
LastTrue(t, p) == IF t.true[p] = 0 THEN p ELSE LastTrue(t, t.true[p])

RECURSIVE OrTerm(_, _, _)
OrTerm(t, p, or) ==
    IF p = 0 THEN t
    ELSE LET q == LastFalse(t, p) IN OrTerm([t EXCEPT !.false[q] = or], t.true[q], or)

(* A mutant: only what the last of a chain leads to is looked at. *)
AndTermLast(t, p, and) ==
    IF p = 0 THEN t
    ELSE [t EXCEPT !.true[LastTrue(t, p)] = and]

RECURSIVE AndTerm(_, _, _)
AndTerm(t, p, and) ==
    IF p = 0 THEN t
    ELSE LET q == LastTrue(t, p) IN AndTerm([t EXCEPT !.true[q] = and], t.false[q], and)

(* levels[]: inand and inor hold them, the one of depth 0 first, as far as *)
(* they are initialized.                                                   *)
AddAtom(t, atom) ==
    LET n == Len(t.true) + 1
        last == Len(t.inand)
        depth == t.depth + atom.opens
        Levels(l) == l \o [k \in 1..depth + 1 - last |-> n]
        read == [t EXCEPT !.true = Append(@, 0), !.false = Append(@, 0),
                          !.inand = Levels(t.inand), !.inor = Levels(t.inor)]
        joined ==
            IF n = 1 THEN read
            ELSE IF t.junction = ","
              THEN [AndTerm(read, t.inand[last], n) EXCEPT !.inand[last] = n, !.inor[last] = n]
              ELSE [OrTerm(read, t.inor[last], n) EXCEPT !.inor[last] = n]
        left == IF atom.close THEN depth - 1 ELSE depth
    IN  [joined EXCEPT !.inand = SubSeq(@, 1, left + 1), !.inor = SubSeq(@, 1, left + 1),
                       !.depth = left, !.junction = atom.junction]

TermCompile(formula) ==
    FoldLeft(AddAtom, [true |-> <<>>, false |-> <<>>, inand |-> <<>>, inor |-> <<>>,
                       depth |-> 0, junction |-> "none"], formula)

(* term_decidepackage, from atom i on                                      *)
RECURSIVE Decide(_, _, _)
Decide(t, i, correct) ==
    LET next == IF correct[i] THEN t.true[i] ELSE t.false[i]
    IN  IF next = 0 THEN correct[i] ELSE Decide(t, next, correct)

(* What a formula says, "|" binding more than ",": for each "(" open, the  *)
(* parts that are done and what is known of the one being read.            *)
Value(formula, correct) ==
    LET Done(s) == s.all /\ s.one
        Read(stack, i) ==
            LET opened == stack \o [k \in 1..formula[i].opens |-> [all |-> TRUE, one |-> FALSE]]
                Or(s, b) == Front(s) \o <<[Last(s) EXCEPT !.one = @ \/ b]>>
                known == Or(opened, correct[i])
                closed == IF formula[i].close THEN Or(Front(known), Done(Last(known))) ELSE known
            IN  IF formula[i].junction = ","
                  THEN Front(closed) \o <<[all |-> Done(Last(closed)), one |-> FALSE]>>
                  ELSE closed
        end == FoldLeft(Read, <<[all |-> TRUE, one |-> FALSE]>>, [i \in DOMAIN formula |-> i])
    IN  Done(end[1])

-----------------------------------------------------------------------------
(* check_field and compare_dpkgversions: what a comparison says about the  *)
(* sign of the order, and about a field that is not there.                 *)
Comparison == {"=", "<<", ">>", "<=", ">=", "!="}

Says(comparison, sign) ==
    CASE sign < 0 -> comparison \in {"<<", "<=", "!="}
      [] sign > 0 -> comparison \in {">>", ">=", "!="}
      [] OTHER -> comparison \in {"<=", ">=", "="}

Complement == [c \in Comparison |->
    CASE c = "=" -> "!=" [] c = "!=" -> "=" [] c = "<<" -> ">=" [] c = ">=" -> "<<"
      [] c = ">>" -> "<=" [] c = "<=" -> ">>"]

-----------------------------------------------------------------------------
(* filterlist.c: a file is a sequence of items sorted by name, with a      *)
(* cursor that stays where the last name was found or should have been.    *)

(* Where a line of that name goes, looked for from the last one read on.   *)
RECURSIVE PlaceFrom(_, _, _)
PlaceFrom(items, at, name) ==
    IF at <= Len(items) /\ name > items[at].name THEN PlaceFrom(items, at + 1, name) ELSE at

AddLine(f, line) ==
    LET from == IF f.last = 0 \/ (line.name < f.items[f.last].name) THEN 1 ELSE f.last
        at == PlaceFrom(f.items, from, line.name)
    IN  IF f.failed \/ (at <= Len(f.items) /\ f.items[at].name = line.name)
          THEN [f EXCEPT !.failed = TRUE]
          ELSE [f EXCEPT !.items = InsertAt(@, at, line), !.last = at]

FilterlistFileParse(lines) == FoldLeft(AddLine, [items |-> <<>>, last |-> 0, failed |-> FALSE], lines)

RECURSIVE FindAfter(_, _, _)
FindAfter(items, last, name) ==
    IF last < Len(items) /\ name = items[last + 1].name THEN [found |-> TRUE, last |-> last + 1]
    ELSE IF last < Len(items) /\ name > items[last + 1].name THEN FindAfter(items, last + 1, name)
    ELSE [found |-> FALSE, last |-> last]

Find(items, last, name) ==
    LET here == [found |-> name = items[last].name, last |-> last] IN
    IF last < Len(items) /\ name >= items[last + 1].name THEN FindAfter(items, last, name)
    ELSE IF name >= items[last].name THEN here
    ELSE IF name = items[1].name THEN [found |-> TRUE, last |-> 1]
    ELSE IF name < items[1].name THEN here
    ELSE FindAfter(items, 1, name)

(* filterlist_find in one file: the item and where the cursor is after it. *)
FilterlistFind(f, name, version) ==
    IF f.items = <<>> THEN [what |-> "default", last |-> f.last]
    ELSE LET found == Find(f.items, f.last, name)
             item == f.items[found.last]
         IN  [what |-> IF found.found /\ item.version \in {0, version} THEN item.what ELSE "default",
              last |-> found.last]

-----------------------------------------------------------------------------

(* A pattern, whose parts are given, too, matches what it says.            *)
GlobAgrees(string, pattern, parts) == GlobMatch(string, pattern) <=> Matches(string, parts)

(* The order of versions is one: BerkeleyDB sorts by it, and what is not   *)
(* newer is replaced by what is.  Comparisons and their negations say the  *)
(* opposite of each other, about a field that is there.                    *)
Sign(n) == IF n < 0 THEN -1 ELSE IF n > 0 THEN 1 ELSE 0

VersionsOrdered(u, v, w) ==
    LET uv == Sign(VersionCompare(u, v))
        vw == Sign(VersionCompare(v, w))
        uw == Sign(VersionCompare(u, w))
    IN  /\ Sign(VersionCompare(v, u)) = -uv
        /\ uv <= 0 /\ vw <= 0 => uw <= 0 /\ (uv < 0 \/ vw < 0 => uw < 0)
        /\ \A c \in Comparison : Says(c, uv) <=> ~Says(Complement[c], uv)

(* The atoms a formula is walked along decide what it says, whatever is    *)
(* true of them.                                                           *)
FormulaDecides(formula) ==
    LET term == TermCompile(formula) IN
    \A correct \in [DOMAIN formula -> BOOLEAN] :
        Decide(term, 1, correct) <=> Value(formula, correct)

(* A filter list in any order says of each name what its line says,        *)
(* whatever was looked for before; one that has a name twice is refused.   *)
FilterFinds(lines, asked) ==
    LET f == FilterlistFileParse(lines)
        Ask(s, name) ==
            LET answer == FilterlistFind([f EXCEPT !.last = s.last], name, 1)
                line == {i \in DOMAIN lines : lines[i].name = name /\ lines[i].version \in {0, 1}}
            IN  [last |-> answer.last,
                 right |-> s.right /\ answer.what =
                     IF line = {} THEN "default" ELSE lines[CHOOSE i \in line : TRUE].what]
    IN  IF \E i, j \in DOMAIN lines : i # j /\ lines[i].name = lines[j].name
          THEN f.failed
          ELSE ~f.failed /\ FoldLeft(Ask, [last |-> f.last, right |-> TRUE], asked).right

=============================================================================
