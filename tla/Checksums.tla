----------------------------- MODULE Checksums -----------------------------
(***************************************************************************)
(* What is known of a file's content (checksums.c): its size and some of   *)
(* its hashes, in one text as in checksums.db.  Claims about a file come   *)
(* from an index, a .dsc, a .changes file, the database or reading it;     *)
(* they are compared and added to each other in any order.                 *)
(***************************************************************************)
EXTENDS Integers, SequencesExt

(* enum checksumtype; a hash is a number, 0 if there is none.              *)
Md5 == 0
Sha1 == 1
Sha256 == 2
Length == 3
Kinds == <<Md5, Sha1, Sha256>>
Extended == <<Sha1, Sha256>>
Dash == 0

(* struct checksums: the text, and whether its md5sum has a length         *)
Checksums(ext, md5, size, length) == [ext |-> ext, md5 |-> md5, size |-> size, md5length |-> length]

(* A claim is [md5, hashes, size], hashes a function of the digits.        *)
Initialize(claim) ==
    LET given == SelectSeq(Extended, LAMBDA t : claim.hashes[t] # 0)
    IN  Checksums([i \in DOMAIN given |-> [type |-> given[i], sum |-> claim.hashes[given[i]]]],
                  claim.md5, claim.size, claim.md5 # 0)

Parse(c) == [c EXCEPT !.md5length = (c.md5 # Dash)]

(* What is known of one kind: at most one value                            *)
Part(c, type) ==
    CASE type = Md5 -> IF c.md5length THEN {c.md5} ELSE {}
      [] type = Length -> {c.size}
      [] OTHER -> {e.sum : e \in {x \in Range(c.ext) : x.type = type}}

Types == {Sha1, Sha256}
Same(a, b, type) == Part(a, type) = {} \/ Part(b, type) = {} \/ Part(a, type) = Part(b, type)
Differ(a, b) == ~Same(a, b, Md5) \/ ~Same(a, b, Length) \/ \E t \in Types : ~Same(a, b, t)
Check(c, real) == ~Differ(c, real)

Adds(c, real, type) == Part(c, type) = {} /\ Part(real, type) # {}
Improves(c, real) == Adds(c, real, Md5) \/ \E t \in Types : Adds(c, real, t)

(* A mutant: what both texts have is kept twice.                           *)
MergeAll(old, by) == SortSeq(old \o by, LAMBDA a, b : a.type < b.type)

(* Both texts have their hashes in the order of the digits.                *)
RECURSIVE Merge(_, _)
Merge(old, by) ==
    IF old = <<>> \/ by = <<>> THEN old \o by
    ELSE IF old[1].type <= by[1].type
      THEN <<old[1]>> \o Merge(Tail(old), IF by[1].type = old[1].type THEN Tail(by) ELSE by)
      ELSE <<by[1]>> \o Merge(old, Tail(by))

(* A mutant: the md5sum is that of the old text, whether it has one or not. *)
CombineKeepingRest(c, by) == Checksums(Merge(c.ext, by.ext), c.md5, c.size, TRUE)

(* The rest of the old text, unless only the new one has the md5sum; if    *)
(* neither has, the "-" is taken for one.                                  *)
Combine(c, by) ==
    LET rest == IF c.md5 = Dash /\ by.md5 # Dash THEN by ELSE c
    IN  Checksums(Merge(c.ext, by.ext), rest.md5, rest.size, TRUE)

(* What the callers do with a second claim                                 *)
AddTo(c, by) ==
    IF ~Check(c, by) THEN [result |-> "wrong", checksums |-> c]
    ELSE [result |-> "ok", checksums |-> IF Improves(c, by) THEN Combine(c, by) ELSE c]

(* checksums_test and checksums_complete, file being what reading it says  *)
Test(c, file) == IF c.size # file.size THEN [result |-> "wrong", checksums |-> c] ELSE AddTo(c, file)
IsComplete(c) == c.md5length /\ \A t \in Types : Part(c, t) # {}
Complete(c, file) == IF IsComplete(c) THEN [result |-> "ok", checksums |-> c] ELSE Test(c, file)

-----------------------------------------------------------------------------
(* checksumsarray: the lines of the fields Files, Checksums-Sha1 and       *)
(* Checksums-Sha256, as [file, sum, size], by kind                         *)

(* A mutant, in place of AddHash: the size a file is listed with first is  *)
(* not compared.                                                           *)
AddHashAnyhow(parsed, kind, line) ==
    [parsed EXCEPT ![CHOOSE i \in DOMAIN parsed : parsed[i].file = line.file].hashes[kind] = line.sum]

AddHash(parsed, kind, line) ==
    [i \in DOMAIN parsed |->
        IF parsed[i].file = line.file /\ parsed[i].size = line.size
        THEN [parsed[i] EXCEPT !.hashes[kind] = line.sum] ELSE parsed[i]]

AddLine(parsed, kind, line) ==
    IF \E i \in DOMAIN parsed : parsed[i].file = line.file THEN AddHash(parsed, kind, line)
    ELSE Append(parsed, [file |-> line.file, size |-> line.size,
                         hashes |-> [k \in Range(Kinds) |-> IF k = kind THEN line.sum ELSE 0]])

ArrayParse(fields) ==
    LET Of(parsed, kind) == FoldLeft(LAMBDA p, line : AddLine(p, kind, line), parsed, fields[kind])
        all == FoldLeft(Of, <<>>, Kinds)
    IN  [i \in DOMAIN all |->
            [file |-> all[i].file,
             checksums |-> Initialize([md5 |-> all[i].hashes[Md5], size |-> all[i].size,
                                       hashes |-> [t \in Types |-> all[i].hashes[t]]])]]

(* A field is left out if a file has no such hash, but for the md5sums,    *)
(* where "-" stands for one.                                               *)
GenFileList(array) ==
    LET Missing(k) == k # Md5 /\ \E i \in DOMAIN array : Part(array[i].checksums, k) = {}
        Sum(c, k) == IF Part(c, k) = {} THEN Dash ELSE CHOOSE s \in Part(c, k) : TRUE
    IN  [k \in Range(Kinds) |->
            IF Missing(k) THEN <<>>
            ELSE [i \in DOMAIN array |->
                     [file |-> array[i].file, sum |-> Sum(array[i].checksums, k),
                      size |-> array[i].checksums.size]]]

-----------------------------------------------------------------------------
(* What is to come out: all that was claimed, as long as it fits.          *)
Knowing(claim) == [md5 |-> {claim.md5} \ {0}, size |-> {claim.size}, hashes |-> [t \in Types |-> {claim.hashes[t]} \ {0}]]
Agree(a, b) == a = {} \/ b = {} \/ a = b
Fits(known, more) ==
    Agree(known.md5, more.md5) /\ Agree(known.size, more.size)
      /\ \A t \in Types : Agree(known.hashes[t], more.hashes[t])
With(known, more) ==
    [md5 |-> known.md5 \cup more.md5, size |-> known.size,
     hashes |-> [t \in Types |-> known.hashes[t] \cup more.hashes[t]]]
Represents(c, known) ==
    Part(c, Md5) = known.md5 /\ c.size \in known.size /\ \A t \in Types : Part(c, t) = known.hashes[t]

(* Claims added to the first one after the other: what fits is accepted    *)
(* and nothing else, and all of it is known then; in the end the file is   *)
(* accepted if it is what was claimed, and completes it.  That is so for   *)
(* what is stored and read again after each, and without if the first has  *)
(* an md5sum.                                                              *)
ClaimsAdded(claims, file) ==
    LET Read(c, stored) == IF stored THEN Parse(c) ELSE c
        Step(s, claim) ==
            LET a == AddTo(s.checksums, Initialize(claim))
                fits == Fits(s.known, Knowing(claim))
            IN  [checksums |-> Read(a.checksums, s.stored), stored |-> s.stored,
                 known |-> IF fits THEN With(s.known, Knowing(claim)) ELSE s.known,
                 fine |-> s.fine /\ (a.result = "ok" <=> fits)]
        After(stored) ==
            FoldLeft(Step, [checksums |-> Initialize(claims[1]), stored |-> stored,
                            known |-> Knowing(claims[1]), fine |-> TRUE], Tail(claims))
    IN  \A stored \in IF claims[1].md5 = 0 THEN {TRUE} ELSE BOOLEAN :
            LET s == After(stored)
                t == Complete(s.checksums, Initialize(file))
            IN  /\ s.fine /\ Represents(s.checksums, s.known)
                /\ \A i, j \in DOMAIN s.checksums.ext :
                      i < j => s.checksums.ext[i].type < s.checksums.ext[j].type
                /\ ~IsComplete(s.checksums) => (t.result = "ok" <=> Fits(s.known, Knowing(file)))
                /\ t.result = "ok" => IsComplete(t.checksums)

(* The lists of a .dsc or .changes file: each file once, in the order they *)
(* are named, with the size it is named with first and of each kind the    *)
(* last hash given with that size; and printed they read the same again if *)
(* every file has an md5sum.                                               *)
ListsKept(fields) ==
    LET array == ArrayParse(fields)
        lines == FlattenSeq([i \in DOMAIN Kinds |-> fields[Kinds[i]]])
        LastOf(list, f, size) ==
            LET at == {i \in DOMAIN list : list[i].file = f /\ list[i].size = size}
            IN  {list[i].sum : i \in {j \in at : \A k \in at : k <= j}}
        printed == GenFileList(array)
        all == \A i \in DOMAIN array : array[i].checksums.md5 # Dash
        same == \A k \in Types : printed[k] # <<>> \/ \A i \in DOMAIN array : Part(array[i].checksums, k) = {}
    IN  /\ {a.file : a \in Range(array)} = {l.file : l \in Range(lines)}
        /\ \A i, j \in DOMAIN array :
              i < j => /\ array[i].file # array[j].file
                       /\ SelectInSeq(lines, LAMBDA l : l.file = array[i].file)
                            < SelectInSeq(lines, LAMBDA l : l.file = array[j].file)
        /\ \A a \in Range(array) :
              /\ a.checksums.size = lines[SelectInSeq(lines, LAMBDA l : l.file = a.file)].size
              /\ \A k \in Range(Kinds) :
                    Part(a.checksums, k) = LastOf(fields[k], a.file, a.checksums.size)
        /\ all /\ same => ArrayParse(printed) = array

=============================================================================
