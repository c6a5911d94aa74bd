------------------------------ MODULE Selection ------------------------------
(***************************************************************************)
(* What an update or a pull promises of one target: while the rules are    *)
(* read every package has a mark, the best version so far and whether it   *)
(* is to be kept; then, and only then, each package is given the version   *)
(* of its mark, or removed.                                                *)
(***************************************************************************)
EXTENDS Integers

CONSTANTS Package, MaxVersion

VARIABLES
    packages,  \* packages[p], the version in the target, 0 for none
    marks,     \* marks[p], what is to become of p
    stage      \* what the marks are for

vars == <<packages, marks, stage>>

Mark == [best : 0..MaxVersion, kept : BOOLEAN]

Unmarked == [best |-> 0, kept |-> FALSE]

Init ==
    /\ packages \in [Package -> 0..MaxVersion]
    /\ marks = [p \in Package |-> Unmarked]
    /\ stage = "idle"

(* Every package is to stay. *)
Begin ==
    /\ stage = "idle"
    /\ stage' = "choosing"
    /\ marks' = [p \in Package |-> [best |-> packages[p], kept |-> packages[p] # 0]]
    /\ UNCHANGED packages

Choose(p, mark) ==
    /\ stage = "choosing"
    /\ marks' = [marks EXCEPT ![p] = mark]
    /\ UNCHANGED <<packages, stage>>

(* A version better than a kept one, or any if none is kept *)
Accept(p, v) == (marks[p].kept => v > marks[p].best) /\ Choose(p, [best |-> v, kept |-> TRUE])

(* What was marked before it was to be removed is back. *)
Hold(p) == marks[p].best # 0 /\ Choose(p, [marks[p] EXCEPT !.kept = TRUE])

Supersede(p, v) ==
    /\ marks[p].kept => v > marks[p].best
    /\ Choose(p, [marks[p] EXCEPT !.kept = FALSE])

RemoveAll ==
    /\ stage = "choosing"
    /\ marks' = [p \in Package |-> [marks[p] EXCEPT !.kept = FALSE]]
    /\ UNCHANGED <<packages, stage>>

Decided ==
    /\ stage = "choosing"
    /\ stage' \in {"acting", "clearing"}
    /\ UNCHANGED <<packages, marks>>

CarryOut(p) ==
    /\ stage = "acting"
    /\ packages' = [packages EXCEPT ![p] = IF marks[p].kept THEN marks[p].best ELSE 0]
    /\ UNCHANGED <<marks, stage>>

(* predelete: what will not stay as it is makes room. *)
MakeRoom(p) ==
    /\ stage = "clearing"
    /\ packages[p] # marks[p].best \/ ~marks[p].kept
    /\ packages' = [packages EXCEPT ![p] = 0]
    /\ UNCHANGED <<marks, stage>>

GiveUp ==
    /\ stage' = "idle"
    /\ marks' = [p \in Package |-> Unmarked]
    /\ UNCHANGED packages

Next ==
    \/ Begin \/ RemoveAll \/ Decided \/ GiveUp
    \/ \E p \in Package :
            \/ \E v \in 1..MaxVersion : Accept(p, v) \/ Supersede(p, v)
            \/ Hold(p) \/ CarryOut(p) \/ MakeRoom(p)

Spec == Init /\ [][Next]_vars

=============================================================================
