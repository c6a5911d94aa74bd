----------------------------- MODULE MCUpdates -----------------------------
(***************************************************************************)
(* A small instance of Updates: a distribution with two targets that one   *)
(* index each updates, the first with a delete rule, and a second          *)
(* distribution that updates from one of the indices and pulls from the    *)
(* first.                                                                  *)
(***************************************************************************)
EXTENDS Updates

CONSTANTS main, extra, stable, sid, testing, i1, i2, a, b

Install_(from) == [from |-> from, action |-> "install"]

DeleteRule == [from |-> Delete, action |-> "install"]

MCDistributions == <<sid, testing>>

MCTargetsOf == [d \in {sid, testing} |-> IF d = sid THEN <<main, extra>> ELSE <<stable>>]

MCUpdates ==
    [t \in {main, extra, stable} |->
        CASE t = main -> <<Install_(i1), DeleteRule, Install_(i2)>>
          [] t = extra -> <<Install_(i2)>>
          [] OTHER -> <<>>]

MCPulls ==
    [t \in {main, extra, stable} |->
        IF t = stable THEN <<DeleteRule, Install_(main)>> ELSE <<>>]

MCPackages == <<a, b>>

Holding(x, y) == [p \in {a, b} |-> IF p = a THEN x ELSE y]

MCSnapshots == {Holding(1, 1), Holding(2, 0), Holding(0, 0)}

MCSelections == {{main, extra, stable}, {extra}}

=============================================================================
