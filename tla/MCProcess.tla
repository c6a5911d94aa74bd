----------------------------- MODULE MCProcess -----------------------------
(* Two commands, two targets of which an older version stored one or both. *)
EXTENDS Process

CONSTANTS c1, c2, a, b, x

MCStored == [t \in Target |-> {x}]

MCKinds == {[ro |-> FALSE, nopackages |-> FALSE, fast |-> FALSE],
            [ro |-> TRUE, nopackages |-> FALSE, fast |-> FALSE]}

MCNotifier == <<MayBeTold, {m \in MayBeTold : m.what = "add"}>>

=============================================================================
