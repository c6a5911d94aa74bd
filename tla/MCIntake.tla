------------------------------ MODULE MCIntake ------------------------------
(***************************************************************************)
(* A small instance of Intake: a source of two versions, a1 and a2, with   *)
(* the same tar file o.  Upload u1 brings all files of the first and a     *)
(* log; u2 only the second .dsc, so the tar file must be in the pool, and  *)
(* a byhand file.  The tar file and u2 may be damaged (for a .changes file *)
(* that is a bad signature), the fields of u1 may contradict each other.   *)
(***************************************************************************)
EXTENDS Intake

CONSTANTS u1, u2, a1, a2, o, l, h, s, sid, exp, cu1, cu2, ca1, ca2, co, cl, bad, odd

MCContents == {cu1, cu2, ca1, ca2, co, cl, bad, odd}

Content(n) == CASE n = u1 -> cu1 [] n = u2 -> cu2 [] n = a1 -> ca1
                [] n = a2 -> ca2 [] n = o -> co [] OTHER -> cl

MCMayHold == [n \in Names |-> CASE n \in {o, u2} -> {Content(n), bad} [] n = u1 -> {cu1, odd} [] OTHER -> {Content(n)}]

(* Everything is there, but perhaps for one file that is damaged or not    *)
(* there yet.                                                              *)
Whole == [n \in Names |-> Content(n)]
MCBeginnings ==
    UNION {{[Whole EXCEPT ![n] = c] : c \in MCMayHold[n] \cup {None}} : n \in Names}

MCKind == [n \in Names |-> CASE n \in Uploads -> "changes" [] n \in {a1, a2} -> "dsc"
                             [] n = o -> "source" [] n = h -> "byhand" [] OTHER -> "log"]

MCLists == [u \in Uploads |->
              [n \in IF u = u1 THEN {a1, o, l} ELSE {a2, h} |-> Content(n)]]

MCInside == [m \in {a1, a2} |->
              [self |-> Content(m), name |-> s, version |-> IF m = a1 THEN 1 ELSE 2,
               needs |-> [n \in {o} |-> co]]]

MCTrackExtras == [d \in Distributions |-> IF d = sid THEN {"log"} ELSE {"changes"}]

MCIncludable == [u \in Uploads |-> IF u = u1 THEN {sid, exp} ELSE {exp}]

(* One rule leads into both distributions; one deletes what it does not   *)
(* let in; one knows nothing of logs.                                     *)
MCRules == {
    [allow |-> [u \in Uploads |-> IF u = u1 THEN <<<<sid>>, <<exp, sid>>>> ELSE <<<<exp>>>>],
     default |-> None, cleanup |-> {"on_error"}, permit |-> {"older_version"},
     options |-> {"multiple_distributions"}, logdir |-> TRUE, morguedir |-> FALSE],
    [allow |-> [u \in Uploads |-> IF u = u1 THEN <<<<exp>>>> ELSE <<>>],
     default |-> sid, cleanup |-> {"on_deny", "unused_files"}, permit |-> {},
     options |-> {}, logdir |-> TRUE, morguedir |-> TRUE],
    [allow |-> [u \in Uploads |-> <<<<exp>>>>],
     default |-> None, cleanup |-> {}, permit |-> {},
     options |-> {}, logdir |-> FALSE, morguedir |-> FALSE]}

MCPermitted == [u \in Uploads |-> IF u = u1 THEN {sid, exp} ELSE {exp}]

=============================================================================
