----------------------------- MODULE MCTracking -----------------------------
(***************************************************************************)
(* Small instances of Tracking: two versions s1 and s2 of a source that    *)
(* share a file fo (an .orig.tar.gz).  p1 and p2 are the source packages,  *)
(* b1 and c1 the same architecture-all binary of s1 in two targets, b2 a   *)
(* binary of s2 that replaces b1, and n1 a binary of s1 with the version   *)
(* of s2.                                                                  *)
(***************************************************************************)
EXTENDS Tracking, TLC

CONSTANTS s1, s2, p1, p2, b1, c1, b2, n1, fo, fb, fc, fx

MCKey == [p \in Package |-> CASE p \in {p1, p2} -> "source"
                               [] p \in {b1, b2, n1} -> "binary"
                               [] OTHER -> "other"]

MCSourceOf == [p \in Package |-> IF p \in {p2, b2} THEN s2 ELSE s1]

MCCopiedAs == [p \in Package |-> IF p = n1 THEN s2 ELSE MCSourceOf[p]]

MCFiles == [p \in Package |-> CASE p \in {p1, p2} -> {fo}
                                 [] p \in {b1, c1, n1} -> {fb}
                                 [] OTHER -> {fc}]

MCFileType == [f \in FileKey |-> CASE f = fo -> "source"
                                    [] f = fx -> "changes"
                                    [] OTHER -> "package"]

MCSourcePackage == {p \in Package : Key[p] = "source"}

(* Two versions of the source; one with its .changes file; one with its    *)
(* binary in two targets, which may outlive it; and the other with a       *)
(* binary of the first that is copied under it.                            *)
MCSettings ==
    [mode : {"keep", "minimal"}, packages : {{p1, p2}}, extras : {{}}]
      \cup [mode : {"minimal"}, packages : {{p1}}, extras : {{fx}}]
      \cup [mode : {"all", "minimal"}, packages : {{p1, b1, c1}}, extras : {{}}]
      \cup [mode : {"minimal"}, packages : {{p2, n1}}, extras : {{}}]

RemovesrcSettings ==
    [mode : {"all"}, packages : {Package}, extras : {FileKey}]

(* The versions may change places: no setting is turned into another.      *)
Swapped == {q \in Permutations({s1, s2, p1, p2}) :
              \A p \in {p1, p2} : q[p] \in {p1, p2} /\ SourceOf[q[p]] = q[SourceOf[p]]}

(* Once the counts are outdated no property asks what was misfiled, until  *)
(* a retrack forgets both.                                                 *)
LiveMisfiled == IF outdated THEN {} ELSE misfiled

MCView ==
    <<setting, disk, pc, job, memory, walk, error, faults, outdated, LiveMisfiled, exposed,
      orphaned>>

=============================================================================
