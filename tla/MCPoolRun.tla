----------------------------- MODULE MCPoolRun -----------------------------
(***************************************************************************)
(* A small instance of PoolRun: two versions of one package that share a   *)
(* file, as a new upload shares its .orig.tar.gz with the one before.      *)
(***************************************************************************)
EXTENDS PoolRun, TLC

CONSTANTS s, t, a1, a2, f1, f2

MCName == [p \in Package |-> "a"]

MCFiles == [p \in Package |-> IF p = a1 THEN {f1, f2} ELSE {f2}]

TargetSymmetry == Permutations({s, t})

(***************************************************************************)
(* Nothing reads any more what stands here for a damaged target, whose     *)
(* index the properties except, and for the outhook's log once something   *)
(* was lost.                                                               *)
(***************************************************************************)
LiveIndex == [x \in Target \ damaged |-> <<published[x], x \in dirty, x \in unexported>>]

LiveHook == IF lossy THEN {} ELSE {<<mirror, hook, garbage>>}

MCView ==
    <<packages, refs, checksums, pool, LiveIndex, snapshot, LiveHook, phase, command, error,
      interrupted, flags, modified, todo, busy, faults, damaged, halfdeleted, bare, lossy>>

=============================================================================
