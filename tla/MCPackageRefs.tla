--------------------------- MODULE MCPackageRefs ---------------------------
(***************************************************************************)
(* Small instances of PackageRefs.  Package a1, a2, a3 are three versions  *)
(* of one name that share files pairwise, a2r is another build of the      *)
(* second version.                                                         *)
(***************************************************************************)
EXTENDS PackageRefs

CONSTANTS main, old, a1, a2, a2r, a3, f1, f2, f3

MCName == [p \in Package |-> "a"]

MCVersion == [p \in Package |-> CASE p = a1 -> 1 [] p = a2 -> 2
                                   [] p = a2r -> 2 [] p = a3 -> 3]

MCFiles == [p \in Package |-> CASE p = a1 -> {f1, f2} [] p = a2 -> {f1, f3}
                                 [] p = a2r -> {f1, f2} [] p = a3 -> {f2, f3}]

(* main is archived into old *)
MCArchive == [t \in Target |-> IF t = main THEN old ELSE NoTarget]

TwoInMain == [t \in Target |-> IF t = main THEN 2 ELSE 0]

=============================================================================
