-------------------------- MODULE MCUpgradeTarget --------------------------
(***************************************************************************)
(* A small instance of UpgradeTarget: one package, as the packages of a    *)
(* list do not influence each other, with versions older than, equal to    *)
(* and newer than the one in the target.                                   *)
(***************************************************************************)
EXTENDS UpgradeTarget

CONSTANT a

MCPackages == <<a>>

=============================================================================
