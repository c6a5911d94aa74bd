----------------------------- MODULE MCRelease -----------------------------
(***************************************************************************)
(* A small instance of Release: a distribution with one target that has    *)
(* two index files (Packages and Packages.gz) and one that has one.        *)
(***************************************************************************)
EXTENDS Release

CONSTANTS main, contrib, plain, gz, other

MCTargets == <<main, contrib>>

MCFilesOf == [t \in {main, contrib} |-> IF t = main THEN <<plain, gz>> ELSE <<other>>]

(***************************************************************************)
(* Nothing reads a .new file that no entry has any more, or the copy of a  *)
(* file that is to be reported anew, which overwrites it.                  *)
(***************************************************************************)
LiveTemps == [f \in {e.file : e \in {g \in ToSet(entries) : g.temp}} |-> temps[f]]

LiveMirror == [f \in File \ unsent |-> mirror[f]]

MCView ==
    <<packages, signwith, dists, LiveTemps, cache, LiveMirror, outlog, process, faults,
      history>>

=============================================================================
