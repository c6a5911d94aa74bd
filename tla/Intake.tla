------------------------------- MODULE Intake -------------------------------
(***************************************************************************)
(* New packages come in by processincoming and by include, one command     *)
(* after the other (database.c's lock), while uploaders change the         *)
(* directory both take them from.                                          *)
(***************************************************************************)
EXTENDS Incoming, Checkin

vars == <<archive, queue, including>>

ASSUME NonesApart ==
    None \notin Names \cup Distributions \cup {Placed(m) : m \in DOMAIN Inside}

TypeOK == ArchiveTypeOK /\ QueueTypeOK /\ CheckinTypeOK

Init == ArchiveInit /\ QueueInit /\ CheckinInit

Next ==
    \/ \E r \in Rules : ProcessIncoming(r) /\ UNCHANGED including
    \/ (IncomingStep \/ IncomingFault) /\ UNCHANGED including
    \/ /\ \E d \in Distributions, level \in DeleteLevels :
             \/ \E u \in Uploads : Include(u, d, level)
             \/ \E m \in DOMAIN Inside : IncludePackage(m, d, level)
       /\ UNCHANGED queue
    \/ (CheckinStep \/ CheckinFault) /\ UNCHANGED queue
    \/ /\ Signal \/ \E n \in Names, c \in Contents \cup {None} : Put(n, c)
       /\ UNCHANGED <<queue, including>>

Spec == Init /\ [][Next]_vars

-----------------------------------------------------------------------------

(* Whatever is replaced in the directory while it is read, whatever fails  *)
(* and whenever the process dies: each package of a distribution has all   *)
(* its files in the pool, with the contents its upload listed (the copies  *)
(* in TempDir and files_checkincludefile are compared after the copying),  *)
(* and what the tracking data holds is in the pool, too.                   *)
PublishedWhole ==
    /\ \A d \in Distributions, p \in Packages :
          packages[d][p] # None =>
              \A f \in DOMAIN packages[d][p].files : pool[f] = packages[d][p].files[f]
    /\ \A d \in Distributions : \A f \in tracked[d] : pool[f] # None

(* An upload marked processed, whose files are deleted and not even kept   *)
(* in MorgueDir, has been put into every distribution it was for, or a     *)
(* version at least as new was there (candidate_add, the marks).           *)
ProcessedAreIn ==
    \A u \in processed \cap Uploads : \A d \in Destinations(u), m \in Masters(u) :
        LET new == packages[d][Inside[m].name]
        IN  new # None /\ new.version >= Inside[m].version

(* include deletes a listed file from the directory only after the pool    *)
(* got it as it was listed, be it then or before (changes_includefiles     *)
(* before changes_deleteleftoverfiles).                                    *)
MovedIsThere ==
    [][\A f \in Names \ Uploads :
          command = "include" /\ place = "delfiles" /\ f \in rest \ rest'
          => pool[f] = Lists[changes][f]]_vars

=============================================================================
