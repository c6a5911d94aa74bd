---------------------------- MODULE IntakeProofs ----------------------------
(***************************************************************************)
(* Proofs about Intake: whatever happens to the directory and to the       *)
(* process, packages are published with all their files, what was marked   *)
(* processed is in its distributions, and include deletes nothing the pool *)
(* does not have.                                                          *)
(***************************************************************************)
EXTENDS Intake, TLAPS

-----------------------------------------------------------------------------
(* The inductive invariant                                                 *)

AllPresent(m) == \A f \in DOMAIN FilesOf(m) : Present(f, FilesOf(m)[f])

Has(d, m) == LET new == packages[d][Inside[m].name]
             IN  new # None /\ new.version >= Inside[m].version

(* One command runs, and its variables are those of no other. *)
Running ==
    /\ step # "off" <=> command = "processincoming"
    /\ changes # None <=> command \in {"include", "includepackage"}
    /\ place # "off" => command = IF place \in {"package", "parts", "delparts"}
                                  THEN "includepackage" ELSE "include"
    /\ command = "include" => changes \in Uploads
    /\ command = "includepackage" => changes \in DOMAIN Inside
    /\ changes # None => target \in Distributions
    /\ changes = None => rest = {} /\ taken = {}
    /\ step # "off" => rule \in Rules
    /\ step = "off" => processed = {}

Goals == Destinations(upload)

(* The copies in TempDir are what the candidate lists, and the walks are *)
(* over its files.                                                       *)
Candidate ==
    /\ upload # None <=> step \notin {"off", "next", "clean"}
    /\ step # "into" => at = None
    /\ upload # None =>
          /\ {upload} \subseteq DOMAIN temp /\ DOMAIN temp \subseteq {upload} \cup Listed(upload)
          /\ \A f \in DOMAIN temp :
                IF f = upload THEN temp[f] \in Contents ELSE temp[f] = Lists[upload][f]
          /\ used \subseteq {upload} \cup Listed(upload)
          /\ step # "into" => into = Goals
    /\ step = "read" => todo \subseteq Masters(upload) /\ Masters(upload) \subseteq todo \cup DOMAIN temp
    /\ step = "logs" => todo \subseteq Listed(upload) \cup {upload}
    /\ step = "loglink" => todo = {}
    /\ step = "into" =>
          /\ into \subseteq Goals /\ at \in Goals \cup {None}
          /\ at \notin into
          /\ IF at = None THEN todo = {} ELSE todo \subseteq {m \in Masters(upload) : <<at, m>> \notin skipped}

(* What was prepared fits to the pool, which is as it was then. *)
Prepared ==
    step \in {"prepare", "logs", "check", "hooks"} =>
        \A f \in ToPrepare \ (IF step = "prepare" THEN todo ELSE {}) :
            ~Mismatch(f) /\ Sources(f) \subseteq DOMAIN temp

(* What is not in the pool is still to be linked. *)
Linking ==
    step = "link" =>
        /\ \A link \in todo : link[2] \in DOMAIN temp
        /\ \A x \in Pairs \ skipped : \A f \in DOMAIN FilesOf(x[2]) :
              \/ Present(f, FilesOf(x[2])[f])
              \/ \E g \in DOMAIN temp : <<f, g>> \in todo /\ temp[g] = FilesOf(x[2])[f]
        /\ \A f \in Extras : ~Absent(f) \/ <<f, f>> \in todo

(* The distributions an upload has not been put into yet *)
Waiting == into \cup ({at} \ {None})

Linked ==
    step \in {"loglink", "into"} =>
        /\ \A d \in Waiting, m \in Masters(upload) : <<d, m>> \in skipped \/ AllPresent(m)
        /\ \A d \in Waiting, f \in {upload} \cup Listed(upload) :
              Kind[f] \in TrackExtras[d] => ~Absent(f)

(* What was skipped is there, and what was added, too. *)
Arrived ==
    /\ step \in {"hooks", "link", "loglink", "into"} =>
          \A x \in skipped : x \in Distributions \X Masters(upload) /\ Has(x[1], x[2])
    /\ step = "into" =>
          \A d \in Goals \ into, m \in Masters(upload) :
              (d = at /\ m \in todo) \/ Has(d, m)

Entered == {"packages", "changesfile", "add", "delchanges", "delfiles"}

Included ==
    /\ place = "copy" =>
          /\ rest \subseteq Entries
          /\ \A f \in Entries : IF f \in rest THEN Absent(f) ELSE Present(f, Lists[changes][f])
    /\ place \in Entered => \A f \in Entries : Present(f, Lists[changes][f])
    /\ place \in {"changesfile", "add"} => \A m \in Entries : Master(m) => Complete(m)
    /\ place = "add" => (IncludesChanges => ~Absent(changes)) /\ rest \subseteq Entries
    /\ place \in {"read", "copy", "packages", "changesfile", "add"} => taken \subseteq Entries
    /\ place = "delfiles" => rest \subseteq Entries
    /\ place = "parts" =>
          /\ Present(changes, Inside[changes].self)
          /\ rest \subseteq DOMAIN Inside[changes].needs
          /\ \A f \in DOMAIN Inside[changes].needs \ rest : Present(f, Inside[changes].needs[f])

IInv ==
    /\ ArchiveTypeOK /\ QueueTypeOK /\ CheckinTypeOK
    /\ Running /\ Candidate /\ Prepared /\ Linking /\ Linked /\ Arrived /\ Included
    /\ PublishedWhole /\ ProcessedAreIn

-----------------------------------------------------------------------------
(* Facts about the constants                                               *)

USE ArchiveAssumption, IncomingAssumption, CheckinAssumption, NonesApart

(* A listed file is no .changes file, and the packages of an upload are    *)
(* what it lists for them.                                                 *)
LEMMA UploadFacts ==
    ASSUME NEW u \in Uploads
    PROVE  /\ u \in Names /\ u # None /\ u \notin Listed(u) /\ Kind[u] = "changes"
           /\ Listed(u) \subseteq Names /\ Listed(u) \cap Uploads = {}
           /\ \A f \in Listed(u) : Lists[u][f] \in Contents
           /\ Masters(u) \subseteq Listed(u) /\ Masters(u) \subseteq DOMAIN Inside
           /\ \A m \in Masters(u) : Lists[u][m] = Inside[m].self
BY DEF Listed, Masters, Master, IsManifest

(* A package is a file with the files it names. *)
LEMMA PackageFacts ==
    ASSUME NEW m \in DOMAIN Inside
    PROVE  /\ m \in Names /\ m # None /\ Master(m)
           /\ Inside[m].name \in Packages /\ Inside[m].version \in Nat \ {0}
           /\ Inside[m].self \in Contents
           /\ DOMAIN Inside[m].needs \subseteq Names
           /\ \A f \in DOMAIN Inside[m].needs : Inside[m].needs[f] \in Contents
           /\ DOMAIN FilesOf(m) = {m} \cup DOMAIN Inside[m].needs
           /\ FilesOf(m)[m] = Inside[m].self
           /\ \A f \in DOMAIN Inside[m].needs : f # m => FilesOf(m)[f] = Inside[m].needs[f]
           /\ DOMAIN FilesOf(m) \subseteq Names
           /\ \A f \in DOMAIN FilesOf(m) : FilesOf(m)[f] \in Contents
           /\ Placed(m).version = Inside[m].version /\ Placed(m).files = FilesOf(m)
<1>1. /\ m \in Names /\ m # None /\ Master(m)
      /\ Inside[m].name \in Packages /\ Inside[m].version \in Nat \ {0}
      /\ Inside[m].self \in Contents
      /\ DOMAIN Inside[m].needs \subseteq Names
      /\ \A f \in DOMAIN Inside[m].needs : Inside[m].needs[f] \in Contents
    BY DEF IsManifest, Master
<1>2. /\ DOMAIN FilesOf(m) = {m} \cup DOMAIN Inside[m].needs
      /\ FilesOf(m)[m] = Inside[m].self
      /\ \A f \in DOMAIN Inside[m].needs : f # m => FilesOf(m)[f] = Inside[m].needs[f]
    BY DEF FilesOf
<1>3. Placed(m).version = Inside[m].version /\ Placed(m).files = FilesOf(m)
    BY DEF Placed
<1> QED
    BY <1>1, <1>2, <1>3

LEMMA DestinationFacts ==
    ASSUME NEW u \in Uploads
    PROVE  Destinations(u) \subseteq Distributions
<1>1. Permitted[u] \subseteq Distributions
    BY DEF FirstAllowed
<1>2. \A pairs : FirstAllowed(u, pairs) \subseteq Permitted[u]
    BY DEF FirstAllowed
<1>3. Destinations(u) \subseteq Permitted[u]
  <2> DEFINE names == {k \in DOMAIN rule.allow[u] : FirstAllowed(u, rule.allow[u][k]) # {}}
             looked == IF "multiple_distributions" \in rule.options THEN names
                       ELSE {k \in names : \A h \in names : k <= h}
  <2>1. Destinations(u) = IF names # {} THEN UNION {FirstAllowed(u, rule.allow[u][k]) : k \in looked}
                          ELSE {rule.default} \cap Permitted[u]
    BY DEF Destinations
  <2> HIDE DEF names, looked
  <2> QED
    BY <1>2, <2>1
<1> QED
    BY <1>1, <1>3

-----------------------------------------------------------------------------
(* What changes the archive                                                *)

LEMMA FaultTyped == ASSUME ArchiveTypeOK, Fault PROVE faults' \in 0..MaxFaults
BY DEF ArchiveTypeOK, Fault

(* The packages of the distributions are made of package files. *)
LEMMA HeldFacts ==
    ASSUME ArchiveTypeOK, NEW d \in Distributions, NEW p \in Packages, packages[d][p] # None
    PROVE  /\ packages[d][p].version \in Nat
           /\ DOMAIN packages[d][p].files \subseteq Names
           /\ \A f \in DOMAIN packages[d][p].files : packages[d][p].files[f] \in Contents
<1>1. PICK m \in DOMAIN Inside : packages[d][p] = Placed(m)
    BY DEF ArchiveTypeOK
<1>2. /\ Inside[m].version \in Nat /\ Placed(m).version = Inside[m].version
      /\ Placed(m).files = FilesOf(m) /\ DOMAIN FilesOf(m) \subseteq Names
      /\ \A f \in DOMAIN FilesOf(m) : FilesOf(m)[f] \in Contents
    BY PackageFacts
<1> QED
    BY <1>1, <1>2, Zenon

LEMMA PoolGrows ==
    ASSUME ArchiveTypeOK, PublishedWhole, NEW f \in Names, NEW c \in Contents,
           Absent(f), AddFile(f, c), UNCHANGED <<packages, tracked>>
    PROVE  /\ pool' \in [Names -> Contents \cup {None}] /\ fresh' \cup dropped' \subseteq Names
           /\ pool'[f] = c /\ \A g : g # f => pool'[g] = pool[g]
           /\ PublishedWhole'
<1>1. /\ pool' \in [Names -> Contents \cup {None}] /\ fresh' \cup dropped' \subseteq Names
      /\ pool'[f] = c /\ \A g : g # f => pool'[g] = pool[g]
    BY DEF ArchiveTypeOK, AddFile
<1>2. ASSUME NEW d \in Distributions, NEW p \in Packages, packages[d][p] # None,
             NEW g \in DOMAIN packages[d][p].files
      PROVE  pool'[g] = packages[d][p].files[g]
    <2>1. pool[g] = packages[d][p].files[g] /\ packages[d][p].files[g] # None
      BY <1>2, HeldFacts DEF PublishedWhole
    <2> QED
      BY <1>1, <2>1 DEF Absent
<1>3. ASSUME NEW d \in Distributions, NEW g \in tracked[d]
      PROVE  pool'[g] # None
    BY <1>1, <1>3 DEF PublishedWhole
<1> QED
    BY <1>1, <1>2, <1>3 DEF PublishedWhole

LEMMA PackageComesIn ==
    ASSUME ArchiveTypeOK, PublishedWhole, NEW d \in Distributions, NEW m \in DOMAIN Inside,
           AllPresent(m), AddPackage(d, m), UNCHANGED <<pool, tracked>>
    PROVE  /\ packages' \in [Distributions -> [Packages -> {None} \cup {Placed(n) : n \in DOMAIN Inside}]]
           /\ dropped' \subseteq Names
           /\ PublishedWhole'
           /\ Has(d, m)'
           /\ \A e \in Distributions, n \in DOMAIN Inside : Has(e, n) => Has(e, n)'
<1> DEFINE q == Inside[m].name
           old == packages[d][q]
<1>1. /\ q \in Packages /\ Inside[m].version \in Nat
      /\ Placed(m).version = Inside[m].version /\ Placed(m).files = FilesOf(m)
    BY PackageFacts
<1>2. Placed(m) # None
    OBVIOUS
<1>3. CASE Older(d, m) \/ Equal(d, m)
    <2>1. packages' = packages /\ dropped' = dropped
      BY <1>3 DEF AddPackage
    <2>2. old # None /\ old.version >= Inside[m].version
      <3>1. old # None /\ (Inside[m].version < old.version \/ Inside[m].version = old.version)
        BY <1>3 DEF Older, Equal
      <3>2. old.version \in Nat
        BY <1>1, <3>1, HeldFacts
      <3> HIDE DEF old
      <3> QED
        BY <1>1, <3>1, <3>2
    <2>3. PublishedWhole'
      BY <2>1 DEF PublishedWhole
    <2>4. Has(d, m)' /\ \A e \in Distributions, n \in DOMAIN Inside : Has(e, n) => Has(e, n)'
      BY <2>1, <2>2 DEF Has
    <2> QED
      BY <2>1, <2>3, <2>4 DEF ArchiveTypeOK
<1>4. CASE ~Older(d, m) /\ ~Equal(d, m)
    <2>1. /\ packages' = [packages EXCEPT ![d][q] = Placed(m)]
          /\ dropped' = IF old = None THEN dropped ELSE dropped \cup DOMAIN old.files
      BY <1>4 DEF AddPackage
    <2>2. /\ packages' \in [Distributions -> [Packages -> {None} \cup {Placed(n) : n \in DOMAIN Inside}]]
          /\ packages'[d][q] = Placed(m)
          /\ \A e \in Distributions, p \in Packages :
                e # d \/ p # q => packages'[e][p] = packages[e][p]
      BY <1>1, <2>1 DEF ArchiveTypeOK
    <2>3. dropped' \subseteq Names
      <3>1. old # None => DOMAIN old.files \subseteq Names
        BY <1>1, HeldFacts
      <3> QED
        BY <2>1, <3>1 DEF ArchiveTypeOK
    <2>4. ASSUME NEW e \in Distributions, NEW p \in Packages, packages'[e][p] # None,
                 NEW f \in DOMAIN packages'[e][p].files
          PROVE  pool'[f] = packages'[e][p].files[f]
      <3>1. CASE e = d /\ p = q
        BY <1>1, <2>2, <3>1, <2>4 DEF AllPresent, Present
      <3>2. CASE ~(e = d /\ p = q)
        BY <2>2, <2>4, <3>2 DEF PublishedWhole
      <3> QED
        BY <3>1, <3>2
    <2>5. PublishedWhole'
      BY <2>4 DEF PublishedWhole
    <2>6. Has(d, m)'
      BY <1>1, <1>2, <2>2 DEF Has
    <2>7. ASSUME NEW e \in Distributions, NEW n \in DOMAIN Inside, Has(e, n)
          PROVE  Has(e, n)'
      <3>1. CASE e = d /\ Inside[n].name = q
        <4>1. old # None /\ old.version >= Inside[n].version
          BY <2>7, <3>1 DEF Has
        <4>2. old.version \in Nat /\ Inside[n].version \in Nat
          BY <1>1, <4>1, HeldFacts, PackageFacts
        <4>3. ~(Inside[m].version < old.version) /\ ~(Inside[m].version = old.version)
          BY <1>4, <4>1 DEF Older, Equal
        <4>4. Inside[m].version >= Inside[n].version
          <5> HIDE DEF old
          <5> QED BY <1>1, <4>1, <4>2, <4>3
        <4> QED
          BY <1>1, <1>2, <2>2, <3>1, <4>4 DEF Has
      <3>2. CASE ~(e = d /\ Inside[n].name = q)
        <4>1. Inside[n].name \in Packages
          OBVIOUS
        <4> QED
          BY <2>2, <2>7, <3>2, <4>1 DEF Has
      <3> QED
        BY <3>1, <3>2
    <2> QED
      BY <2>2, <2>3, <2>5, <2>6, <2>7
<1> QED
    BY <1>3, <1>4

(* The end of a command takes only unused files from the pool. *)
LEMMA CommandEnds ==
    ASSUME ArchiveTypeOK, PublishedWhole, EndCommand
    PROVE  ArchiveTypeOK' /\ PublishedWhole' /\ command' = "none"
<1>1. ArchiveTypeOK'
    BY DEF EndCommand, ArchiveTypeOK
<1>2. \A f \in Used : f \in Names => pool'[f] = pool[f]
    BY DEF EndCommand, ArchiveTypeOK
<1>3. ASSUME NEW d \in Distributions, NEW p \in Packages, packages[d][p] # None,
             NEW f \in DOMAIN packages[d][p].files
      PROVE  pool'[f] = packages[d][p].files[f]
    <2>1. f \in Names /\ f \in Used
      BY <1>3, HeldFacts DEF Used
    <2> QED
      BY <1>2, <1>3, <2>1 DEF PublishedWhole
<1>4. ASSUME NEW d \in Distributions, NEW f \in tracked[d]
      PROVE  pool'[f] # None
    <2>1. f \in Names /\ f \in Used
      BY <1>4 DEF ArchiveTypeOK, Used
    <2> QED
      BY <1>2, <1>4, <2>1 DEF PublishedWhole
<1>5. packages' = packages /\ tracked' = tracked /\ command' = "none"
    BY DEF EndCommand
<1> QED
    BY <1>1, <1>3, <1>4, <1>5 DEF PublishedWhole

(* A killed process leaves the archive as it was. *)
LEMMA ProcessDies ==
    ASSUME ArchiveTypeOK, PublishedWhole, Die
    PROVE  ArchiveTypeOK' /\ PublishedWhole' /\ command' = "none"
<1>1. faults' \in 0..MaxFaults
    BY FaultTyped DEF Die
<1>2. UNCHANGED <<incoming, pool, packages, tracked>>
    BY DEF Die
<1>3. PublishedWhole'
    BY <1>2 DEF PublishedWhole
<1>4. ArchiveTypeOK'
    BY <1>1, <1>2 DEF Die, ArchiveTypeOK
<1> QED
    BY <1>3, <1>4 DEF Die

(* What leaves packages, tracking and pool alone leaves them whole. *)
LEMMA StoreStays ==
    ASSUME PublishedWhole, UNCHANGED store
    PROVE  /\ PublishedWhole' /\ UNCHANGED <<pool, fresh, dropped, packages, tracked>>
           /\ \A d, m : Has(d, m)' = Has(d, m)
BY DEF PublishedWhole, store, Has

-----------------------------------------------------------------------------
(* What a step of one command leaves alone                                 *)

LEMMA ArchiveStays ==
    ASSUME ArchiveTypeOK, PublishedWhole, UNCHANGED store, command' = command,
           incoming' \in [Names -> Contents \cup {None}], morgue' \subseteq Names \X Contents,
           logdir' \subseteq Names, failed' \in BOOLEAN, signalled' \in BOOLEAN,
           faults' \in 0..MaxFaults
    PROVE  ArchiveTypeOK' /\ PublishedWhole'
<1>1. PublishedWhole' /\ UNCHANGED <<pool, fresh, dropped, packages, tracked>>
    BY StoreStays
<1>2. ArchiveTypeOK'
    BY <1>1 DEF ArchiveTypeOK
<1> QED
    BY <1>1, <1>2

(* include does not run. *)
LEMMA IncludeIdles ==
    ASSUME CheckinTypeOK, Running, step # "off", UNCHANGED including
    PROVE  CheckinTypeOK' /\ Included' /\ changes' = None /\ place' = "off"
<1>1. changes = None /\ place = "off"
    BY DEF Running
<1> QED
    BY <1>1 DEF CheckinTypeOK, Included, including, Entered

(* processincoming does not run. *)
LEMMA QueueIdles ==
    ASSUME QueueTypeOK, Running, step = "off", Candidate, UNCHANGED queue
    PROVE  /\ QueueTypeOK' /\ Candidate' /\ Prepared' /\ Linking' /\ Linked' /\ Arrived'
           /\ ProcessedAreIn'
<1>1. step' = "off" /\ upload' = None /\ at' = None /\ processed' = {}
    BY DEF Candidate, Running, queue, candidate
<1>2. QueueTypeOK'
    BY DEF QueueTypeOK, queue, candidate
<1>3. Candidate'
    BY <1>1 DEF Candidate
<1>4. Prepared' /\ Linking' /\ Linked' /\ Arrived'
    BY <1>1 DEF Prepared, Linking, Linked, Arrived
<1>5. ProcessedAreIn'
    BY <1>1 DEF ProcessedAreIn
<1> QED
    BY <1>2, <1>3, <1>4, <1>5

(* No upload is at work. *)
LEMMA NoCandidate ==
    ASSUME upload' = None, at' = None, step' \in {"off", "next", "clean"}
    PROVE  Candidate' /\ Prepared' /\ Linking' /\ Linked' /\ Arrived'
<1>1. Candidate'
    BY DEF Candidate
<1>2. Prepared' /\ Linking' /\ Linked' /\ Arrived'
    BY DEF Prepared, Linking, Linked, Arrived
<1> QED
    BY <1>1, <1>2

(* processincoming goes on. *)
LEMMA Processing ==
    ASSUME CheckinTypeOK, Running, step # "off", step' # "off", UNCHANGED <<rule, command>>,
           UNCHANGED including
    PROVE  Running' /\ CheckinTypeOK' /\ Included' /\ rule \in Rules
<1>1. CheckinTypeOK' /\ Included' /\ changes' = None /\ place' = "off"
    BY IncludeIdles
<1>2. changes = None /\ rest' = rest /\ taken' = taken
    BY DEF Running, including
<1>3. Running'
    BY <1>1, <1>2 DEF Running
<1> QED
    BY <1>1, <1>3 DEF Running

LEMMA SameGoals ==
    ASSUME UNCHANGED <<rule, upload>>
    PROVE  Goals' = Goals
BY DEF Goals, Destinations

LEMMA GoalFacts ==
    ASSUME upload # None, QueueTypeOK
    PROVE  upload \in Uploads /\ Goals \subseteq Distributions
BY DestinationFacts DEF QueueTypeOK, Goals

LEMMA ProcessedKept ==
    ASSUME ProcessedAreIn, UNCHANGED <<processed, rule>>,
           \A e \in Distributions, n \in DOMAIN Inside : Has(e, n) => Has(e, n)'
    PROVE  ProcessedAreIn'
<1>1. ASSUME NEW u \in processed \cap Uploads, NEW d \in Destinations(u), NEW m \in Masters(u)
      PROVE  Has(d, m)'
    <2>1. Has(d, m)
        BY DEF ProcessedAreIn, Has
    <2>2. d \in Distributions /\ m \in DOMAIN Inside
        BY DestinationFacts, UploadFacts
    <2> QED
        BY <2>1, <2>2
<1>2. \A u : Destinations(u)' = Destinations(u)
    BY DEF Destinations
<1> QED
    BY <1>1, <1>2 DEF ProcessedAreIn, Has

(* While no package and no mark changes *)
LEMMA MarksKept ==
    ASSUME ProcessedAreIn, UNCHANGED <<processed, rule, packages>>
    PROVE  ProcessedAreIn'
BY ProcessedKept DEF Has

-----------------------------------------------------------------------------
(* Looking at uploads                                                      *)

(* A step of processincoming by which nothing of the archive changes *)
QueueInv ==
    /\ QueueTypeOK /\ Candidate /\ Prepared /\ Linking /\ Linked /\ Arrived

LEMMA OnlyQueue ==
    ASSUME IInv, step # "off", step' # "off", UNCHANGED <<rule, processed, archive>>,
           UNCHANGED including, QueueInv'
    PROVE  IInv'
<1>1. UNCHANGED <<store, incoming, morgue, logdir, command, failed, signalled, faults>>
    BY DEF archive
<1>2. ArchiveTypeOK' /\ PublishedWhole'
    BY <1>1, ArchiveStays DEF IInv, ArchiveTypeOK
<1>3. Running' /\ CheckinTypeOK' /\ Included'
    BY <1>1, Processing DEF IInv
<1>4. ProcessedAreIn'
    BY <1>1, MarksKept DEF IInv, store
<1> QED
    BY <1>2, <1>3, <1>4 DEF IInv, QueueInv

LEMMA PassedOver ==
    ASSUME IInv, NEW u \in Uploads, Incomplete(u) \/ Refused(u), UNCHANGED including
    PROVE  IInv'
<1>1. /\ step = "next" /\ step' = step /\ failed' = TRUE
      /\ UNCHANGED <<rule, listing, processed, candidate, incoming, morgue, logdir, store,
                     command, signalled, faults>>
      /\ left' = left \ {u}
    BY DEF Incomplete, Refused
<1>2. deleting' \subseteq Names
    BY UploadFacts DEF Incomplete, Refused, CleanedOnDeny, CleanedOnError, IInv, QueueTypeOK
<1>3. ArchiveTypeOK' /\ PublishedWhole'
    BY <1>1, ArchiveStays DEF IInv, ArchiveTypeOK
<1>4. Running' /\ CheckinTypeOK' /\ Included'
    BY <1>1, Processing DEF IInv
<1>5. upload' = None /\ at' = None
    BY <1>1 DEF IInv, Candidate, candidate
<1>6. Candidate' /\ Prepared' /\ Linking' /\ Linked' /\ Arrived'
    BY <1>1, <1>5, NoCandidate
<1>7. QueueTypeOK'
    BY <1>1, <1>2 DEF IInv, QueueTypeOK, candidate
<1>8. ProcessedAreIn'
    BY <1>1, MarksKept DEF IInv, store
<1> QED
    BY <1>3, <1>4, <1>6, <1>7, <1>8 DEF IInv

LEMMA AcceptedStep ==
    ASSUME IInv, NEW u \in Uploads, Accepted(u), UNCHANGED including
    PROVE  IInv'
<1>1. /\ step = "next" /\ step' = "read" /\ upload' = u /\ into' = Destinations(u)
      /\ temp' = [n \in {u} |-> incoming[u]] /\ used' = {u} /\ todo' = Masters(u)
      /\ left' = left \ {u} /\ incoming[u] # None
      /\ UNCHANGED <<rule, listing, processed, deleting, at, logfiles, skipped, archive>>
    BY DEF Accepted
<1>2. /\ u \in Names /\ u # None /\ Masters(u) \subseteq Names
      /\ Destinations(u) \subseteq Distributions
    BY UploadFacts, DestinationFacts
<1>3. QueueTypeOK'
    BY <1>1, <1>2 DEF IInv, QueueTypeOK, Step
<1>4. Candidate'
    <2>1. at' = None
        BY <1>1 DEF IInv, Candidate
    <2>2. Goals' = Destinations(u)
        BY <1>1 DEF Goals, Destinations
    <2>3. incoming[u] \in Contents
        BY <1>1, <1>2 DEF IInv, ArchiveTypeOK
    <2> QED
        BY <1>1, <1>2, <2>1, <2>2, <2>3 DEF Candidate
<1>5. Prepared' /\ Linking' /\ Linked' /\ Arrived'
    BY <1>1 DEF Prepared, Linking, Linked, Arrived
<1> QED
    BY <1>1, <1>3, <1>4, <1>5, OnlyQueue DEF QueueInv

LEMMA GivesUp ==
    ASSUME IInv, step \notin {"off", "next", "clean"}, GiveUp, UNCHANGED store,
           faults' \in 0..MaxFaults, UNCHANGED including
    PROVE  IInv'
<1>1. /\ step' = "next" /\ upload' = None /\ temp' = NoFunction /\ used' = {}
      /\ into' = {} /\ at' = None /\ todo' = {} /\ logfiles' = {} /\ skipped' = {} /\ failed' = TRUE
      /\ UNCHANGED <<rule, listing, left, processed, incoming, morgue, logdir, command,
                     signalled>>
      /\ deleting' = deleting \cup CleanedOnError(upload)
    BY DEF GiveUp, Forget
<1>2. upload \in Uploads
    BY GoalFacts DEF IInv, Candidate
<1>3. deleting' \subseteq Names
    BY <1>1, <1>2, UploadFacts DEF CleanedOnError, IInv, QueueTypeOK
<1>4. ArchiveTypeOK' /\ PublishedWhole'
    BY <1>1, ArchiveStays DEF IInv, ArchiveTypeOK
<1>5. Running' /\ CheckinTypeOK' /\ Included'
    BY <1>1, Processing DEF IInv
<1>6. Candidate' /\ Prepared' /\ Linking' /\ Linked' /\ Arrived'
    BY <1>1, NoCandidate
<1>7. QueueTypeOK'
    BY <1>1, <1>3 DEF IInv, QueueTypeOK, Step, NoFunction
<1>8. ProcessedAreIn'
    BY <1>1, MarksKept DEF IInv, store
<1> QED
    BY <1>4, <1>5, <1>6, <1>7, <1>8 DEF IInv

LEMMA FailureSteps ==
    ASSUME IInv, CannotUse \/ HasUnusedFiles \/ CheckFails \/ Interrupted \/ AddFails,
           UNCHANGED including
    PROVE  IInv'
<1>1. faults' \in 0..MaxFaults
    BY FaultTyped DEF IInv, ArchiveTypeOK, CannotUse, HasUnusedFiles, CheckFails, Interrupted,
                      AddFails
<1>2. step \notin {"off", "next", "clean"} /\ GiveUp /\ UNCHANGED store
    BY DEF CannotUse, HasUnusedFiles, CheckFails, Interrupted, AddFails
<1> QED
    BY <1>1, <1>2, GivesUp

-----------------------------------------------------------------------------
(* Reading and preparing an upload                                         *)

(* The copies made are what the upload lists. *)
TempFits ==
    /\ {upload} \subseteq DOMAIN temp /\ DOMAIN temp \subseteq {upload} \cup Listed(upload)
    /\ \A f \in DOMAIN temp :
          IF f = upload THEN temp[f] \in Contents ELSE temp[f] = Lists[upload][f]

LEMMA CopiesFit ==
    ASSUME TempFits, upload \in Uploads, NEW S \in SUBSET (Listed(upload) \cup {upload}),
           \A g \in S : Usable(g), temp' = Copied(S), upload' = upload
    PROVE  /\ TempFits'
           /\ DOMAIN temp' = DOMAIN temp \cup S
           /\ \A f \in DOMAIN temp : temp'[f] = temp[f]
<1>1. /\ DOMAIN temp' = DOMAIN temp \cup S
      /\ \A f \in DOMAIN temp : temp'[f] = temp[f]
      /\ \A f \in S \ DOMAIN temp : temp'[f] = incoming[f]
    BY DEF Copied
<1>2. \A f \in S \ DOMAIN temp : temp'[f] = Lists[upload][f] /\ f # upload
    BY <1>1 DEF Usable, TempFits
<1> QED
    BY <1>1, <1>2 DEF TempFits

(* What is to be prepared, and whether it fits, depends on the pool and on *)
(* the upload alone.                                                       *)
LEMMA SamePreparation ==
    ASSUME UNCHANGED <<upload, into, pool>>, temp'[upload] = temp[upload]
    PROVE  /\ ToPrepare' = ToPrepare /\ Extras' = Extras
           /\ \A f : Mismatch(f)' = Mismatch(f) /\ Sources(f)' = Sources(f)
<1>1. Extras' = Extras
    BY DEF Extras
<1>2. ToPrepare' = ToPrepare
    BY <1>1 DEF ToPrepare, Needed, HookFiles
<1>3. \A f : Wanted(f)' = Wanted(f)
    BY DEF Wanted
<1>4. \A f, c : Twins(f, c)' = Twins(f, c)
    BY DEF Twins
<1>5. \A f, c : Twin(f, c)' = Twin(f, c)
    BY <1>4 DEF Twin
<1>6. \A f : SumsOf(f)' = SumsOf(f)
    BY DEF SumsOf
<1>7. \A f : Mismatch(f)' = Mismatch(f)
    BY <1>1, <1>3, <1>4, <1>6 DEF Mismatch, Absent, Present
<1>8. \A f : Sources(f)' = Sources(f)
    BY <1>1, <1>3, <1>5 DEF Sources, HookFiles, Absent
<1> QED
    BY <1>1, <1>2, <1>7, <1>8

(* The files of the candidate are those it lists, and itself. *)
LEMMA PreparedFiles ==
    ASSUME upload \in Uploads
    PROVE  /\ ToPrepare \subseteq Names
           /\ \A f : Sources(f) \subseteq Listed(upload) \cup {upload} \/ Mismatch(f)
<1>1. ToPrepare \subseteq Names
    <2>1. Masters(upload) \subseteq Listed(upload) /\ Masters(upload) \subseteq DOMAIN Inside
        BY UploadFacts
    <2>2. \A m \in Masters(upload) : DOMAIN Inside[m].needs \subseteq Names
        BY <2>1, PackageFacts
    <2>3. Listed(upload) \cup {upload} \subseteq Names
        BY UploadFacts
    <2>4. Needed \subseteq Names
        BY <2>2 DEF Needed
    <2>5. Extras \subseteq Names /\ HookFiles \subseteq Names
        BY <2>3 DEF Extras, HookFiles
    <2> QED
        BY <2>1, <2>3, <2>4, <2>5 DEF ToPrepare
<1>2. ASSUME NEW f, ~Mismatch(f), NEW c \in Wanted(f), Absent(f)
      PROVE  Twin(f, c) \in Listed(upload)
    <2>1. Twins(f, c) # {}
        BY <1>2 DEF Mismatch
    <2>2. Twin(f, c) \in Twins(f, c)
        BY <2>1 DEF Twin
    <2> QED
        BY <2>2 DEF Twins
<1>3. ASSUME NEW f, ~Mismatch(f), NEW g \in Sources(f)
      PROVE  g \in Listed(upload) \cup {upload}
    BY <1>2, <1>3 DEF Sources, Masters, Extras, HookFiles
<1> QED
    BY <1>1, <1>3

(* A step that copies files of the upload, or copies none, and goes on *)
LEMMA ReadingStep ==
    ASSUME IInv, step \in {"read", "prepare", "logs"}, step' \in {"read", "prepare", "logs"},
           NEW S \in SUBSET (Listed(upload) \cup {upload}), \A g \in S : Usable(g),
           temp' = Copied(S) \/ (temp' = temp /\ S = {}), used' \subseteq {upload} \cup Listed(upload),
           UnchangedReading \/ StartLogs, UNCHANGED including, todo' \subseteq Names,
           step' = "read" => todo' \subseteq Masters(upload)
                             /\ Masters(upload) \subseteq todo' \cup DOMAIN temp',
           step' = "logs" => todo' \subseteq Listed(upload) \cup {upload},
           Prepared'
    PROVE  IInv'
<1>1. upload \in Uploads /\ upload # None
    <2>1. upload # None
        BY DEF IInv, Candidate
    <2> QED
        BY <2>1, GoalFacts DEF IInv
<1>2. /\ UNCHANGED <<rule, listing, left, processed, deleting, upload, into, at, skipped, archive>>
      /\ logfiles' \subseteq Names
    BY DEF UnchangedReading, StartLogs, IInv, QueueTypeOK
<1>3. TempFits
    BY <1>1 DEF TempFits, IInv, Candidate
<1>4. TempFits' /\ DOMAIN temp' = DOMAIN temp \cup S
    <2>1. CASE temp' = Copied(S)
        BY <1>1, <1>2, <1>3, <2>1, CopiesFit
    <2>2. CASE temp' = temp /\ S = {}
        BY <1>2, <1>3, <2>2 DEF TempFits
    <2> QED
        BY <2>1, <2>2
<1>5. QueueTypeOK'
    <2>1. DOMAIN temp' \subseteq Names /\ used' \subseteq Names
        BY <1>1, <1>4, UploadFacts DEF IInv, QueueTypeOK
    <2> QED
        BY <1>2, <2>1 DEF IInv, QueueTypeOK, Step
<1>6. Candidate'
    <2>1. Goals' = Goals
        BY <1>2, SameGoals
    <2>2. into = Goals /\ at = None
        BY <1>1 DEF IInv, Candidate
    <2> QED
        BY <1>1, <1>2, <1>4, <2>1, <2>2 DEF Candidate, TempFits
<1>7. Linking' /\ Linked' /\ Arrived'
    BY DEF Linking, Linked, Arrived
<1> QED
    BY <1>2, <1>5, <1>6, <1>7, OnlyQueue DEF QueueInv

LEMMA ReadPackageStep ==
    ASSUME IInv, NEW f \in Names, ReadPackage(f), UNCHANGED including
    PROVE  IInv'
<1>1. /\ step = "read" /\ step' = "read" /\ f \in todo /\ todo' = todo \ {f}
      /\ temp' = Copied({f}) /\ used' = used \cup {f} /\ Usable(f) /\ UnchangedReading
    BY DEF ReadPackage
<1>2. /\ upload \in Uploads /\ used \subseteq {upload} \cup Listed(upload)
      /\ todo \subseteq Masters(upload) /\ Masters(upload) \subseteq todo \cup DOMAIN temp
    BY <1>1, GoalFacts DEF IInv, Candidate
<1>3. {f} \in SUBSET (Listed(upload) \cup {upload})
    BY <1>1, <1>2, UploadFacts
<1>4. DOMAIN temp' = DOMAIN temp \cup {f}
    BY <1>1 DEF Copied
<1>5. todo' \subseteq Names
    BY <1>1, <1>2, UploadFacts
<1>6. Prepared'
    BY <1>1 DEF Prepared
<1>7. used' \subseteq {upload} \cup Listed(upload)
    BY <1>1, <1>2, <1>3
<1>8. todo' \subseteq Masters(upload) /\ Masters(upload) \subseteq todo' \cup DOMAIN temp'
    BY <1>1, <1>2, <1>4
<1>9. \A g \in {f} : Usable(g)
    BY <1>1
<1> QED
    BY <1>1, <1>3, <1>5, <1>6, <1>7, <1>8, <1>9, ReadingStep

LEMMA StartPrepareStep ==
    ASSUME IInv, StartPrepare, UNCHANGED including
    PROVE  IInv'
<1>1. /\ step = "read" /\ step' = "prepare" /\ todo' = ToPrepare /\ temp' = temp /\ used' = used
      /\ UnchangedReading
    BY DEF StartPrepare
<1>2. upload \in Uploads /\ used \subseteq {upload} \cup Listed(upload)
    BY <1>1, GoalFacts DEF IInv, Candidate
<1>3. todo' \subseteq Names
    BY <1>1, <1>2, PreparedFiles
<1>4. Prepared'
    <2>1. UNCHANGED <<upload, into, pool>>
        BY <1>1 DEF UnchangedReading, archive, store
    <2>2. ToPrepare' = todo'
        BY <1>1, <2>1, SamePreparation
    <2> QED
        BY <1>1, <2>2 DEF Prepared
<1> QED
    BY <1>1, <1>2, <1>3, <1>4, ReadingStep

LEMMA PrepareFileStep ==
    ASSUME IInv, NEW f \in Names, PrepareFile(f), UNCHANGED including
    PROVE  IInv'
<1>1. /\ step = "prepare" /\ step' = "prepare" /\ f \in todo /\ todo' = todo \ {f}
      /\ ~Mismatch(f) /\ \A g \in Sources(f) : Usable(g)
      /\ temp' = Copied(Sources(f)) /\ UnchangedReading
      /\ used' = used \cup Sources(f) \cup ({f} \cap Needed \cap Listed(upload))
    BY DEF PrepareFile
<1>2. upload \in Uploads /\ used \subseteq {upload} \cup Listed(upload) /\ TempFits
    BY <1>1, GoalFacts DEF IInv, Candidate, TempFits
<1>3. Sources(f) \in SUBSET (Listed(upload) \cup {upload})
    BY <1>1, <1>2, PreparedFiles
<1>4. used' \subseteq {upload} \cup Listed(upload)
    BY <1>1, <1>2, <1>3
<1>5. todo' \subseteq Names
    BY <1>1 DEF IInv, QueueTypeOK
<1>6. Prepared'
    <2>1. UNCHANGED <<upload, into, pool>>
        BY <1>1 DEF UnchangedReading, archive, store
    <2>2. /\ DOMAIN temp' = DOMAIN temp \cup Sources(f)
          /\ temp'[upload] = temp[upload]
        BY <1>1, <1>2, <1>3, <2>1, CopiesFit DEF TempFits
    <2>3. /\ ToPrepare' = ToPrepare
          /\ \A g : Mismatch(g)' = Mismatch(g) /\ Sources(g)' = Sources(g)
        BY <2>1, <2>2, SamePreparation
    <2>4. ASSUME NEW g \in ToPrepare \ todo'
          PROVE  ~Mismatch(g) /\ Sources(g) \subseteq DOMAIN temp'
        <3>1. CASE g = f
            BY <1>1, <2>2, <3>1
        <3>2. CASE g # f
            BY <1>1, <2>2, <2>4, <3>2 DEF IInv, Prepared
        <3> QED
            BY <3>1, <3>2
    <2> QED
        BY <1>1, <2>3, <2>4 DEF Prepared
<1> QED
    BY <1>1, <1>3, <1>4, <1>5, <1>6, ReadingStep

LEMMA StartLogsStep ==
    ASSUME IInv, StartLogs, UNCHANGED including
    PROVE  IInv'
<1>1. /\ step = "prepare" /\ todo = {} /\ step' = "logs" /\ temp' = temp /\ used' = used
      /\ todo' \subseteq Listed(upload) \cup {upload} /\ UNCHANGED <<upload, into, archive>>
    BY DEF StartLogs, Logs
<1>2. upload \in Uploads /\ used \subseteq {upload} \cup Listed(upload)
    BY <1>1, GoalFacts DEF IInv, Candidate
<1>3. todo' \subseteq Names
    BY <1>1, <1>2, UploadFacts
<1>4. Prepared'
    <2>1. UNCHANGED <<upload, into, pool>>
        BY <1>1 DEF archive, store
    <2>2. /\ ToPrepare' = ToPrepare
          /\ \A g : Mismatch(g)' = Mismatch(g) /\ Sources(g)' = Sources(g)
        BY <1>1, <2>1, SamePreparation
    <2> QED
        BY <1>1, <2>2 DEF Prepared, IInv
<1> QED
    BY <1>1, <1>2, <1>3, <1>4, ReadingStep

LEMMA CopyLogStep ==
    ASSUME IInv, NEW f \in Names, CopyLog(f), UNCHANGED including
    PROVE  IInv'
<1>1. /\ step = "logs" /\ step' = "logs" /\ f \in todo /\ todo' = todo \ {f}
      /\ temp' = Copied({f}) /\ used' = used \cup {f} /\ Usable(f) /\ UnchangedReading
    BY DEF CopyLog
<1>2. /\ upload \in Uploads /\ used \subseteq {upload} \cup Listed(upload) /\ TempFits
      /\ todo \subseteq Listed(upload) \cup {upload}
    BY <1>1, GoalFacts DEF IInv, Candidate, TempFits
<1>3. {f} \in SUBSET (Listed(upload) \cup {upload}) /\ \A g \in {f} : Usable(g)
    BY <1>1, <1>2
<1>4. /\ todo' \subseteq Names /\ todo' \subseteq Listed(upload) \cup {upload}
      /\ used' \subseteq {upload} \cup Listed(upload)
    BY <1>1, <1>2 DEF IInv, QueueTypeOK
<1>5. Prepared'
    <2>1. UNCHANGED <<upload, into, pool>>
        BY <1>1 DEF UnchangedReading, archive, store
    <2>2. /\ DOMAIN temp' = DOMAIN temp \cup {f}
          /\ temp'[upload] = temp[upload]
        <3>1. upload \in DOMAIN temp
            BY <1>2 DEF TempFits
        <3> QED
            BY <1>1, <3>1 DEF Copied
    <2>3. /\ ToPrepare' = ToPrepare
          /\ \A g : Mismatch(g)' = Mismatch(g) /\ Sources(g)' = Sources(g)
        BY <2>1, <2>2, SamePreparation
    <2> QED
        BY <1>1, <2>2, <2>3 DEF Prepared, IInv
<1> QED
    BY <1>1, <1>3, <1>4, <1>5, ReadingStep

-----------------------------------------------------------------------------
(* Trying and adding an upload                                             *)

(* The candidate stays as it is. *)
LEMMA CandidateKept ==
    ASSUME IInv, step \notin {"off", "next", "clean"}, step' \in {"check", "hooks", "link", "loglink"},
           UNCHANGED <<rule, upload, temp, used, into, at>>, step' = "loglink" => todo' = {},
           step # "into"
    PROVE  Candidate' /\ upload \in Uploads /\ upload # None /\ into = Goals /\ Goals' = Goals
<1>1. upload # None /\ upload \in Uploads /\ into = Goals /\ at = None
    BY GoalFacts DEF IInv, Candidate
<1>2. Goals' = Goals
    BY SameGoals
<1> QED
    BY <1>1, <1>2 DEF Candidate, IInv

LEMMA EndLogsStep ==
    ASSUME IInv, EndLogs, UNCHANGED including
    PROVE  IInv'
<1>1. /\ step = "logs" /\ todo = {} /\ step' = "check"
      /\ UNCHANGED <<rule, listing, left, processed, deleting, upload, logfiles>>
      /\ UNCHANGED <<temp, used, into, at, todo, skipped, archive>>
    BY DEF EndLogs, UnchangedQueue
<1>2. QueueTypeOK'
    BY <1>1 DEF IInv, QueueTypeOK, Step
<1>3. Candidate'
    BY <1>1, CandidateKept
<1>4. Prepared'
    <2>1. pool' = pool
        BY <1>1 DEF archive, store
    <2>2. /\ ToPrepare' = ToPrepare
          /\ \A g : Mismatch(g)' = Mismatch(g) /\ Sources(g)' = Sources(g)
        BY <1>1, <2>1, SamePreparation
    <2> QED
        BY <1>1, <2>2 DEF Prepared, IInv
<1>5. Linking' /\ Linked' /\ Arrived'
    BY <1>1 DEF Linking, Linked, Arrived
<1> QED
    BY <1>1, <1>2, <1>3, <1>4, <1>5, OnlyQueue DEF QueueInv

LEMMA CheckSucceedsStep ==
    ASSUME IInv, CheckSucceeds, UNCHANGED including
    PROVE  IInv'
<1>1. /\ step = "check" /\ step' = "hooks" /\ skipped' = There
      /\ UNCHANGED <<rule, listing, left, processed, deleting, upload, logfiles>>
      /\ UNCHANGED <<temp, used, into, at, todo, archive>>
    BY DEF CheckSucceeds, UnchangedQueue
<1>2. /\ Candidate' /\ upload \in Uploads /\ into \subseteq Distributions
      /\ Masters(upload) \subseteq Names /\ Masters(upload) \subseteq DOMAIN Inside
    BY <1>1, CandidateKept, GoalFacts, UploadFacts DEF IInv
<1>3. There \subseteq Distributions \X Masters(upload)
    BY <1>2 DEF There, Pairs
<1>4. QueueTypeOK'
    BY <1>1, <1>2, <1>3 DEF IInv, QueueTypeOK, Step
<1>5. Prepared'
    <2>1. pool' = pool
        BY <1>1 DEF archive, store
    <2>2. /\ ToPrepare' = ToPrepare
          /\ \A g : Mismatch(g)' = Mismatch(g) /\ Sources(g)' = Sources(g)
        BY <1>1, <2>1, SamePreparation
    <2> QED
        BY <1>1, <2>2 DEF Prepared, IInv
<1>6. Arrived'
    <2>1. \A x \in There : Has(x[1], x[2])
        <3>1. TAKE x \in There
        <3>2. x[1] \in Distributions /\ x[2] \in DOMAIN Inside /\ Equal(x[1], x[2])
            BY <1>2, <3>1 DEF There, Pairs
        <3>3. Inside[x[2]].version \in Nat
            BY <3>2, PackageFacts
        <3> QED
            BY <3>2, <3>3 DEF Equal, Has
    <2>2. packages' = packages
        BY <1>1 DEF archive, store
    <2>3. \A d, m : Has(d, m)' = Has(d, m)
        BY <2>2 DEF Has
    <2> QED
        BY <1>1, <1>3, <2>1, <2>3 DEF Arrived
<1>7. Linking' /\ Linked'
    BY <1>1 DEF Linking, Linked
<1> QED
    BY <1>1, <1>2, <1>4, <1>5, <1>6, <1>7, OnlyQueue DEF QueueInv

LEMMA NothingToDoStep ==
    ASSUME IInv, NothingToDo, UNCHANGED including
    PROVE  IInv'
<1>1. /\ step = "check" /\ step' = "next" /\ upload' = None /\ temp' = NoFunction /\ used' = {}
      /\ into' = {} /\ at' = None /\ todo' = {} /\ logfiles' = {} /\ skipped' = {}
      /\ deleting' = deleting \cup DoneWith
      /\ UNCHANGED <<rule, listing, left, processed, archive>>
    BY DEF NothingToDo, Forget
<1>2. upload \in Uploads
    BY <1>1, GoalFacts DEF IInv, Candidate
<1>3. deleting' \subseteq Names
    BY <1>1, <1>2, UploadFacts DEF DoneWith, IInv, QueueTypeOK
<1>4. QueueTypeOK'
    BY <1>1, <1>3 DEF IInv, QueueTypeOK, Step, NoFunction
<1>5. Candidate' /\ Prepared' /\ Linking' /\ Linked' /\ Arrived'
    BY <1>1, NoCandidate
<1> QED
    BY <1>1, <1>4, <1>5, OnlyQueue DEF QueueInv

(* What is to be linked is there to be linked, and makes up for what the   *)
(* pool lacks.                                                             *)
LEMMA LinksSuffice ==
    ASSUME upload \in Uploads, TempFits,
           \A f \in ToPrepare : ~Mismatch(f) /\ Sources(f) \subseteq DOMAIN temp
    PROVE  /\ \A link \in ToLink : link \in Names \X Names /\ link[2] \in DOMAIN temp
           /\ \A x \in Pairs \ skipped : \A f \in DOMAIN FilesOf(x[2]) :
                 \/ Present(f, FilesOf(x[2])[f])
                 \/ \E g \in DOMAIN temp : <<f, g>> \in ToLink /\ temp[g] = FilesOf(x[2])[f]
           /\ \A f \in Extras : ~Absent(f) \/ <<f, f>> \in ToLink
<1> DEFINE parts == {x[2] : x \in Pairs \ skipped}
<1>0. /\ Masters(upload) \subseteq Listed(upload) /\ Masters(upload) \subseteq DOMAIN Inside
      /\ \A m \in Masters(upload) : Lists[upload][m] = Inside[m].self
      /\ upload \notin Listed(upload) /\ Listed(upload) \cup {upload} \subseteq Names
    BY UploadFacts
<1>1. parts \subseteq Masters(upload)
    BY DEF Pairs
<1>2. Extras \subseteq Listed(upload) \cup {upload}
    BY DEF Extras
<1>3. ASSUME NEW f \in Masters(upload) \cup Extras
      PROVE  f \in DOMAIN temp /\ f \in Names
    <2>1. f \in ToPrepare
        BY DEF ToPrepare
    <2>2. f \in Sources(f)
        BY DEF Sources
    <2> QED
        BY <1>0, <1>2, <2>1, <2>2
<1>4. ASSUME NEW m \in Masters(upload), NEW f \in DOMAIN Inside[m].needs
      PROVE  LET c == Inside[m].needs[f]
             IN  \/ Present(f, c)
                 \/ Absent(f) /\ Twin(f, c) \in DOMAIN temp /\ Twin(f, c) \in Names
                              /\ temp[Twin(f, c)] = c
    <2> DEFINE c == Inside[m].needs[f]
    <2>1. c \in Wanted(f) /\ f \in ToPrepare
        BY DEF Wanted, ToPrepare, Needed
    <2>2. ~Absent(f) => Present(f, c)
        BY <2>1 DEF Mismatch
    <2>3. CASE Absent(f)
        <3>0. c \in {w \in Wanted(f) : Absent(f)}
            BY <2>1, <2>3
        <3>1. Twin(f, c) \in Sources(f) /\ Twins(f, c) # {}
            <4> HIDE DEF c
            <4>1. Twin(f, c) \in Sources(f)
                BY <3>0 DEF Sources
            <4>2. Twins(f, c) # {}
                BY <2>1, <2>3 DEF Mismatch
            <4> QED
                BY <4>1, <4>2
        <3>2. Twin(f, c) \in Twins(f, c)
            BY <3>1 DEF Twin
        <3>3. Twin(f, c) \in Listed(upload) /\ Lists[upload][Twin(f, c)] = c
            BY <2>1, <3>2 DEF Twins, Mismatch
        <3>4. Twin(f, c) \in DOMAIN temp
            BY <2>1, <3>1
        <3> QED
            BY <1>0, <2>3, <3>3, <3>4 DEF TempFits
    <2> QED
        BY <2>2, <2>3
<1>5. ToLink = {<<f, f>> : f \in {g \in parts \cup Extras : Absent(g)}}
                   \cup UNION {{<<f, Twin(f, Inside[m].needs[f])>> :
                                   f \in {g \in DOMAIN Inside[m].needs : Absent(g)}} : m \in parts}
    BY DEF ToLink
<1>6. ASSUME NEW link \in ToLink
      PROVE  link \in Names \X Names /\ link[2] \in DOMAIN temp
    <2>1. CASE \E f \in parts \cup Extras : link = <<f, f>>
        <3>1. PICK f \in parts \cup Extras : link = <<f, f>>
            BY <2>1
        <3>2. f \in DOMAIN temp /\ f \in Names
            BY <1>1, <1>3
        <3> QED
            BY <3>1, <3>2
    <2>2. CASE \E m \in parts : \E f \in DOMAIN Inside[m].needs :
                  Absent(f) /\ link = <<f, Twin(f, Inside[m].needs[f])>>
        <3>0. PICK m \in parts : \E f \in DOMAIN Inside[m].needs :
                  Absent(f) /\ link = <<f, Twin(f, Inside[m].needs[f])>>
            BY <2>2
        <3>1. PICK f \in DOMAIN Inside[m].needs :
                  Absent(f) /\ link = <<f, Twin(f, Inside[m].needs[f])>>
            BY <3>0
        <3>2. m \in Masters(upload) /\ f \in Names /\ Inside[m].needs[f] \in Contents
            BY <1>0, <1>1, PackageFacts
        <3>3. ~Present(f, Inside[m].needs[f])
            BY <3>1, <3>2 DEF Absent, Present
        <3>4. Twin(f, Inside[m].needs[f]) \in DOMAIN temp /\ Twin(f, Inside[m].needs[f]) \in Names
            BY <1>4, <3>2, <3>3
        <3> QED
            BY <3>1, <3>2, <3>4
    <2>3. \/ \E f \in parts \cup Extras : link = <<f, f>>
          \/ \E m \in parts : \E f \in DOMAIN Inside[m].needs :
                  Absent(f) /\ link = <<f, Twin(f, Inside[m].needs[f])>>
        <3> HIDE DEF parts
        <3> QED
            BY <1>5, <1>6
    <2> QED
        BY <2>1, <2>2, <2>3
<1>7. ASSUME NEW x \in Pairs \ skipped, NEW f \in DOMAIN FilesOf(x[2])
      PROVE  \/ Present(f, FilesOf(x[2])[f])
             \/ \E g \in DOMAIN temp : <<f, g>> \in ToLink /\ temp[g] = FilesOf(x[2])[f]
    <2>1. PICK m \in parts : m = x[2]
        OBVIOUS
    <2>2. m \in Masters(upload) /\ m \in DOMAIN Inside
        BY <1>0, <1>1
    <2>3. /\ DOMAIN FilesOf(m) = {m} \cup DOMAIN Inside[m].needs
          /\ FilesOf(m)[m] = Inside[m].self
          /\ \A g \in DOMAIN Inside[m].needs : g # m => FilesOf(m)[g] = Inside[m].needs[g]
        BY <2>2, PackageFacts
    <2>4. CASE f = m
        <3>1. ~Mismatch(m) /\ m # upload /\ m \in DOMAIN temp
            BY <1>0, <1>3, <2>2 DEF ToPrepare
        <3>2. Present(m, Lists[upload][m]) \/ Absent(m)
            BY <2>2, <3>1 DEF Mismatch, SumsOf
        <3>3. Absent(m) => <<m, m>> \in ToLink
            <4> HIDE DEF parts
            <4> QED
                BY <1>5, <2>1
        <3>4. temp[m] = Lists[upload][m]
            BY <3>1 DEF TempFits
        <3> QED
            BY <1>0, <2>1, <2>2, <2>3, <2>4, <3>1, <3>2, <3>3, <3>4
    <2>5. CASE f # m
        <3> DEFINE c == Inside[m].needs[f]
        <3>1. f \in DOMAIN Inside[m].needs /\ FilesOf(m)[f] = c
            BY <2>1, <2>3, <2>5
        <3>2. \/ Present(f, c)
              \/ Absent(f) /\ Twin(f, c) \in DOMAIN temp /\ temp[Twin(f, c)] = c
            BY <1>4, <2>2, <3>1
        <3>3. Absent(f) => <<f, Twin(f, c)>> \in ToLink
            <4> HIDE DEF parts
            <4> QED
                BY <1>5, <2>1, <3>1
        <3> QED
            BY <2>1, <3>1, <3>2, <3>3
    <2> QED
        BY <2>4, <2>5
<1>8. ASSUME NEW f \in Extras
      PROVE  ~Absent(f) \/ <<f, f>> \in ToLink
    <2> HIDE DEF parts
    <2> QED
        BY <1>5
<1> QED
    BY <1>6, <1>7, <1>8

LEMMA RunHooksStep ==
    ASSUME IInv, RunHooks, UNCHANGED including
    PROVE  IInv'
<1>1. /\ step = "hooks" /\ step' = "link" /\ todo' = ToLink
      /\ UNCHANGED <<rule, listing, left, processed, deleting, upload, logfiles>>
      /\ UNCHANGED <<temp, used, into, at, skipped, archive>>
    BY DEF RunHooks, UnchangedQueue
<1>2. Candidate' /\ upload \in Uploads
    BY <1>1, CandidateKept
<1>3. TempFits
    BY <1>1 DEF IInv, Candidate, TempFits
<1>4. \A f \in ToPrepare : ~Mismatch(f) /\ Sources(f) \subseteq DOMAIN temp
    BY <1>1 DEF IInv, Prepared
<1>5. /\ \A link \in ToLink : link \in Names \X Names /\ link[2] \in DOMAIN temp
      /\ \A x \in Pairs \ skipped : \A f \in DOMAIN FilesOf(x[2]) :
            \/ Present(f, FilesOf(x[2])[f])
            \/ \E g \in DOMAIN temp : <<f, g>> \in ToLink /\ temp[g] = FilesOf(x[2])[f]
      /\ \A f \in Extras : ~Absent(f) \/ <<f, f>> \in ToLink
    BY <1>2, <1>3, <1>4, LinksSuffice
<1>6. QueueTypeOK'
    BY <1>1, <1>5 DEF IInv, QueueTypeOK, Step
<1>7. pool' = pool /\ packages' = packages
    BY <1>1 DEF archive, store
<1>8. Linking'
    <2>1. Pairs' = Pairs /\ Extras' = Extras
        BY <1>1 DEF Pairs, Extras
    <2> QED
        BY <1>1, <1>5, <1>7, <2>1 DEF Linking, Present, Absent
<1>9. Arrived'
    <2>1. \A d, m : Has(d, m)' = Has(d, m)
        BY <1>7 DEF Has
    <2> QED
        BY <1>1, <2>1 DEF IInv, Arrived
<1>10. Prepared' /\ Linked'
    BY <1>1 DEF Prepared, Linked
<1> QED
    BY <1>1, <1>2, <1>6, <1>8, <1>9, <1>10, OnlyQueue DEF QueueInv

LEMMA LinkFileStep ==
    ASSUME IInv, NEW f \in Names, NEW g \in Names, LinkFile(f, g), UNCHANGED including
    PROVE  IInv'
<1>1. /\ step = "link" /\ step' = "link" /\ <<f, g>> \in todo /\ todo' = todo \ {<<f, g>>}
      /\ \/ pool[f] = temp[g] /\ UNCHANGED <<pool, fresh, dropped>>
         \/ Absent(f) /\ AddFile(f, temp[g])
      /\ UNCHANGED <<rule, listing, left, processed, deleting, upload, logfiles>>
      /\ UNCHANGED <<temp, used, into, at, skipped, incoming, morgue, logdir,
                     packages, tracked, command, failed, signalled, faults>>
    BY DEF LinkFile, UnchangedQueue, Present
<1>2. Candidate' /\ upload \in Uploads /\ TempFits
    BY <1>1, CandidateKept DEF IInv, Candidate, TempFits
<1>3. g \in DOMAIN temp /\ temp[g] \in Contents
    <2>1. g \in DOMAIN temp
        BY <1>1 DEF IInv, Linking
    <2>2. \A h \in Listed(upload) : Lists[upload][h] \in Contents
        BY <1>2, UploadFacts
    <2> QED
        BY <1>2, <2>1, <2>2 DEF TempFits
<1>4. /\ pool' \in [Names -> Contents \cup {None}] /\ fresh' \cup dropped' \subseteq Names
      /\ pool'[f] = temp[g] /\ \A h : h # f \/ pool[h] # None => pool'[h] = pool[h]
      /\ PublishedWhole'
    <2>1. CASE pool[f] = temp[g] /\ UNCHANGED <<pool, fresh, dropped>>
        BY <1>1, <2>1 DEF IInv, ArchiveTypeOK, PublishedWhole
    <2>2. CASE Absent(f) /\ AddFile(f, temp[g])
        <3>1. PICK c \in Contents : c = temp[g]
            BY <1>3
        <3>2. Absent(f) /\ AddFile(f, c)
            BY <2>2, <3>1
        <3>3. /\ pool' \in [Names -> Contents \cup {None}] /\ fresh' \cup dropped' \subseteq Names
              /\ pool'[f] = c /\ \A h : h # f => pool'[h] = pool[h]
              /\ PublishedWhole'
            BY <1>1, <3>2, PoolGrows DEF IInv
        <3> QED
            BY <3>1, <3>2, <3>3 DEF Absent
    <2> QED
        BY <1>1, <2>1, <2>2
<1>5. ArchiveTypeOK'
    BY <1>1, <1>4 DEF IInv, ArchiveTypeOK
<1>6. Running' /\ CheckinTypeOK' /\ Included'
    BY <1>1, Processing DEF IInv
<1>7. QueueTypeOK'
    BY <1>1 DEF IInv, QueueTypeOK
<1>8. Linking'
    <2>1. Pairs' = Pairs /\ Extras' = Extras
        BY <1>1 DEF Pairs, Extras
    <2>2. \A link \in todo' : link[2] \in DOMAIN temp'
        BY <1>1 DEF IInv, Linking
    <2>3. ASSUME NEW x \in Pairs \ skipped, NEW h \in DOMAIN FilesOf(x[2])
          PROVE  \/ pool'[h] = FilesOf(x[2])[h]
                 \/ \E k \in DOMAIN temp : <<h, k>> \in todo' /\ temp[k] = FilesOf(x[2])[h]
        <3>1. CASE Present(h, FilesOf(x[2])[h])
            <4>1. PICK m \in DOMAIN Inside : m = x[2]
                BY <1>2, UploadFacts DEF Pairs
            <4>2. FilesOf(m)[h] \in Contents
                BY <4>1, PackageFacts
            <4> QED
                BY <1>4, <3>1, <4>1, <4>2 DEF Present
        <3>2. CASE \E k \in DOMAIN temp : <<h, k>> \in todo /\ temp[k] = FilesOf(x[2])[h]
            <4>1. PICK k \in DOMAIN temp : <<h, k>> \in todo /\ temp[k] = FilesOf(x[2])[h]
                BY <3>2
            <4> QED
                BY <1>1, <1>4, <4>1
        <3>3. \/ Present(h, FilesOf(x[2])[h])
              \/ \E k \in DOMAIN temp : <<h, k>> \in todo /\ temp[k] = FilesOf(x[2])[h]
            BY <1>1 DEF IInv, Linking
        <3> QED
            BY <3>1, <3>2, <3>3
    <2>4. ASSUME NEW h \in Extras
          PROVE  pool'[h] # None \/ <<h, h>> \in todo'
        BY <1>1, <1>3, <1>4 DEF IInv, Linking, Absent
    <2>5. temp' = temp /\ skipped' = skipped
        BY <1>1
    <2>6. \A x \in Pairs' \ skipped' : \A h \in DOMAIN FilesOf(x[2]) :
              \/ pool'[h] = FilesOf(x[2])[h]
              \/ \E k \in DOMAIN temp' : <<h, k>> \in todo' /\ temp'[k] = FilesOf(x[2])[h]
        BY <2>1, <2>3, <2>5
    <2>7. \A h \in Extras' : pool'[h] # None \/ <<h, h>> \in todo'
        BY <2>1, <2>4
    <2> QED
        BY <2>2, <2>6, <2>7 DEF Linking, Present, Absent
<1>9. Arrived'
    <2>1. \A d, m : Has(d, m)' = Has(d, m)
        BY <1>1 DEF Has
    <2> QED
        BY <1>1, <2>1 DEF IInv, Arrived
<1>10. Prepared' /\ Linked'
    BY <1>1 DEF Prepared, Linked
<1>11. ProcessedAreIn'
    BY <1>1, MarksKept DEF IInv
<1> QED
    BY <1>2, <1>4, <1>5, <1>6, <1>7, <1>8, <1>9, <1>10, <1>11 DEF IInv

LEMMA LinkLogsStep ==
    ASSUME IInv, LinkLogs, UNCHANGED including
    PROVE  IInv'
<1>1. /\ step = "link" /\ step' = "loglink" /\ todo = {}
      /\ UNCHANGED <<rule, listing, left, processed, deleting, upload, logfiles>>
      /\ UNCHANGED <<temp, used, into, at, todo, skipped, incoming, morgue, store,
                     command, failed, signalled, faults>>
      /\ logdir' = logdir \cup logfiles
    BY DEF LinkLogs, UnchangedQueue
<1>2. Candidate' /\ upload \in Uploads /\ at = None /\ into \subseteq Distributions
    BY <1>1, CandidateKept, GoalFacts DEF IInv, Candidate
<1>3. pool' = pool /\ packages' = packages
    BY <1>1 DEF store
<1>4. Linked'
    <2>1. Waiting' = into
        BY <1>1, <1>2 DEF Waiting
    <2>2. ASSUME NEW d \in into, NEW m \in Masters(upload)
          PROVE  <<d, m>> \in skipped \/ \A f \in DOMAIN FilesOf(m) : pool[f] = FilesOf(m)[f]
        <3>1. <<d, m>> \in Pairs
            BY DEF Pairs
        <3>2. \A x \in Pairs \ skipped : \A f \in DOMAIN FilesOf(x[2]) : Present(f, FilesOf(x[2])[f])
            BY <1>1 DEF IInv, Linking
        <3> QED
            BY <3>1, <3>2 DEF Present
    <2>3. ASSUME NEW d \in into, NEW f \in {upload} \cup Listed(upload), Kind[f] \in TrackExtras[d]
          PROVE  pool[f] # None
        BY <1>1, <2>3 DEF IInv, Linking, Extras, Absent
    <2> QED
        BY <1>1, <1>3, <2>1, <2>2, <2>3 DEF Linked, AllPresent, Present, Absent
<1>5. QueueTypeOK'
    BY <1>1 DEF IInv, QueueTypeOK, Step
<1>6. Arrived'
    <2>1. \A d, m : Has(d, m)' = Has(d, m)
        BY <1>3 DEF Has
    <2> QED
        BY <1>1, <2>1 DEF IInv, Arrived
<1>7. Prepared' /\ Linking'
    BY <1>1 DEF Prepared, Linking
<1>8. ArchiveTypeOK' /\ PublishedWhole'
    <2>1. logdir' \subseteq Names
        BY <1>1 DEF IInv, ArchiveTypeOK, QueueTypeOK
    <2> QED
        BY <1>1, <2>1, ArchiveStays DEF IInv, ArchiveTypeOK
<1>9. Running' /\ CheckinTypeOK' /\ Included'
    BY <1>1, Processing DEF IInv
<1>10. ProcessedAreIn'
    BY <1>1, MarksKept DEF IInv, store
<1> QED
    BY <1>2, <1>4, <1>5, <1>6, <1>7, <1>8, <1>9, <1>10 DEF IInv

(* While the pool does not change, what was linked stays. *)
LEMMA LinkedKept ==
    ASSUME IInv, step \in {"loglink", "into"}, UNCHANGED <<upload, skipped, pool>>,
           Waiting' \subseteq Waiting
    PROVE  (Linked' /\ Prepared') \/ step' \notin {"loglink", "into"}
<1>1. CASE step' \in {"loglink", "into"}
    <2>1. Prepared'
        BY <1>1 DEF Prepared
    <2>2. Linked'
        BY <1>1 DEF IInv, Linked, AllPresent, Present, Absent
    <2> QED
        BY <2>1, <2>2
<1> QED
    BY <1>1

LEMMA EndLinkStep ==
    ASSUME IInv, EndLink, UNCHANGED including
    PROVE  IInv'
<1>1. /\ step = "loglink" /\ step' = "into"
      /\ UNCHANGED <<rule, listing, left, processed, deleting, upload, logfiles>>
      /\ UNCHANGED <<temp, used, into, at, todo, skipped, archive>>
    BY DEF EndLink, UnchangedQueue
<1>2. /\ upload # None /\ upload \in Uploads /\ into = Goals /\ at = None /\ todo = {}
      /\ None \notin into
    BY <1>1, GoalFacts DEF IInv, Candidate
<1>6. QueueTypeOK'
    BY <1>1 DEF IInv, QueueTypeOK, Step
<1>7. Candidate'
    <2>1. Goals' = Goals
        BY <1>1, SameGoals
    <2> QED
        BY <1>1, <1>2, <2>1 DEF IInv, Candidate
<1>8. Linked' /\ Prepared'
    BY <1>1, LinkedKept DEF Waiting, archive, store
<1>9. Arrived'
    <2>1. \A d, m : Has(d, m)' = Has(d, m)
        BY <1>1 DEF Has, archive, store
    <2>2. Goals' \ into' = {}
        BY <1>1, <1>2, SameGoals
    <2> QED
        BY <1>1, <2>1, <2>2 DEF IInv, Arrived
<1>10. Linking'
    BY <1>1 DEF Linking
<1> QED
    BY <1>1, <1>6, <1>7, <1>8, <1>9, <1>10, OnlyQueue DEF QueueInv

LEMMA StartIntoStep ==
    ASSUME IInv, NEW d \in Distributions, StartInto(d), UNCHANGED including
    PROVE  IInv'
<1>1. /\ step = "into" /\ step' = "into" /\ at = None /\ d \in into /\ into' = into \ {d}
      /\ \/ SkippedIn(d, skipped) /\ at' = at /\ todo' = todo
         \/ /\ ~SkippedIn(d, skipped) /\ at' = d
            /\ todo' = {m \in Masters(upload) : <<d, m>> \notin skipped}
      /\ UNCHANGED <<rule, listing, left, processed, deleting, upload, logfiles>>
      /\ UNCHANGED <<temp, used, skipped, archive>>
    BY DEF StartInto, UnchangedQueue
<1>2. /\ upload # None /\ upload \in Uploads /\ into \subseteq Goals /\ todo = {}
      /\ Goals \subseteq Distributions /\ Masters(upload) \subseteq Names
    BY <1>1, GoalFacts, UploadFacts DEF IInv, Candidate
<1>3. Goals' = Goals
    BY <1>1, SameGoals
<1>4. QueueTypeOK'
    <2>1. at' \in {d, None} /\ todo' \subseteq {m \in Masters(upload) : <<d, m>> \notin skipped}
        <3>1. CASE SkippedIn(d, skipped)
            BY <1>1, <1>2, <3>1
        <3>2. CASE ~SkippedIn(d, skipped)
            BY <1>1, <3>2
        <3> QED
            BY <3>1, <3>2
    <2>2. at' \in Distributions \cup {None}
        BY <2>1
    <2>4. todo' \subseteq Names
        <3>1. todo' \subseteq Masters(upload) /\ Masters(upload) \subseteq Names
            BY <1>2, <2>1
        <3> QED
            BY <3>1
    <2>3. /\ step' = "into" /\ into' \subseteq into
          /\ UNCHANGED <<rule, listing, left, processed, deleting, upload, temp, used, logfiles, skipped>>
        BY <1>1
    <2> QED
        BY <2>2, <2>3, <2>4 DEF IInv, QueueTypeOK, Step
<1>5. Candidate'
    BY <1>1, <1>2, <1>3 DEF IInv, Candidate
<1>6. Linked' /\ Prepared'
    <2>1. Waiting' \subseteq Waiting
        BY <1>1 DEF Waiting
    <2>2. pool' = pool
        BY <1>1 DEF archive, store
    <2> QED
        BY <1>1, <2>1, <2>2, LinkedKept
<1>7. Arrived'
    <2>1. packages' = packages
        BY <1>1 DEF archive, store
    <2>2. \A e, m : Has(e, m)' = Has(e, m)
        BY <2>1 DEF Has
    <2>3. \A x \in skipped : x \in Distributions \X Masters(upload) /\ Has(x[1], x[2])
        BY <1>1 DEF IInv, Arrived
    <2>4. ASSUME NEW e \in Goals \ into', NEW m \in Masters(upload)
          PROVE  (e = at' /\ m \in todo') \/ Has(e, m)
        <3>1. CASE e # d
            <4>1. e \in Goals \ into
                BY <1>1, <2>4, <3>1
            <4> QED
                BY <1>1, <1>2, <4>1 DEF IInv, Arrived
        <3>2. CASE e = d /\ <<d, m>> \in skipped
            BY <2>3, <3>2
        <3>3. CASE e = d /\ <<d, m>> \notin skipped
            BY <1>1, <2>4, <3>3 DEF SkippedIn
        <3> QED
            BY <3>1, <3>2, <3>3
    <2> QED
        BY <1>1, <1>3, <2>2, <2>3, <2>4 DEF Arrived
<1>8. Linking'
    BY <1>1 DEF Linking
<1> QED
    BY <1>1, <1>4, <1>5, <1>6, <1>7, <1>8, OnlyQueue DEF QueueInv

LEMMA AddPartStep ==
    ASSUME IInv, NEW m \in Names, AddPart(m), UNCHANGED including
    PROVE  IInv'
<1>1. /\ step = "into" /\ step' = "into" /\ at # None /\ m \in todo /\ todo' = todo \ {m}
      /\ AddPackage(at, m)
      /\ UNCHANGED <<rule, listing, left, processed, deleting, upload, logfiles>>
      /\ UNCHANGED <<temp, used, into, at, skipped, incoming, morgue, logdir,
                     pool, fresh, tracked, command, failed, signalled, faults>>
    BY DEF AddPart, UnchangedQueue
<1>2. /\ upload # None /\ upload \in Uploads /\ Goals \subseteq Distributions
      /\ at \in Goals /\ m \in Masters(upload) /\ <<at, m>> \notin skipped
    BY <1>1, GoalFacts DEF IInv, Candidate
<1>3. m \in DOMAIN Inside
    BY <1>2, UploadFacts
<1>4. AllPresent(m)
    BY <1>1, <1>2 DEF IInv, Linked, Waiting
<1>5. PICK d \in Distributions : d = at
    BY <1>2
<1>6. /\ packages' \in [Distributions -> [Packages -> {None} \cup {Placed(n) : n \in DOMAIN Inside}]]
      /\ dropped' \subseteq Names
      /\ PublishedWhole'
      /\ Has(d, m)'
      /\ \A e \in Distributions, n \in DOMAIN Inside : Has(e, n) => Has(e, n)'
    <2>1. AddPackage(d, m)
        BY <1>1, <1>5
    <2> QED
        BY <1>1, <1>3, <1>4, <2>1, PackageComesIn DEF IInv
<1>7. ArchiveTypeOK'
    BY <1>1, <1>6 DEF IInv, ArchiveTypeOK
<1>8. Running' /\ CheckinTypeOK' /\ Included'
    BY <1>1, Processing DEF IInv
<1>9. QueueTypeOK'
    BY <1>1 DEF IInv, QueueTypeOK
<1>10. Goals' = Goals
    BY <1>1, SameGoals
<1>11. Candidate'
    BY <1>1, <1>10 DEF IInv, Candidate
<1>12. Linked' /\ Prepared'
    BY <1>1, LinkedKept DEF Waiting
<1>13. Arrived'
    <2>1. \A x \in skipped : x \in Distributions \X Masters(upload) /\ Has(x[1], x[2])
        BY <1>1 DEF IInv, Arrived
    <2>2. ASSUME NEW x \in skipped
          PROVE  x \in Distributions \X Masters(upload) /\ Has(x[1], x[2])'
        <3>1. PICK e \in Distributions, n \in Masters(upload) : x = <<e, n>>
            BY <2>1
        <3>2. n \in DOMAIN Inside /\ Has(e, n)
            BY <1>2, <2>1, <3>1, UploadFacts
        <3>3. Has(e, n)'
            BY <1>6, <3>2
        <3> QED
            BY <3>1, <3>3
    <2>3. ASSUME NEW e \in Goals \ into, NEW n \in Masters(upload)
          PROVE  (e = at /\ n \in todo') \/ Has(e, n)'
        <3>1. n \in DOMAIN Inside /\ e \in Distributions
            BY <1>2, UploadFacts
        <3>2. CASE e = at /\ n = m
            BY <1>5, <1>6, <3>2
        <3>3. CASE ~(e = at /\ n = m)
            <4>1. (e = at /\ n \in todo) \/ Has(e, n)
                BY <1>1 DEF IInv, Arrived
            <4> QED
                BY <1>1, <1>6, <3>1, <3>3, <4>1
        <3> QED
            BY <3>2, <3>3
    <2> QED
        BY <1>1, <1>10, <2>2, <2>3 DEF Arrived
<1>14. Linking'
    BY <1>1 DEF Linking
<1>15. ProcessedAreIn'
    BY <1>1, <1>6, ProcessedKept DEF IInv
<1> QED
    BY <1>6, <1>7, <1>8, <1>9, <1>11, <1>12, <1>13, <1>14, <1>15 DEF IInv

LEMMA FinishIntoStep ==
    ASSUME IInv, FinishInto, UNCHANGED including
    PROVE  IInv'
<1> DEFINE kept == {f \in Listed(upload) \cup {upload} : ~Master(f) /\ Kind[f] \in TrackExtras[at]}
<1>1. /\ step = "into" /\ step' = "into" /\ at # None /\ todo = {} /\ at' = None
      /\ tracked' = [tracked EXCEPT ![at] = @ \cup kept]
      /\ UNCHANGED <<rule, listing, left, processed, deleting, upload, logfiles>>
      /\ UNCHANGED <<temp, used, into, todo, skipped, incoming, morgue, logdir,
                     pool, fresh, dropped, packages, command, failed, signalled, faults>>
    BY DEF FinishInto, UnchangedQueue
<1>2. /\ upload # None /\ upload \in Uploads /\ Goals \subseteq Distributions
      /\ at \in Goals /\ into \subseteq Goals /\ Listed(upload) \cup {upload} \subseteq Names
    BY <1>1, GoalFacts, UploadFacts DEF IInv, Candidate
<1>3. kept \subseteq Names /\ \A f \in kept : pool[f] # None
    BY <1>1, <1>2 DEF IInv, Linked, Waiting, Absent
<1>4. /\ tracked' \in [Distributions -> SUBSET Names]
      /\ \A d \in Distributions : tracked'[d] \subseteq tracked[d] \cup kept
    <2> HIDE DEF kept
    <2> QED
        BY <1>1, <1>2, <1>3 DEF IInv, ArchiveTypeOK
<1>5. PublishedWhole'
    <2> HIDE DEF kept
    <2> QED
        BY <1>1, <1>3, <1>4 DEF IInv, PublishedWhole
<1>6. ArchiveTypeOK'
    BY <1>1, <1>4 DEF IInv, ArchiveTypeOK
<1>7. Running' /\ CheckinTypeOK' /\ Included'
    BY <1>1, Processing DEF IInv
<1>8. QueueTypeOK'
    BY <1>1 DEF IInv, QueueTypeOK
<1>9. Goals' = Goals
    BY <1>1, SameGoals
<1>10. Candidate'
    BY <1>1, <1>2, <1>9 DEF IInv, Candidate
<1>11. Linked' /\ Prepared'
    <2>1. Waiting' \subseteq Waiting
        BY <1>1 DEF Waiting
    <2> QED
        BY <1>1, <2>1, LinkedKept
<1>12. \A d, n : Has(d, n)' = Has(d, n)
    BY <1>1 DEF Has
<1>13. Arrived'
    BY <1>1, <1>9, <1>12 DEF IInv, Arrived
<1>14. Linking'
    BY <1>1 DEF Linking
<1>15. ProcessedAreIn'
    BY <1>1, MarksKept DEF IInv
<1> QED
    BY <1>5, <1>6, <1>7, <1>8, <1>10, <1>11, <1>13, <1>14, <1>15 DEF IInv

(* The upload is in where it was to go, and is marked. *)
LEMMA AddedStep ==
    ASSUME IInv, Added, UNCHANGED including
    PROVE  IInv'
<1>1. /\ step = "into" /\ at = None /\ into = {}
      /\ processed' = processed \cup {upload} \cup used
      /\ deleting' = deleting \cup DoneWith
      /\ step' = "next" /\ upload' = None /\ temp' = NoFunction /\ used' = {}
      /\ into' = {} /\ at' = None /\ todo' = {} /\ logfiles' = {} /\ skipped' = {}
      /\ UNCHANGED <<rule, listing, left, archive>>
    BY DEF Added, Forget
<1>2. /\ upload # None /\ upload \in Uploads /\ Goals \subseteq Distributions
      /\ used \subseteq {upload} \cup Listed(upload) /\ None \notin Distributions
    BY <1>1, GoalFacts DEF IInv, Candidate
<1>3. deleting' \subseteq Names /\ processed' \subseteq Names
    BY <1>1, <1>2, UploadFacts DEF DoneWith, IInv, QueueTypeOK
<1>4. QueueTypeOK'
    BY <1>1, <1>3 DEF IInv, QueueTypeOK, Step, NoFunction
<1>5. Candidate' /\ Prepared' /\ Linking' /\ Linked' /\ Arrived'
    BY <1>1, NoCandidate
<1>6. UNCHANGED <<store, incoming, morgue, logdir, command, failed, signalled, faults>>
    BY <1>1 DEF archive
<1>7. ArchiveTypeOK' /\ PublishedWhole'
    BY <1>6, ArchiveStays DEF IInv, ArchiveTypeOK
<1>8. Running' /\ CheckinTypeOK' /\ Included'
    BY <1>1, <1>6, Processing DEF IInv
<1>9. ProcessedAreIn'
    <2>1. processed' \cap Uploads \subseteq processed \cup {upload}
        BY <1>1, <1>2, UploadFacts
    <2>2. \A d \in Goals, m \in Masters(upload) : Has(d, m)
        BY <1>1, <1>2 DEF IInv, Arrived
    <2>3. \A u \in processed \cap Uploads : \A d \in Destinations(u), m \in Masters(u) : Has(d, m)
        BY DEF IInv, ProcessedAreIn, Has
    <2>4. packages' = packages
        BY <1>6 DEF store
    <2>5. \A u : Destinations(u)' = Destinations(u)
        BY <1>1 DEF Destinations
    <2> QED
        BY <2>1, <2>2, <2>3, <2>4, <2>5 DEF ProcessedAreIn, Has, Goals
<1> QED
    BY <1>4, <1>5, <1>7, <1>8, <1>9 DEF IInv

-----------------------------------------------------------------------------
(* The begin and the end of processincoming                                *)

LEMMA StartCleanStep ==
    ASSUME IInv, StartClean, UNCHANGED including
    PROVE  IInv'
<1>1. /\ step = "next" /\ step' = "clean" /\ todo' = deleting
      /\ UNCHANGED <<rule, listing, left, processed, deleting, upload, logfiles>>
      /\ UNCHANGED <<temp, used, into, at, skipped, archive>>
    BY DEF StartClean, UnchangedQueue
<1>2. upload' = None /\ at' = None
    BY <1>1 DEF IInv, Candidate
<1>3. Candidate' /\ Prepared' /\ Linking' /\ Linked' /\ Arrived'
    BY <1>1, <1>2, NoCandidate
<1>4. QueueTypeOK'
    BY <1>1 DEF IInv, QueueTypeOK, Step
<1> QED
    BY <1>1, <1>3, <1>4, OnlyQueue DEF QueueInv

LEMMA CleanFileStep ==
    ASSUME IInv, NEW n \in Names, CleanFile(n), UNCHANGED including
    PROVE  IInv'
<1>1. /\ step = "clean" /\ step' = "clean" /\ n \in todo /\ todo' = todo \ {n}
      /\ incoming' = [incoming EXCEPT ![n] = None]
      /\ UNCHANGED <<rule, listing, left, processed, deleting, upload, logfiles>>
      /\ UNCHANGED <<temp, used, into, at, skipped, logdir, store, command, signalled>>
    BY DEF CleanFile, UnchangedQueue
<1>2. failed' \in BOOLEAN /\ faults' \in 0..MaxFaults
    BY FaultTyped DEF CleanFile, ForMorgue, IInv, ArchiveTypeOK
<1>3. morgue' \subseteq Names \X Contents
    <2>1. morgue' = morgue \/ (incoming[n] # None /\ morgue' = morgue \cup {<<n, incoming[n]>>})
        BY DEF CleanFile
    <2>2. incoming[n] # None => incoming[n] \in Contents
        BY DEF IInv, ArchiveTypeOK
    <2> QED
        BY <2>1, <2>2 DEF IInv, ArchiveTypeOK
<1>4. ArchiveTypeOK' /\ PublishedWhole'
    BY <1>1, <1>2, <1>3, ArchiveStays DEF IInv, ArchiveTypeOK
<1>5. Running' /\ CheckinTypeOK' /\ Included'
    BY <1>1, Processing DEF IInv
<1>6. upload' = None /\ at' = None
    BY <1>1 DEF IInv, Candidate
<1>7. Candidate' /\ Prepared' /\ Linking' /\ Linked' /\ Arrived'
    BY <1>1, <1>6, NoCandidate
<1>8. QueueTypeOK'
    BY <1>1 DEF IInv, QueueTypeOK, Step
<1>9. ProcessedAreIn'
    BY <1>1, MarksKept DEF IInv, store
<1> QED
    BY <1>4, <1>5, <1>7, <1>8, <1>9 DEF IInv

LEMMA ProcessingEnds ==
    ASSUME IInv, EndProcessing \/ CrashProcessing, UNCHANGED including
    PROVE  IInv'
<1>1. /\ step # "off" /\ (EndCommand \/ Die)
      /\ rule' = None /\ listing' = {} /\ left' = {} /\ processed' = {} /\ deleting' = {}
      /\ step' = "off" /\ upload' = None /\ temp' = NoFunction /\ used' = {}
      /\ into' = {} /\ at' = None /\ todo' = {} /\ logfiles' = {} /\ skipped' = {}
    BY DEF EndProcessing, CrashProcessing, Forget
<1>2. ArchiveTypeOK' /\ PublishedWhole' /\ command' = "none"
    BY <1>1, CommandEnds, ProcessDies DEF IInv
<1>3. CheckinTypeOK' /\ Included' /\ changes' = None /\ place' = "off"
    BY <1>1, IncludeIdles DEF IInv
<1>4. Running'
    <2>1. changes = None /\ rest' = rest /\ taken' = taken
        BY <1>1 DEF IInv, Running, including
    <2> QED
        BY <1>1, <1>2, <1>3, <2>1 DEF IInv, Running
<1>5. Candidate' /\ Prepared' /\ Linking' /\ Linked' /\ Arrived'
    BY <1>1, NoCandidate
<1>6. QueueTypeOK'
    BY <1>1 DEF IInv, QueueTypeOK, Step, NoFunction
<1>7. ProcessedAreIn'
    BY <1>1 DEF ProcessedAreIn
<1> QED
    BY <1>2, <1>3, <1>4, <1>5, <1>6, <1>7 DEF IInv

LEMMA ProcessIncomingStep ==
    ASSUME IInv, NEW r \in Rules, ProcessIncoming(r), UNCHANGED including
    PROVE  IInv'
<1>1. /\ command = "none" /\ command' = "processincoming" /\ failed' = FALSE
      /\ rule' = r /\ step' = "next" /\ listing' = {n \in Names : incoming[n] # None}
      /\ left' \subseteq Uploads /\ processed' = {} /\ deleting' = {}
      /\ UNCHANGED <<incoming, morgue, logdir, store, signalled, faults>>
      /\ UNCHANGED <<upload, temp, used, into, at, todo, logfiles, skipped>>
    BY DEF ProcessIncoming, StartCommand, candidate
<1>2. step = "off" /\ changes = None /\ place = "off" /\ rest = {} /\ taken = {}
    BY <1>1 DEF IInv, Running
<1>3. upload = None /\ at = None
    BY <1>2 DEF IInv, Candidate
<1>4. UNCHANGED <<pool, fresh, dropped, packages, tracked>> /\ PublishedWhole'
    BY <1>1, StoreStays DEF IInv
<1>5. ArchiveTypeOK'
    BY <1>1, <1>4 DEF IInv, ArchiveTypeOK
<1>6. Running' /\ CheckinTypeOK' /\ Included'
    BY <1>1, <1>2 DEF IInv, Running, CheckinTypeOK, Included, including, Entered
<1>7. Candidate' /\ Prepared' /\ Linking' /\ Linked' /\ Arrived'
    BY <1>1, <1>3, NoCandidate
<1>8. QueueTypeOK'
    BY <1>1, <1>2 DEF IInv, QueueTypeOK, Step
<1>9. ProcessedAreIn'
    BY <1>1 DEF ProcessedAreIn
<1> QED
    BY <1>4, <1>5, <1>6, <1>7, <1>8, <1>9 DEF IInv

-----------------------------------------------------------------------------
(* include, includedsc and includedeb                                      *)

(* What a step of include has to keep, when the pool is whole *)
IncludeInv == ArchiveTypeOK /\ CheckinTypeOK /\ Running /\ Included /\ PublishedWhole

LEMMA OnlyInclude ==
    ASSUME IInv, step = "off", UNCHANGED queue, IncludeInv'
    PROVE  IInv'
<1>1. /\ QueueTypeOK' /\ Candidate' /\ Prepared' /\ Linking' /\ Linked' /\ Arrived'
      /\ ProcessedAreIn'
    BY QueueIdles DEF IInv
<1> QED
    BY <1>1 DEF IInv, IncludeInv

(* Where include or includedsc is, the other command does not run. *)
LEMMA WhoIncludes ==
    ASSUME IInv, changes # None
    PROVE  /\ step = "off" /\ changes \in Names /\ target \in Distributions
           /\ changes \in Uploads <=> command = "include"
           /\ command = "include" => place \notin {"package", "parts", "delparts"}
           /\ command = "includepackage" =>
                 changes \in DOMAIN Inside /\ place \in {"off", "package", "parts", "delparts"}
           /\ command \in {"include", "includepackage"}
<1>1. command \in {"include", "includepackage"} /\ step = "off"
    BY DEF IInv, Running
<1>2. DOMAIN Inside \cap Uploads = {}
    OBVIOUS
<1>3. CASE command = "include"
    BY <1>1, <1>3 DEF IInv, Running
<1>4. CASE command = "includepackage"
    BY <1>1, <1>2, <1>4 DEF IInv, Running, CheckinTypeOK, Place
<1> QED
    BY <1>1, <1>3, <1>4

LEMMA PlaceTaken ==
    ASSUME IInv, place # "off"
    PROVE  changes # None
<1>1. command \in {"include", "includepackage"}
    BY DEF IInv, Running
<1> QED
    BY <1>1 DEF IInv, Running

(* The entries of an upload are files it lists. *)
LEMMA EntryFacts ==
    ASSUME changes \in Uploads
    PROVE  /\ Entries \subseteq Listed(changes) /\ Entries \subseteq Names
           /\ changes \notin Entries
           /\ \A f \in Entries : Lists[changes][f] \in Contents
           /\ \A f \in Entries : Master(f) =>
                 f \in DOMAIN Inside /\ Lists[changes][f] = Inside[f].self
<1>1. Entries \subseteq Listed(changes)
    BY DEF Entries, Listed
<1>2. \A f \in Listed(changes) : Master(f) => f \in Masters(changes)
    BY DEF Masters
<1> QED
    BY <1>1, <1>2, UploadFacts

(* A step of the command that leaves all but its walk as it is *)
LEMMA GoesOn ==
    ASSUME IInv, changes # None, UNCHANGED <<changes, target, delete, command>>,
           rest' \cup taken' \subseteq Names, missed' \in BOOLEAN, place' \in Place,
           place' # "off" => (place \in {"package", "parts", "delparts"}
                                <=> place' \in {"package", "parts", "delparts"}),
           place # "off" \/ place' = "off", UNCHANGED queue
    PROVE  CheckinTypeOK' /\ Running'
<1>1. UNCHANGED <<step, rule, processed>>
    BY DEF queue
<1>2. CheckinTypeOK'
    BY DEF IInv, CheckinTypeOK
<1>3. Running'
    BY <1>1 DEF IInv, Running
<1> QED
    BY <1>2, <1>3

LEMMA IncludeStarts ==
    ASSUME IInv, NEW d \in Distributions, NEW level \in DeleteLevels, UNCHANGED queue,
           \/ \E u \in Uploads : Include(u, d, level)
           \/ \E m \in DOMAIN Inside : IncludePackage(m, d, level)
    PROVE  IInv'
<1>1. /\ command = "none" /\ failed' = FALSE /\ target' = d /\ delete' = level
      /\ UNCHANGED <<incoming, morgue, logdir, store, signalled, faults, rest, taken, missed>>
      /\ \/ command' = "include" /\ place' = "read" /\ changes' \in Uploads
         \/ command' = "includepackage" /\ place' = "package" /\ changes' \in DOMAIN Inside
    BY DEF Include, IncludePackage, StartCommand
<1>2. step = "off" /\ changes = None /\ rest = {} /\ taken = {}
    BY <1>1 DEF IInv, Running
<1>3. UNCHANGED <<pool, fresh, dropped, packages, tracked>> /\ PublishedWhole'
    BY <1>1, StoreStays DEF IInv
<1>4. ArchiveTypeOK'
    BY <1>1, <1>3 DEF IInv, ArchiveTypeOK
<1>5. UNCHANGED <<step, rule, processed>>
    BY DEF queue
<1>6. changes' \in Names /\ changes' # None
    BY <1>1, UploadFacts, PackageFacts
<1>7. Running'
    BY <1>1, <1>2, <1>5, <1>6 DEF IInv, Running
<1>8. CheckinTypeOK'
    BY <1>1, <1>6 DEF IInv, CheckinTypeOK, Place
<1>9. Included'
    BY <1>1, <1>2 DEF Included, Entered
<1> QED
    BY <1>2, <1>3, <1>4, <1>7, <1>8, <1>9, OnlyInclude DEF IncludeInv

(* The steps by which nothing of the archive changes *)
LEMMA Looks ==
    ASSUME IInv, Examine \/ EndCopy \/ CheckPackages, UNCHANGED queue
    PROVE  IInv'
<1>1. /\ place \in {"read", "copy", "packages"}
      /\ place' \in {"copy", "packages", "changesfile"}
      /\ UNCHANGED <<changes, target, delete, taken, missed, archive>>
    BY DEF Examine, EndCopy, CheckPackages, Keep
<1>2. UNCHANGED <<store, incoming, morgue, logdir, command, failed, signalled, faults>>
    BY <1>1 DEF archive
<1>3. changes # None
    BY <1>1, PlaceTaken
<1>4. step = "off" /\ changes \in Uploads
    BY <1>1, <1>3, WhoIncludes
<1>5. Entries \subseteq Names /\ Entries' = Entries
    BY <1>1, <1>4, EntryFacts DEF Entries
<1>6. rest' \subseteq Names
    BY <1>1, <1>5 DEF Examine, EndCopy, CheckPackages, IInv, CheckinTypeOK
<1>7. CheckinTypeOK' /\ Running'
    BY <1>1, <1>2, <1>3, <1>6, GoesOn DEF IInv, CheckinTypeOK, Place
<1>8. ArchiveTypeOK' /\ PublishedWhole'
    BY <1>2, ArchiveStays DEF IInv, ArchiveTypeOK
<1>9. pool' = pool
    BY <1>2 DEF store
<1>10. Included'
    <2>1. CASE Examine
        <3>1. /\ place = "read" /\ place' = "copy" /\ rest' = {f \in Entries : Absent(f)}
              /\ \A f \in Entries : Absent(f) \/ Present(f, Lists[changes][f])
            BY <1>4, <2>1 DEF Examine, Keep, Addable
        <3>2. taken' \subseteq Entries'
            BY <1>1, <1>5, <3>1 DEF IInv, Included
        <3> QED
            BY <1>1, <1>5, <1>9, <3>1, <3>2 DEF Included, Entered, Present, Absent
    <2>2. CASE EndCopy
        BY <1>1, <1>5, <1>9, <2>2 DEF EndCopy, Keep, Included, Entered, IInv, Present, Absent
    <2>3. CASE CheckPackages
        BY <1>1, <1>5, <1>9, <2>3 DEF CheckPackages, Keep, Included, Entered, IInv, Present, Absent, Complete
    <2> QED
        BY <2>1, <2>2, <2>3
<1> QED
    BY <1>4, <1>7, <1>8, <1>10, OnlyInclude DEF IncludeInv

LEMMA CopyEntryStep ==
    ASSUME IInv, NEW f \in Names, CopyEntry(f), UNCHANGED queue
    PROVE  IInv'
<1>1. /\ place = "copy" /\ place' = "copy" /\ f \in rest /\ rest' = rest \ {f}
      /\ incoming[f] = Lists[changes][f] /\ AddFile(f, incoming[f])
      /\ UNCHANGED <<changes, target, delete, taken, missed, incoming, morgue, logdir, packages,
                     tracked, command, failed, signalled, faults>>
    BY DEF CopyEntry, Keep
<1>2. changes # None
    BY <1>1, PlaceTaken
<1>3. step = "off" /\ changes \in Uploads
    BY <1>1, <1>2, WhoIncludes
<1>4. /\ rest \subseteq Entries /\ Absent(f) /\ taken \subseteq Entries
      /\ \A g \in Entries : IF g \in rest THEN Absent(g) ELSE Present(g, Lists[changes][g])
    BY <1>1 DEF IInv, Included
<1>5. incoming[f] \in Contents /\ Entries' = Entries
    BY <1>1, <1>3, <1>4, EntryFacts DEF Entries
<1>6. /\ pool' \in [Names -> Contents \cup {None}] /\ fresh' \cup dropped' \subseteq Names
      /\ pool'[f] = incoming[f] /\ \A g : g # f => pool'[g] = pool[g]
      /\ PublishedWhole'
    BY <1>1, <1>4, <1>5, PoolGrows DEF IInv
<1>7. ArchiveTypeOK'
    BY <1>1, <1>6 DEF IInv, ArchiveTypeOK
<1>8. CheckinTypeOK' /\ Running'
    BY <1>1, <1>2, GoesOn DEF IInv, CheckinTypeOK, Place
<1>9. Included'
    BY <1>1, <1>4, <1>5, <1>6 DEF Included, Entered, Present, Absent
<1> QED
    BY <1>3, <1>6, <1>7, <1>8, <1>9, OnlyInclude DEF IncludeInv

LEMMA IncludeChangesFileStep ==
    ASSUME IInv, IncludeChangesFile, UNCHANGED queue
    PROVE  IInv'
<1>1. /\ place = "changesfile" /\ place' = "add" /\ rest' = Entries
      /\ IncludesChanges => incoming[changes] # None
      /\ IF IncludesChanges /\ Absent(changes) THEN AddFile(changes, incoming[changes])
         ELSE UNCHANGED <<pool, fresh, dropped>>
      /\ UNCHANGED <<changes, target, delete, taken, missed, incoming, morgue, logdir, packages,
                     tracked, command, failed, signalled, faults>>
    BY DEF IncludeChangesFile, ChangesFit, Keep
<1>2. changes # None
    BY <1>1, PlaceTaken
<1>3. step = "off" /\ changes \in Uploads /\ changes \in Names
    BY <1>1, <1>2, WhoIncludes
<1>4. Entries' = Entries /\ Entries \subseteq Names /\ changes \notin Entries
    BY <1>1, <1>3, EntryFacts DEF Entries
<1>5. IncludesChanges' = IncludesChanges
    BY <1>1 DEF IncludesChanges
<1>6. /\ pool' \in [Names -> Contents \cup {None}] /\ fresh' \cup dropped' \subseteq Names
      /\ PublishedWhole' /\ (IncludesChanges => pool'[changes] # None)
      /\ \A g \in Names : pool[g] # None => pool'[g] = pool[g]
    <2>1. CASE IncludesChanges /\ Absent(changes)
        <3>1. PICK f \in Names : f = changes
            BY <1>3
        <3>2. PICK c \in Contents : c = incoming[changes]
            BY <1>1, <1>3, <2>1 DEF IInv, ArchiveTypeOK
        <3>3. Absent(f) /\ AddFile(f, c)
            BY <1>1, <2>1, <3>1, <3>2
        <3>4. /\ pool' \in [Names -> Contents \cup {None}] /\ fresh' \cup dropped' \subseteq Names
              /\ pool'[f] = c /\ \A g : g # f => pool'[g] = pool[g]
              /\ PublishedWhole'
            BY <1>1, <3>3, PoolGrows DEF IInv
        <3> QED
            BY <3>1, <3>3, <3>4 DEF Absent
    <2>2. CASE ~(IncludesChanges /\ Absent(changes))
        BY <1>1, <2>2 DEF IInv, ArchiveTypeOK, PublishedWhole, Absent
    <2> QED
        BY <2>1, <2>2
<1>7. ArchiveTypeOK'
    BY <1>1, <1>6 DEF IInv, ArchiveTypeOK
<1>8. CheckinTypeOK' /\ Running'
    BY <1>1, <1>2, <1>4, GoesOn DEF IInv, CheckinTypeOK, Place
<1>9. Included'
    <2>1. /\ \A g \in Entries : Present(g, Lists[changes][g]) /\ Lists[changes][g] \in Contents
          /\ \A m \in Entries : Master(m) => m \in DOMAIN Inside /\ Complete(m)
          /\ taken \subseteq Entries
        BY <1>1, <1>3, EntryFacts DEF IInv, Included, Entered
    <2>2. ASSUME NEW g \in Entries PROVE pool'[g] = Lists[changes][g]
        BY <1>4, <1>6, <2>1 DEF Present
    <2>3. ASSUME NEW m \in Entries, Master(m), NEW g \in DOMAIN Inside[m].needs
          PROVE  pool'[g] = Inside[m].needs[g]
        <3>1. m \in DOMAIN Inside /\ pool[g] = Inside[m].needs[g]
            BY <2>1, <2>3 DEF Complete, Present
        <3>2. g \in Names /\ Inside[m].needs[g] \in Contents
            BY <2>3, <3>1, PackageFacts
        <3> QED
            BY <1>6, <3>1, <3>2
    <2>4. place' = "add" /\ rest' = Entries' /\ taken' \subseteq Entries' /\ changes' = changes
        BY <1>1, <1>4, <2>1
    <2>5. IncludesChanges' => pool'[changes] # None
        BY <1>5, <1>6
    <2> QED
        BY <1>4, <2>2, <2>3, <2>4, <2>5 DEF Included, Entered, Present, Absent, Complete
<1>10. IncludeInv'
    BY <1>6, <1>7, <1>8, <1>9 DEF IncludeInv
<1> QED
    BY <1>3, <1>10, OnlyInclude

LEMMA AllThere ==
    ASSUME NEW m \in DOMAIN Inside, pool[m] = Inside[m].self, Complete(m)
    PROVE  AllPresent(m)
<1>1. /\ DOMAIN FilesOf(m) = {m} \cup DOMAIN Inside[m].needs /\ FilesOf(m)[m] = Inside[m].self
      /\ \A f \in DOMAIN Inside[m].needs : f # m => FilesOf(m)[f] = Inside[m].needs[f]
    BY PackageFacts
<1>2. ASSUME NEW f \in DOMAIN FilesOf(m) PROVE pool[f] = FilesOf(m)[f]
    <2>1. CASE f = m
        BY <1>1, <2>1
    <2>2. CASE f # m
        BY <1>1, <2>2 DEF Complete, Present
    <2> QED
        BY <2>1, <2>2
<1> QED
    BY <1>2 DEF AllPresent, Present

(* A package or a further file of the upload *)
LEMMA AddEntryStep ==
    ASSUME IInv, NEW f \in Names, AddEntry(f), UNCHANGED queue
    PROVE  IInv'
<1>1. /\ place = "add" /\ place' = "add" /\ f \in rest /\ rest' = rest \ {f}
      /\ UNCHANGED <<changes, target, delete, incoming, morgue, logdir, pool, fresh, tracked,
                     command, failed, signalled, faults>>
    BY DEF AddEntry, Keep
<1>2. changes # None
    BY <1>1, PlaceTaken
<1>3. step = "off" /\ changes \in Uploads /\ target \in Distributions
    BY <1>1, <1>2, WhoIncludes
<1>4. /\ rest \subseteq Entries /\ taken \subseteq Entries
      /\ \A g \in Entries : Present(g, Lists[changes][g])
      /\ \A m \in Entries : Master(m) => Complete(m)
      /\ IncludesChanges => ~Absent(changes)
    BY <1>1 DEF IInv, Included, Entered
<1>5. Entries \subseteq Names /\ Entries' = Entries
    BY <1>1, <1>3, EntryFacts DEF Entries
<1>6. IncludesChanges' = IncludesChanges
    BY <1>1 DEF IncludesChanges
<1>7. /\ packages' \in [Distributions -> [Packages -> {None} \cup {Placed(n) : n \in DOMAIN Inside}]]
      /\ dropped' \subseteq Names /\ PublishedWhole'
      /\ taken' \subseteq Entries /\ missed' \in BOOLEAN
    <2>1. CASE Master(f)
        <3>1. f \in DOMAIN Inside /\ Lists[changes][f] = Inside[f].self
            BY <1>1, <1>3, <1>4, <2>1, EntryFacts
        <3>2. AllPresent(f)
            BY <1>1, <1>4, <2>1, <3>1, AllThere DEF Present
        <3>3. PICK d \in Distributions : d = target
            BY <1>3
        <3>4. AddPackage(d, f) /\ taken' = taken /\ missed' \in BOOLEAN
            BY <2>1, <3>3 DEF AddEntry, IInv, CheckinTypeOK, Older, Equal
        <3> QED
            BY <1>1, <1>4, <3>1, <3>2, <3>4, PackageComesIn DEF IInv
    <2>2. CASE ~Master(f)
        <3>1. UNCHANGED <<packages, dropped, missed>> /\ taken' \subseteq taken \cup {f}
            BY <2>2 DEF AddEntry
        <3>2. PublishedWhole'
            BY <1>1, <3>1 DEF IInv, PublishedWhole
        <3> QED
            BY <1>1, <1>4, <3>1, <3>2 DEF IInv, ArchiveTypeOK, CheckinTypeOK
    <2> QED
        BY <2>1, <2>2
<1>8. ArchiveTypeOK'
    BY <1>1, <1>7 DEF IInv, ArchiveTypeOK
<1>9. CheckinTypeOK' /\ Running'
    <2>1. rest' \cup taken' \subseteq Names
        BY <1>1, <1>4, <1>5, <1>7
    <2> QED
        BY <1>1, <1>2, <1>7, <2>1, GoesOn DEF Place
<1>10. Included'
    BY <1>1, <1>4, <1>5, <1>6, <1>7 DEF Included, Entered, Present, Absent, Complete
<1>11. IncludeInv'
    BY <1>7, <1>8, <1>9, <1>10 DEF IncludeInv
<1> QED
    BY <1>3, <1>11, OnlyInclude

LEMMA SaveTrackingStep ==
    ASSUME IInv, SaveTracking, UNCHANGED queue
    PROVE  IInv'
<1> DEFINE kept == taken \cup IF IncludesChanges THEN {changes} ELSE {}
<1>1. /\ place = "add" /\ place' = "delchanges"
      /\ tracked' = [tracked EXCEPT ![target] =
                        @ \cup taken \cup IF IncludesChanges THEN {changes} ELSE {}]
      /\ UNCHANGED <<changes, target, delete, rest, taken, missed, incoming, morgue, logdir,
                     pool, fresh, dropped, packages, command, failed, signalled, faults>>
    BY DEF SaveTracking, Keep
<1>2. changes # None
    BY <1>1, PlaceTaken
<1>3. step = "off" /\ changes \in Uploads /\ target \in Distributions /\ changes \in Names
    BY <1>1, <1>2, WhoIncludes
<1>4. /\ taken \subseteq Entries /\ \A g \in Entries : Present(g, Lists[changes][g])
      /\ IncludesChanges => ~Absent(changes)
    BY <1>1 DEF IInv, Included, Entered
<1>5. /\ Entries \subseteq Names /\ Entries' = Entries
      /\ \A g \in Entries : Lists[changes][g] \in Contents
    BY <1>1, <1>3, EntryFacts DEF Entries
<1>6. kept \subseteq Names /\ \A f \in kept : pool[f] # None
    BY <1>3, <1>4, <1>5 DEF Present, Absent
<1>7. /\ tracked' \in [Distributions -> SUBSET Names]
      /\ \A d \in Distributions : tracked'[d] \subseteq tracked[d] \cup kept
    <2>1. tracked[target] \cup taken \cup (IF IncludesChanges THEN {changes} ELSE {})
              = tracked[target] \cup kept
        OBVIOUS
    <2>2. tracked \in [Distributions -> SUBSET Names]
        BY DEF IInv, ArchiveTypeOK
    <2>3. tracked' = [tracked EXCEPT ![target] = tracked[target] \cup kept]
        BY <1>1, <2>1
    <2> HIDE DEF kept
    <2> QED
        BY <1>3, <1>6, <2>2, <2>3
<1>8. PublishedWhole'
    <2> HIDE DEF kept
    <2> QED
        BY <1>1, <1>6, <1>7 DEF IInv, PublishedWhole
<1>9. ArchiveTypeOK'
    BY <1>1, <1>7 DEF IInv, ArchiveTypeOK
<1>10. CheckinTypeOK' /\ Running'
    BY <1>1, <1>2, GoesOn DEF IInv, CheckinTypeOK, Place
<1>11. Included'
    BY <1>1, <1>4, <1>5 DEF Included, Entered, Present
<1>12. IncludeInv'
    BY <1>8, <1>9, <1>10, <1>11 DEF IncludeInv
<1> QED
    BY <1>3, <1>12, OnlyInclude

(* Only the directory changes. *)
LEMMA Deletes ==
    ASSUME IInv, UNCHANGED queue,
           DeleteChanges \/ \E f \in Names : DeleteLeftover(f) \/ DeleteIncluded(f)
    PROVE  IInv'
<1>1. /\ UNCHANGED <<changes, target, delete, taken, missed, morgue, logdir, store, command,
                     signalled, faults>>
      /\ place \in {"delchanges", "delfiles", "delparts"} /\ place' \in {"delfiles", "delparts"}
      /\ place = "delparts" <=> place' = "delparts"
    BY DEF DeleteChanges, DeleteLeftover, DeleteIncluded, Keep
<1>2. changes # None
    BY <1>1, PlaceTaken
<1>3. step = "off" /\ (place # "delparts" => changes \in Uploads)
    BY <1>1, <1>2, WhoIncludes DEF IInv, Running
<1>4. incoming' \in [Names -> Contents \cup {None}] /\ failed' \in BOOLEAN
    <2>1. \/ incoming' = incoming
          \/ \E n : incoming' = [incoming EXCEPT ![n] = None]
        BY DEF DeleteChanges, DeleteLeftover, DeleteIncluded, Unlink
    <2>2. failed' \in BOOLEAN
        BY DEF DeleteChanges, DeleteLeftover, DeleteIncluded, IInv, ArchiveTypeOK
    <2> QED
        BY <2>1, <2>2 DEF IInv, ArchiveTypeOK
<1>5. ArchiveTypeOK' /\ PublishedWhole'
    BY <1>1, <1>4, ArchiveStays DEF IInv, ArchiveTypeOK
<1>6. Entries' = Entries /\ pool' = pool
    BY <1>1 DEF Entries, store
<1>7. changes \in Uploads => Entries \subseteq Names
    BY EntryFacts
<1>8. rest' \subseteq Names /\ (place # "delparts" => rest' \subseteq Entries)
    <2>1. CASE DeleteChanges
        <3>1. place = "delchanges" /\ rest' \subseteq Entries
            BY <2>1 DEF DeleteChanges
        <3> QED
            BY <1>3, <1>7, <3>1
    <2>2. CASE \E f \in Names : DeleteLeftover(f) \/ DeleteIncluded(f)
        <3>1. rest' \subseteq rest /\ place \in {"delfiles", "delparts"}
            BY <2>2 DEF DeleteLeftover, DeleteIncluded
        <3> QED
            BY <3>1 DEF IInv, CheckinTypeOK, Included
    <2> QED
        BY <2>1, <2>2
<1>9. CheckinTypeOK' /\ Running'
    <2>1. rest' \cup taken' \subseteq Names /\ missed' \in BOOLEAN
        BY <1>1, <1>8 DEF IInv, CheckinTypeOK
    <2> QED
        BY <1>1, <1>2, <2>1, GoesOn DEF Place
<1>10. Included'
    BY <1>1, <1>6, <1>8 DEF IInv, Included, Entered, Present
<1>11. IncludeInv'
    BY <1>5, <1>9, <1>10 DEF IncludeInv
<1> QED
    BY <1>3, <1>11, OnlyInclude

LEMMA PreIncludeStep ==
    ASSUME IInv, PreInclude, UNCHANGED queue
    PROVE  IInv'
<1>1. /\ place = "package" /\ place' = "parts" /\ rest' = DOMAIN Inside[changes].needs
      /\ incoming[changes] = Inside[changes].self
      /\ Present(changes, incoming[changes]) \/ Absent(changes)
      /\ IF Absent(changes) THEN AddFile(changes, incoming[changes])
         ELSE UNCHANGED <<pool, fresh, dropped>>
      /\ UNCHANGED <<changes, target, delete, taken, missed, incoming, morgue, logdir, packages,
                     tracked, command, failed, signalled, faults>>
    BY DEF PreInclude, Keep
<1>2. changes # None
    BY <1>1, PlaceTaken
<1>3. step = "off" /\ changes \in DOMAIN Inside
    BY <1>1, <1>2, WhoIncludes
<1>4. PICK m \in DOMAIN Inside : m = changes
    BY <1>3
<1>5. m \in Names /\ Inside[m].self \in Contents /\ DOMAIN Inside[m].needs \subseteq Names
    BY PackageFacts
<1>6. /\ pool' \in [Names -> Contents \cup {None}] /\ fresh' \cup dropped' \subseteq Names
      /\ PublishedWhole' /\ pool'[m] = Inside[m].self
    <2>1. CASE Absent(m)
        BY <1>1, <1>4, <1>5, <2>1, PoolGrows DEF IInv
    <2>2. CASE ~Absent(m)
        BY <1>1, <1>4, <2>2 DEF IInv, ArchiveTypeOK, PublishedWhole, Present
    <2> QED
        BY <2>1, <2>2
<1>7. ArchiveTypeOK'
    BY <1>1, <1>6 DEF IInv, ArchiveTypeOK
<1>8. CheckinTypeOK' /\ Running'
    BY <1>1, <1>2, <1>4, <1>5, GoesOn DEF IInv, CheckinTypeOK, Place
<1>9. Included'
    BY <1>1, <1>4, <1>6 DEF Included, Entered, Present
<1>10. IncludeInv'
    BY <1>6, <1>7, <1>8, <1>9 DEF IncludeInv
<1> QED
    BY <1>3, <1>10, OnlyInclude

LEMMA IncludePartStep ==
    ASSUME IInv, NEW f \in Names, IncludePart(f), UNCHANGED queue
    PROVE  IInv'
<1>1. /\ place = "parts" /\ place' = "parts" /\ f \in rest /\ rest' = rest \ {f}
      /\ UNCHANGED <<changes, target, delete, taken, missed, incoming, morgue, logdir, packages,
                     tracked, command, failed, signalled, faults>>
    BY DEF IncludePart, Keep
<1>2. changes # None
    BY <1>1, PlaceTaken
<1>3. step = "off" /\ changes \in DOMAIN Inside
    BY <1>1, <1>2, WhoIncludes
<1>4. PICK m \in DOMAIN Inside : m = changes
    BY <1>3
<1>5. /\ m \in Names /\ Inside[m].self \in Contents /\ DOMAIN Inside[m].needs \subseteq Names
      /\ \A g \in DOMAIN Inside[m].needs : Inside[m].needs[g] \in Contents
    BY PackageFacts
<1>6. /\ pool[m] = Inside[m].self /\ rest \subseteq DOMAIN Inside[m].needs
      /\ \A g \in DOMAIN Inside[m].needs \ rest : pool[g] = Inside[m].needs[g]
    BY <1>1, <1>4 DEF IInv, Included, Present
<1>7. PICK c \in Contents : c = Inside[m].needs[f]
    BY <1>1, <1>5, <1>6
<1>8. \/ pool[f] = c /\ UNCHANGED <<pool, fresh, dropped>>
      \/ Absent(f) /\ AddFile(f, c)
    BY <1>4, <1>7 DEF IncludePart, Present
<1>9. /\ pool' \in [Names -> Contents \cup {None}] /\ fresh' \cup dropped' \subseteq Names
      /\ PublishedWhole' /\ pool'[f] = c /\ \A g : pool[g] # None => pool'[g] = pool[g]
    <2>1. CASE pool[f] = c /\ UNCHANGED <<pool, fresh, dropped>>
        BY <1>1, <2>1 DEF IInv, ArchiveTypeOK, PublishedWhole
    <2>2. CASE Absent(f) /\ AddFile(f, c)
        BY <1>1, <2>2, PoolGrows DEF IInv, Absent
    <2> QED
        BY <1>8, <2>1, <2>2
<1>10. ArchiveTypeOK'
    BY <1>1, <1>9 DEF IInv, ArchiveTypeOK
<1>11. CheckinTypeOK' /\ Running'
    BY <1>1, <1>2, GoesOn DEF IInv, CheckinTypeOK, Place
<1>12. Included'
    <2>1. pool'[m] = Inside[m].self
        BY <1>5, <1>6, <1>9
    <2>2. \A g \in DOMAIN Inside[m].needs \ rest' : pool'[g] = Inside[m].needs[g]
        BY <1>1, <1>5, <1>6, <1>7, <1>9
    <2> QED
        BY <1>1, <1>4, <1>6, <2>1, <2>2 DEF Included, Entered, Present
<1>13. IncludeInv'
    BY <1>9, <1>10, <1>11, <1>12 DEF IncludeInv
<1> QED
    BY <1>3, <1>13, OnlyInclude

LEMMA AddIncludedStep ==
    ASSUME IInv, AddIncluded, UNCHANGED queue
    PROVE  IInv'
<1>1. /\ place = "parts" /\ place' = "delparts" /\ rest = {} /\ AddPackage(target, changes)
      /\ rest' \in {DOMAIN FilesOf(changes), {}}
      /\ UNCHANGED <<changes, target, delete, taken, missed, incoming, morgue, logdir, pool, fresh,
                     tracked, command, failed, signalled, faults>>
    BY DEF AddIncluded, Keep
<1>2. changes # None
    BY <1>1, PlaceTaken
<1>3. step = "off" /\ changes \in DOMAIN Inside /\ target \in Distributions
    BY <1>1, <1>2, WhoIncludes
<1>4. PICK m \in DOMAIN Inside : m = changes
    BY <1>3
<1>5. PICK d \in Distributions : d = target
    BY <1>3
<1>6. AllPresent(m) /\ DOMAIN FilesOf(m) \subseteq Names
    <2>1. pool[m] = Inside[m].self /\ Complete(m)
        BY <1>1, <1>4 DEF IInv, Included, Present, Complete
    <2> QED
        BY <2>1, AllThere, PackageFacts
<1>7. /\ packages' \in [Distributions -> [Packages -> {None} \cup {Placed(n) : n \in DOMAIN Inside}]]
      /\ dropped' \subseteq Names /\ PublishedWhole'
    BY <1>1, <1>4, <1>5, <1>6, PackageComesIn DEF IInv
<1>8. ArchiveTypeOK'
    BY <1>1, <1>7 DEF IInv, ArchiveTypeOK
<1>9. CheckinTypeOK' /\ Running'
    <2>1. rest' \cup taken' \subseteq Names /\ missed' \in BOOLEAN
        BY <1>1, <1>4, <1>6 DEF IInv, CheckinTypeOK
    <2> QED
        BY <1>1, <1>2, <2>1, GoesOn DEF Place
<1>10. Included'
    BY <1>1 DEF Included, Entered
<1>11. IncludeInv'
    BY <1>7, <1>8, <1>9, <1>10 DEF IncludeInv
<1> QED
    BY <1>3, <1>11, OnlyInclude

LEMMA IncludeStops ==
    ASSUME IInv, IncludeFails \/ IncludeBreaks, UNCHANGED queue
    PROVE  IInv'
<1>1. /\ failed' = TRUE /\ place' = "off" /\ rest' = {} /\ taken' = {} /\ missed' = FALSE
      /\ UNCHANGED <<changes, target, delete, incoming, morgue, logdir, store, command, signalled>>
      /\ place # "off"
    BY DEF IncludeFails, IncludeBreaks, Refuses
<1>2. faults' \in 0..MaxFaults
    BY FaultTyped DEF IncludeFails, IncludeBreaks, IInv, ArchiveTypeOK
<1>3. changes # None
    BY <1>1, PlaceTaken
<1>4. step = "off"
    BY <1>3, WhoIncludes
<1>5. ArchiveTypeOK' /\ PublishedWhole'
    BY <1>1, <1>2, ArchiveStays DEF IInv, ArchiveTypeOK
<1>6. CheckinTypeOK' /\ Running'
    BY <1>1, <1>3, GoesOn DEF Place
<1>7. Included'
    BY <1>1 DEF Included, Entered
<1>8. IncludeInv'
    BY <1>5, <1>6, <1>7 DEF IncludeInv
<1> QED
    BY <1>4, <1>8, OnlyInclude

LEMMA IncludeEnds ==
    ASSUME IInv, EndInclude \/ EndFailed \/ CrashInclude, UNCHANGED queue
    PROVE  IInv'
<1>1. /\ EndCommand \/ Die
      /\ place' = "off" /\ changes' = None /\ target' = None /\ delete' = 0
      /\ rest' = {} /\ taken' = {} /\ missed' = FALSE /\ changes # None
    BY PlaceTaken DEF EndInclude, EndFailed, CrashInclude, Leave, D_COPY
<1>2. step = "off"
    BY <1>1, WhoIncludes
<1>3. ArchiveTypeOK' /\ PublishedWhole' /\ command' = "none"
    BY <1>1, CommandEnds, ProcessDies DEF IInv
<1>4. UNCHANGED <<step, rule, processed>>
    BY DEF queue
<1>5. Running'
    BY <1>1, <1>2, <1>3, <1>4 DEF IInv, Running
<1>6. CheckinTypeOK'
    <2>1. /\ 0 \in 0..2
          /\ delete' = 0 /\ missed' \in BOOLEAN /\ rest' \cup taken' = {}
        <3>1. 0 \in 0..2
            OBVIOUS
        <3>2. missed' \in BOOLEAN /\ rest' \cup taken' = {} /\ delete' = 0
            BY <1>1, Zenon
        <3> QED
            BY <3>1, <3>2
    <2>2. changes' \in Names \cup {None} /\ target' \in Distributions \cup {None} /\ place' \in Place
        BY <1>1 DEF Place
    <2> QED
        BY <2>1, <2>2 DEF CheckinTypeOK
<1>7. Included'
    BY <1>1 DEF Included, Entered
<1>8. IncludeInv'
    BY <1>3, <1>5, <1>6, <1>7 DEF IncludeInv
<1> QED
    BY <1>2, <1>8, OnlyInclude

-----------------------------------------------------------------------------
(* Every step                                                              *)

(* Neither command takes a step. *)
LEMMA BothWait ==
    ASSUME IInv, ArchiveTypeOK', UNCHANGED <<store, command, queue, including>>
    PROVE  IInv'
<1>1. /\ UNCHANGED <<rule, step, listing, left, processed, deleting>>
      /\ UNCHANGED <<upload, temp, used, into, at, todo, logfiles, skipped>>
      /\ UNCHANGED <<place, changes, target, delete, rest, taken, missed>>
      /\ UNCHANGED <<pool, packages>>
    BY DEF queue, candidate, including, store
<1>2. PublishedWhole'
    BY StoreStays DEF IInv
<1>3. QueueTypeOK' /\ CheckinTypeOK' /\ Running'
    BY <1>1 DEF IInv, QueueTypeOK, CheckinTypeOK, Running
<1>4. Goals' = Goals /\ Extras' = Extras /\ Pairs' = Pairs /\ Waiting' = Waiting
    BY <1>1, SameGoals DEF Extras, Pairs, Waiting
<1>5. \A d, m : Has(d, m)' = Has(d, m) /\ AllPresent(m)' = AllPresent(m)
    BY <1>1 DEF Has, AllPresent, Present
<1>6. Candidate' /\ Arrived'
    BY <1>1, <1>4, <1>5 DEF IInv, Candidate, Arrived
<1>7. Prepared'
    BY <1>1, SamePreparation DEF IInv, Prepared
<1>8. Linking' /\ Linked'
    BY <1>1, <1>4, <1>5 DEF IInv, Linking, Linked, Present, Absent
<1>9. Included'
    <2>1. /\ Entries' = Entries /\ IncludesChanges' = IncludesChanges
          /\ \A m : Complete(m)' = Complete(m)
        BY <1>1 DEF Entries, IncludesChanges, Complete, Present
    <2> QED
        BY <1>1, <2>1 DEF IInv, Included, Present, Absent
<1>10. ProcessedAreIn'
    BY <1>1, MarksKept DEF IInv
<1> QED
    BY <1>2, <1>3, <1>6, <1>7, <1>8, <1>9, <1>10 DEF IInv

(* A signal comes, or somebody writes to the directory. *)
LEMMA OutsideStep ==
    ASSUME IInv, Signal \/ \E n \in Names, c \in Contents \cup {None} : Put(n, c),
           UNCHANGED <<queue, including>>
    PROVE  IInv'
<1>1. UNCHANGED <<store, command, morgue, logdir, failed>>
    BY DEF Signal, Put
<1>2. incoming' \in [Names -> Contents \cup {None}] /\ signalled' \in BOOLEAN
    <2>1. CASE Signal
        BY <2>1 DEF Signal, IInv, ArchiveTypeOK
    <2>2. CASE \E n \in Names, c \in Contents \cup {None} : Put(n, c)
        BY <2>2 DEF Put, IInv, ArchiveTypeOK
    <2> QED
        BY <2>1, <2>2
<1>3. faults' \in 0..MaxFaults
    BY FaultTyped DEF Signal, Put, IInv
<1>4. ArchiveTypeOK'
    BY <1>1, <1>2, <1>3, ArchiveStays DEF IInv, ArchiveTypeOK
<1> QED
    BY <1>1, <1>4, BothWait

LEMMA Stuttering ==
    ASSUME IInv, UNCHANGED vars
    PROVE  IInv'
<1>1. UNCHANGED <<archive, queue, including>>
    BY DEF vars
<1>2. UNCHANGED <<store, incoming, morgue, logdir, command, failed, signalled, faults>>
    BY <1>1 DEF archive
<1>3. ArchiveTypeOK'
    BY <1>2, ArchiveStays DEF IInv, ArchiveTypeOK
<1> QED
    BY <1>1, <1>2, <1>3, BothWait

LEMMA InitIInv == Init => IInv
<1> SUFFICES ASSUME Init PROVE IInv
    OBVIOUS
<1>1. /\ incoming \in Beginnings /\ morgue = {} /\ logdir = {}
      /\ pool = [n \in Names |-> None] /\ fresh = {} /\ dropped = {}
      /\ packages = [d \in Distributions |-> [p \in Packages |-> None]]
      /\ tracked = [d \in Distributions |-> {}]
      /\ command = "none" /\ failed = FALSE /\ signalled = FALSE /\ faults = 0
    BY DEF Init, ArchiveInit
<1>2. /\ rule = None /\ step = "off" /\ listing = {} /\ left = {} /\ processed = {} /\ deleting = {}
      /\ upload = None /\ temp = NoFunction /\ used = {} /\ into = {} /\ at = None
      /\ todo = {} /\ logfiles = {} /\ skipped = {}
    BY DEF Init, QueueInit
<1>3. /\ place = "off" /\ changes = None /\ target = None /\ delete = 0
      /\ rest = {} /\ taken = {} /\ missed = FALSE
    BY DEF Init, CheckinInit, D_COPY
<1>4. ArchiveTypeOK
    <2>1. incoming \in [Names -> Contents \cup {None}]
        BY <1>1
    <2>2. /\ pool \in [Names -> Contents \cup {None}]
          /\ packages \in [Distributions -> [Packages -> {None} \cup {Placed(m) : m \in DOMAIN Inside}]]
          /\ tracked \in [Distributions -> SUBSET Names]
        BY <1>1
    <2>3. /\ morgue \subseteq Names \X Contents /\ logdir \subseteq Names
          /\ fresh \cup dropped \subseteq Names
        BY <1>1
    <2>4. /\ command \in {"none", "processincoming", "include", "includepackage"}
          /\ failed \in BOOLEAN /\ signalled \in BOOLEAN /\ faults \in 0..MaxFaults
        <3>1. MaxFaults \in Nat
            OBVIOUS
        <3>2. 0 \in 0..MaxFaults
            BY <3>1
        <3> QED
            BY <1>1, <3>2
    <2> QED
        BY <2>1, <2>2, <2>3, <2>4 DEF ArchiveTypeOK
<1>5. QueueTypeOK
    BY <1>2 DEF QueueTypeOK, Step, NoFunction
<1>6. CheckinTypeOK
    <2>1. 0 \in 0..2 /\ FALSE \in BOOLEAN
        OBVIOUS
    <2>2. delete \in 0..2 /\ missed \in BOOLEAN
        BY <1>3, <2>1
    <2> QED
        BY <1>3, <2>2 DEF CheckinTypeOK, Place
<1>7. Running
    BY <1>1, <1>2, <1>3 DEF Running
<1>8. Candidate /\ Prepared /\ Linking /\ Linked /\ Arrived
    BY <1>2 DEF Candidate, Prepared, Linking, Linked, Arrived
<1>9. Included
    BY <1>3 DEF Included, Entered
<1>10. PublishedWhole
    BY <1>1 DEF PublishedWhole
<1>11. ProcessedAreIn
    BY <1>2 DEF ProcessedAreIn
<1> QED
    BY <1>4, <1>5, <1>6, <1>7, <1>8, <1>9, <1>10, <1>11 DEF IInv

LEMMA IncomingNext ==
    ASSUME IInv, IncomingStep \/ IncomingFault, UNCHANGED including
    PROVE  IInv'
<1>1. CASE \E u \in Uploads : Incomplete(u) \/ Refused(u) \/ Accepted(u)
    BY <1>1, PassedOver, AcceptedStep
<1>2. CASE \E f \in Names : ReadPackage(f) \/ PrepareFile(f) \/ CopyLog(f) \/ AddPart(f)
    BY <1>2, ReadPackageStep, PrepareFileStep, CopyLogStep, AddPartStep
<1>3. CASE \E f, g \in Names : LinkFile(f, g)
    BY <1>3, LinkFileStep
<1>4. CASE StartPrepare \/ StartLogs
    BY <1>4, StartPrepareStep, StartLogsStep
<1>5. CASE CannotUse \/ HasUnusedFiles \/ CheckFails \/ Interrupted \/ AddFails
    BY <1>5, FailureSteps
<1>6. CASE EndLogs \/ NothingToDo \/ CheckSucceeds
    BY <1>6, EndLogsStep, NothingToDoStep, CheckSucceedsStep
<1>7. CASE RunHooks \/ EndLink \/ LinkLogs
    BY <1>7, RunHooksStep, EndLinkStep, LinkLogsStep
<1>8. CASE \E d \in Distributions : StartInto(d)
    BY <1>8, StartIntoStep
<1>9. CASE FinishInto \/ Added
    BY <1>9, FinishIntoStep, AddedStep
<1>10. CASE StartClean \/ \E n \in Names : CleanFile(n)
    BY <1>10, StartCleanStep, CleanFileStep
<1>11. CASE EndProcessing \/ CrashProcessing
    BY <1>11, ProcessingEnds
<1> QED
    BY <1>1, <1>2, <1>3, <1>4, <1>5, <1>6, <1>7, <1>8, <1>9, <1>10, <1>11
       DEF IncomingStep, IncomingFault

LEMMA CheckinNext ==
    ASSUME IInv, CheckinStep \/ CheckinFault, UNCHANGED queue
    PROVE  IInv'
<1>1. CASE Examine \/ EndCopy \/ CheckPackages
    BY <1>1, Looks
<1>2. CASE \E f \in Names : CopyEntry(f) \/ AddEntry(f) \/ IncludePart(f)
    BY <1>2, CopyEntryStep, AddEntryStep, IncludePartStep
<1>3. CASE DeleteChanges \/ \E f \in Names : DeleteLeftover(f) \/ DeleteIncluded(f)
    BY <1>3, Deletes
<1>4. CASE PreInclude \/ AddIncluded \/ IncludeChangesFile \/ SaveTracking
    BY <1>4, PreIncludeStep, AddIncludedStep, IncludeChangesFileStep, SaveTrackingStep
<1>5. CASE IncludeFails \/ IncludeBreaks
    BY <1>5, IncludeStops
<1>6. CASE EndInclude \/ EndFailed \/ CrashInclude
    BY <1>6, IncludeEnds
<1> QED
    BY <1>1, <1>2, <1>3, <1>4, <1>5, <1>6 DEF CheckinStep, CheckinFault

LEMMA NextIInv == IInv /\ [Next]_vars => IInv'
<1> SUFFICES ASSUME IInv, [Next]_vars PROVE IInv'
    OBVIOUS
<1>1. CASE \E r \in Rules : ProcessIncoming(r) /\ UNCHANGED including
    BY <1>1, ProcessIncomingStep
<1>2. CASE (IncomingStep \/ IncomingFault) /\ UNCHANGED including
    BY <1>2, IncomingNext
<1>3. CASE /\ \E d \in Distributions, level \in DeleteLevels :
                 \/ \E u \in Uploads : Include(u, d, level)
                 \/ \E m \in DOMAIN Inside : IncludePackage(m, d, level)
           /\ UNCHANGED queue
    BY <1>3, IncludeStarts
<1>4. CASE (CheckinStep \/ CheckinFault) /\ UNCHANGED queue
    BY <1>4, CheckinNext
<1>5. CASE /\ Signal \/ \E n \in Names, c \in Contents \cup {None} : Put(n, c)
           /\ UNCHANGED <<queue, including>>
    BY <1>5, OutsideStep
<1>6. CASE UNCHANGED vars
    BY <1>6, Stuttering
<1> QED
    BY <1>1, <1>2, <1>3, <1>4, <1>5, <1>6 DEF Next

LEMMA Invariance == Spec => []IInv
BY InitIInv, NextIInv, PTL DEF Spec

-----------------------------------------------------------------------------
(* What the two commands promise                                           *)

(* The variables of the archive, of processincoming and of include stay in *)
(* their types, whatever the uploaders, signals and failures do.           *)
THEOREM TypesHold == Spec => []TypeOK
<1>1. IInv => TypeOK
    BY DEF IInv, TypeOK
<1> QED
    BY <1>1, Invariance, PTL

(* However uploads, replaced files, signals, failures and crashes come     *)
(* together, packages are in the distributions only with all their files   *)
(* in the pool as they were listed, and tracking names no missing file.    *)
THEOREM WholeIsPublished == Spec => []PublishedWhole
<1>1. IInv => PublishedWhole
    BY DEF IInv
<1> QED
    BY <1>1, Invariance, PTL

(* What candidate_add marked processed, and processincoming may therefore  *)
(* delete, is in every distribution it was for.                            *)
THEOREM MarkedAreIn == Spec => []ProcessedAreIn
<1>1. IInv => ProcessedAreIn
    BY DEF IInv
<1> QED
    BY <1>1, Invariance, PTL

(* include takes a listed file from the directory only while the pool has  *)
(* it as it was listed.                                                    *)
THEOREM MovedAreThere == Spec => MovedIsThere
<1>1. ASSUME IInv, NEW f \in Names \ Uploads, command = "include", place = "delfiles",
             f \in rest \ rest'
      PROVE  pool[f] = Lists[changes][f]
    <2>1. f \in Entries /\ \A g \in Entries : Present(g, Lists[changes][g])
        BY <1>1 DEF IInv, Included, Entered
    <2> QED
        BY <2>1 DEF Present
<1>2. IInv => [\A f \in Names \ Uploads :
                  command = "include" /\ place = "delfiles" /\ f \in rest \ rest'
                  => pool[f] = Lists[changes][f]]_vars
    BY <1>1
<1> QED
    BY <1>2, Invariance, PTL DEF MovedIsThere

=============================================================================
