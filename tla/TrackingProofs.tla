---------------------------- MODULE TrackingProofs ----------------------------
(***************************************************************************)
(* Proofs about Tracking for any sources, packages and files, all modes    *)
(* and options, and any number of failures and crashes.                    *)
(*                                                                         *)
(* A record is at times in tracking.db, at times in memory, and the        *)
(* references it holds are counted apart from both.  The inductive         *)
(* invariant speaks of the record of a source wherever it is, and of what  *)
(* a command has done to one of the three and not yet to the others.       *)
(***************************************************************************)
EXTENDS Tracking, FiniteSetTheorems, TLAPS

USE SourceAssumption

-----------------------------------------------------------------------------
(* The inductive invariant                                                 *)

(* The files of the record of s, in memory or on disk *)
Held(s) == DOMAIN CountsOf(s)

(* What the tidying at hand drops *)
ToDrop == IF job = "removetrack" THEN DOMAIN counts ELSE Untidy(counts)

JobPlaced ==
    /\ pc = "idle" => job = "none"
    /\ pc \in {"open", "drop"} => job \in {"source", "many"}
    /\ pc = "insert" => job \in {"source", "many", "retrack"}
    /\ pc = "finish" => job \in {"source", "many", "tidytracks"}
    /\ pc = "tidy" => job \in {"source", "many", "tidytracks", "removetrack", "removesrc"}
    /\ pc = "removesrc" => job = "removesrc"
    /\ pc \in {"reset", "retrack", "save"} => job = "retrack"
    /\ pc \in {"forget", "recreate"} => job = "rereference"

(* Which record is in memory, and what is left to do in which loop *)
MemoryPlaced ==
    /\ current = NoSource => counts = NoFiles
    /\ pc \in {"idle", "reset", "retrack", "forget", "recreate"} => current = NoSource
    /\ pc \in {"insert", "tidy", "save", "removesrc"} => current \in Source
    /\ pc \in {"reset", "recreate"} => work \subseteq DOMAIN tracks
    /\ pc \notin {"insert", "drop"} \/ job = "retrack" => old = NoPackage
    /\ pc = "drop" => old \in Package
    /\ pc = "idle" \/ job \in {"removetrack", "removesrc", "retrack", "rereference"} =>
          remembered = {}

(* The record in memory has at least the files it was loaded with. *)
LoadedKept == DOMAIN Loaded(current) \subseteq DOMAIN counts

TodoPlaced == pc = "tidy" => todo \subseteq ToDrop

Placed == JobPlaced /\ MemoryPlaced /\ LoadedKept /\ TodoPlaced

(* No file has more references of a track than one, and one that is not in *)
(* the record, or is tidied away already, has none.                        *)
AtMostOnce(s, f) ==
    \/ <<s, f>> \in orphaned
    \/ trackrefs[s][f] = 0
    \/ /\ f \in Held(s) /\ trackrefs[s][f] = 1
       /\ ~(pc = "tidy" /\ s = current /\ f \in ToDrop \ todo)

NoExcess == \A s \in Source : \A f \in FileKey : AtMostOnce(s, f)

Referenced(s, f) == trackrefs[s][f] > 0 \/ <<s, f>> \in exposed

HeldReferenced == \A s \in Source : \A f \in Held(s) : Referenced(s, f)

(* While all references are made anew, every record is known to lack them. *)
Rereferencing ==
    /\ pc \in {"forget", "recreate"} => \A s \in DOMAIN tracks : \A f \in DOMAIN tracks[s] :
          <<s, f>> \in exposed
    /\ pc = "forget" => \A s \in Source \ work : \A f \in FileKey : trackrefs[s][f] = 0
    /\ pc = "recreate" => \A s \in Source : \A f \in FileKey :
          IF s \in DOMAIN tracks \ work /\ f \in DOMAIN tracks[s]
          THEN trackrefs[s][f] = 1 \/ (trackrefs[s][f] = 0 /\ error)
          ELSE trackrefs[s][f] = 0

(* What a count lags behind: a package is in before its files are counted, *)
(* and its predecessor out before its files are not.                       *)
One(p, s, f) == IF SourceOf[p] = s /\ f \in Files[p] THEN 1 ELSE 0
Coming(s, f) == IF pc = "insert" /\ s = current /\ f \in todo THEN 1 ELSE 0
Going(s, f) == IF old = NoPackage THEN 0 ELSE One(old, s, f)

UsesOf(s, f) == IF f \in Held(s) THEN CountsOf(s)[f] ELSE 0

UsersIn(X, s, f) == {p \in X : SourceOf[p] = s /\ f \in Files[p]}

Balanced(s, f) ==
    UsesOf(s, f) + Coming(s, f) = Cardinality(UsersIn(packages, s, f)) + Going(s, f)

(* A whole record is about to go, whatever is listed. *)
Emptying == pc = "tidy" /\ job \in {"removetrack", "removesrc"}

CountsKnown ==
    ~outdated /\ ~Emptying => \A s \in Source \ misfiled : \A f \in FileKey : Balanced(s, f)

(* removesrc sets to zero what is still counted. *)
SourceCleared ==
    ~outdated /\ Emptying =>
        \A s \in Source \ misfiled : \A f \in FileKey :
            \/ UsesOf(s, f) = Cardinality(UsersIn(packages, s, f))
            \/ s = current /\ UsesOf(s, f) = 0

Retracking == pc \in {"retrack", "save"} \/ (pc = "insert" /\ job = "retrack")

ResetKnown ==
    /\ pc = "reset" \/ Retracking => outdated
    /\ pc = "reset" => \A s \in DOMAIN tracks \ work : \A f \in DOMAIN tracks[s] : tracks[s][f] = 0

(* While a retrack walks over the packages, those it was at are counted. *)
RetrackKnown ==
    Retracking =>
        /\ left \subseteq packages
        /\ \A s \in Source : \A f \in FileKey :
              UsesOf(s, f) + Coming(s, f) = Cardinality(UsersIn(packages \ left, s, f))

RemovalPlaced == pc = "removesrc" => left \subseteq {p \in packages : SourceOf[p] = current}

CountsInv ==
    CountsKnown /\ SourceCleared /\ RetrackKnown /\ RemovalPlaced

(* A record that is perhaps not tidy will be looked at again. *)
UntidyRemembered ==
    ~outdated => \A s \in DOMAIN tracks :
        s \in remembered \/ (pc = "tidy" /\ s = current) \/ Untidy(tracks[s]) = {}

-----------------------------------------------------------------------------
(* Types *)

Record(c) == DOMAIN c \subseteq FileKey /\ \A f \in DOMAIN c : c[f] \in Nat

Records(t) == DOMAIN t \subseteq Source /\ \A s \in DOMAIN t : Record(t[s])

TypeMemory ==
    /\ current \in Source \cup {NoSource}
    /\ Record(counts)
    /\ remembered \subseteq Source

TypeWalk ==
    /\ todo \subseteq FileKey
    /\ old \in Package \cup {NoPackage}
    /\ left \subseteq Package
    /\ work \subseteq Source

TypePlace ==
    /\ pc \in {"idle", "open", "insert", "drop", "finish", "tidy", "save",
               "reset", "retrack", "removesrc", "forget", "recreate"}
    /\ job \in {"none", "source", "many", "retrack", "tidytracks", "removetrack",
                "removesrc", "rereference"}
    /\ error \in BOOLEAN

TypeHistory ==
    /\ outdated \in BOOLEAN
    /\ misfiled \subseteq Source
    /\ exposed \subseteq Source \X FileKey
    /\ orphaned \subseteq Source \X FileKey

(* The type invariant, in parts *)
LEMMA TypeParts ==
    TypeOK <=>
        /\ setting \in Settings
        /\ packages \subseteq Package
        /\ Records(tracks)
        /\ trackrefs \in [Source -> [FileKey -> Nat]]
        /\ TypeMemory /\ TypeWalk /\ TypePlace /\ TypeHistory
        /\ faults \in 0..MaxFaults

<1> QED
    BY Zenon DEF TypeOK, Records, Record, TypeMemory, TypeWalk, TypePlace, TypeHistory

(* The operators on records give records. *)
LEMMA NoRecord == Record(NoFiles)
BY DEF Record, NoFiles

LEMMA AddedRecord ==
    ASSUME NEW c, Record(c), NEW f \in FileKey
    PROVE  Record(AddFileKey(c, f, TRUE)) /\ Record(AddFileKey(c, f, FALSE))
BY DEF Record, AddFileKey

LEMMA RemovedRecord ==
    ASSUME NEW c, Record(c), NEW F PROVE Record(RemoveFileKeys(c, F))
BY DEF Record, RemoveFileKeys

LEMMA ZeroRecord ==
    ASSUME NEW c, Record(c) PROVE Record([f \in DOMAIN c |-> 0])
BY DEF Record

LEMMA PartRecord ==
    ASSUME NEW c, Record(c), NEW D, D \subseteq DOMAIN c PROVE Record([f \in D |-> c[f]])
BY DEF Record

LEMMA ClearedRecord ==
    ASSUME NEW c, Record(c)
    PROVE  Record([f \in DOMAIN c |->
                     IF FileType[f] \in {"package", "source"} THEN 0 ELSE c[f]])
BY DEF Record

LEMMA LoadedRecord ==
    ASSUME Records(tracks), NEW s PROVE Record(Loaded(s))
BY NoRecord DEF Records, Loaded

LEMMA SavedRecords ==
    ASSUME Records(tracks), NEW s \in Source, NEW c, Record(c)
    PROVE  Records(Saved(s, c)) /\ Records(Unsaved(s))
BY DEF Records, Saved, Unsaved

LEMMA UntidySubset ==
    ASSUME NEW c PROVE Untidy(c) \subseteq DOMAIN c
BY DEF Untidy

LEMMA UntidyType ==
    ASSUME NEW c, Record(c) PROVE Untidy(c) \subseteq FileKey
BY UntidySubset DEF Record

LEMMA CountedRefs ==
    ASSUME trackrefs \in [Source -> [FileKey -> Nat]],
           NEW s \in Source, NEW f \in FileKey
    PROVE  /\ [trackrefs EXCEPT ![s][f] = @ + 1] \in [Source -> [FileKey -> Nat]]
           /\ [trackrefs EXCEPT ![s][f] = IF @ > 0 THEN @ - 1 ELSE 0]
                 \in [Source -> [FileKey -> Nat]]
OBVIOUS

LEMMA RecreatedRefs ==
    ASSUME trackrefs \in [Source -> [FileKey -> Nat]], NEW s \in Source, NEW D
    PROVE  [trackrefs EXCEPT ![s] = [f \in FileKey |->
                IF f \in D THEN @[f] + 1 ELSE @[f]]] \in [Source -> [FileKey -> Nat]]
OBVIOUS

(* A record with references is that of a source. *)
LEMMA StrayType ==
    ASSUME TypeOK, MemoryPlaced PROVE Stray \subseteq Source \X FileKey
<1>1. Record(counts) /\ current \in Source \cup {NoSource}
    BY TypeParts DEF TypeMemory
<1>2. current = NoSource => DOMAIN counts = {}
    BY DEF MemoryPlaced, NoFiles
<1>3. QED
    BY <1>1, <1>2 DEF Stray, Record

LEMMA FaultType ==
    ASSUME faults \in 0..MaxFaults, Fault \/ UNCHANGED faults PROVE faults' \in 0..MaxFaults
BY ModeAssumption DEF Fault

(* What may be named in a step is of the right type. *)
LEMMA SettingType ==
    ASSUME TypeOK
    PROVE  /\ Uploaded \subseteq Package
           /\ Sources \subseteq Source
           /\ setting.extras \subseteq FileKey
           /\ mode \in {"keep", "all", "minimal"}
BY ModeAssumption DEF TypeOK, Uploaded, Sources, mode

LEMMA InitType == Init => TypeOK
<1> SUFFICES ASSUME Init PROVE TypeOK
    OBVIOUS
<1>1. Records(tracks) /\ trackrefs \in [Source -> [FileKey -> Nat]]
    BY DEF Init, Records
<1>2. TypeMemory
    BY NoRecord DEF Init, TypeMemory
<1>3. TypeWalk /\ TypePlace /\ TypeHistory
    BY DEF Init, TypeWalk, TypePlace, TypeHistory
<1>4. QED
    BY ModeAssumption, <1>1, <1>2, <1>3, TypeParts DEF Init

LEMMA StepType == TypeOK /\ MemoryPlaced /\ [Next]_vars => TypeOK'
<1> SUFFICES ASSUME TypeOK, MemoryPlaced, [Next]_vars PROVE TypeOK'
    OBVIOUS
<1>0. /\ setting \in Settings /\ packages \subseteq Package
      /\ Records(tracks) /\ trackrefs \in [Source -> [FileKey -> Nat]]
      /\ TypeMemory /\ TypeWalk /\ TypePlace /\ TypeHistory
      /\ faults \in 0..MaxFaults
    BY TypeParts
<1>p. /\ pc \in {"insert", "tidy", "save", "removesrc"} => current \in Source
      /\ pc = "drop" => old \in Package
      /\ pc \in {"reset", "recreate"} => work \subseteq DOMAIN tracks
    BY DEF MemoryPlaced
<1>y. Stray \subseteq Source \X FileKey
    BY StrayType
<1> DEFINE Typed == /\ packages' \subseteq Package
                    /\ Records(tracks') /\ trackrefs' \in [Source -> [FileKey -> Nat]]
                    /\ TypeMemory' /\ TypeWalk' /\ TypePlace' /\ TypeHistory'
                    /\ faults' \in 0..MaxFaults
<1>1. ASSUME NEW s \in Source, Summon(s) PROVE Typed
    <2>1. packages' \subseteq Package
        BY <1>0, <1>1 DEF Summon, disk, memory, walk, history, Load, Unload, Lose
    <2>2. Records(tracks')
        BY <1>0, <1>1 DEF Summon, disk, memory, walk, history, Load, Unload, Lose
    <2>3. trackrefs' \in [Source -> [FileKey -> Nat]]
        BY <1>0, <1>1 DEF Summon, disk, memory, walk, history, Load, Unload, Lose
    <2>4. TypeMemory'
        BY <1>0, <1>1, LoadedRecord, NoRecord, AddedRecord, RemovedRecord DEF Summon, disk,
           memory, walk, history, Load, Unload, Lose, TypeMemory, Records, TypeWalk,
           TypePlace
    <2>5. TypeWalk' /\ TypePlace'
        BY <1>0, <1>1 DEF Summon, disk, memory, walk, history, Load, Unload, Lose, TypeWalk,
           TypePlace
    <2>6. TypeHistory'
        BY <1>0, <1>1 DEF Summon, disk, memory, walk, history, Load, Unload, Lose,
           TypeHistory
    <2>7. faults' \in 0..MaxFaults
        BY <1>0, <1>1, FaultType DEF Summon, disk, memory, walk, history, Load, Unload, Lose
    <2> QED
        BY <2>1, <2>2, <2>3, <2>4, <2>5, <2>6, <2>7
<1>2. ASSUME NEW s \in Source, Switch(s) PROVE Typed
    <2>1. packages' \subseteq Package
        BY <1>0, <1>2 DEF Switch, disk, memory, walk, history, Load, Unload, Lose
    <2>2. Records(tracks')
        BY <1>0, <1>2, SavedRecords, ZeroRecord, RemovedRecord, PartRecord, UntidySubset,
           LoadedRecord DEF Switch, disk, memory, walk, history, Load, Unload, Lose,
           TypeMemory, Kept
    <2>3. trackrefs' \in [Source -> [FileKey -> Nat]]
        BY <1>0, <1>2 DEF Switch, disk, memory, walk, history, Load, Unload, Lose
    <2>4. TypeMemory'
        BY <1>0, <1>2, LoadedRecord, NoRecord, AddedRecord, RemovedRecord DEF Switch, disk,
           memory, walk, history, Load, Unload, Lose, TypeMemory, Records, TypeWalk,
           TypePlace
    <2>5. TypeWalk' /\ TypePlace'
        BY <1>0, <1>2 DEF Switch, disk, memory, walk, history, Load, Unload, Lose, TypeWalk,
           TypePlace
    <2>6. TypeHistory'
        BY <1>0, <1>2 DEF Switch, disk, memory, walk, history, Load, Unload, Lose,
           TypeHistory
    <2>7. faults' \in 0..MaxFaults
        BY <1>0, <1>2, FaultType DEF Switch, disk, memory, walk, history, Load, Unload, Lose
    <2> QED
        BY <2>1, <2>2, <2>3, <2>4, <2>5, <2>6, <2>7
<1>3. ASSUME New PROVE Typed
    <2>1. packages' \subseteq Package
        BY <1>0, <1>3 DEF New, disk, memory, walk, history, Load, Unload, Lose
    <2>2. Records(tracks')
        BY <1>0, <1>3 DEF New, disk, memory, walk, history, Load, Unload, Lose
    <2>3. trackrefs' \in [Source -> [FileKey -> Nat]]
        BY <1>0, <1>3 DEF New, disk, memory, walk, history, Load, Unload, Lose
    <2>4. TypeMemory'
        BY <1>0, <1>3 DEF New, disk, memory, walk, history, Load, Unload, Lose, TypeMemory
    <2>5. TypeWalk' /\ TypePlace'
        BY <1>0, <1>3 DEF New, disk, memory, walk, history, Load, Unload, Lose, TypeWalk,
           TypePlace
    <2>6. TypeHistory'
        BY <1>0, <1>3 DEF New, disk, memory, walk, history, Load, Unload, Lose, TypeHistory
    <2>7. faults' \in 0..MaxFaults
        BY <1>0, <1>3, FaultType DEF New, disk, memory, walk, history, Load, Unload, Lose
    <2> QED
        BY <2>1, <2>2, <2>3, <2>4, <2>5, <2>6, <2>7
<1>4. ASSUME NEW p \in Package, NEW q \in Package \cup {NoPackage},
             AddPackage(p, q)
      PROVE  Typed
    <2>1. packages' \subseteq Package
        BY <1>0, <1>4 DEF AddPackage, disk, memory, walk, history, Load, Unload, Lose
    <2>2. Records(tracks')
        BY <1>0, <1>4 DEF AddPackage, disk, memory, walk, history, Load, Unload, Lose
    <2>3. trackrefs' \in [Source -> [FileKey -> Nat]]
        BY <1>0, <1>4 DEF AddPackage, disk, memory, walk, history, Load, Unload, Lose
    <2>4. TypeMemory'
        BY <1>0, <1>4 DEF AddPackage, disk, memory, walk, history, Load, Unload, Lose,
           TypeMemory
    <2>5. TypeWalk' /\ TypePlace'
        BY <1>0, <1>4 DEF AddPackage, disk, memory, walk, history, Load, Unload, Lose,
           TypeWalk, TypePlace
    <2>6. TypeHistory'
        BY <1>0, <1>4, SourceAssumption DEF AddPackage, Misfiled, disk, memory, walk, history,
           TypeHistory
    <2>7. faults' \in 0..MaxFaults
        BY <1>0, <1>4, FaultType DEF AddPackage, disk, memory, walk, history, Load, Unload,
           Lose
    <2> QED
        BY <2>1, <2>2, <2>3, <2>4, <2>5, <2>6, <2>7
<1>5. ASSUME NEW p \in Package, NEW q \in Package \cup {NoPackage},
             ChangeUntracked(p, q)
      PROVE  Typed
    <2>1. packages' \subseteq Package
        BY <1>0, <1>5 DEF ChangeUntracked, disk, memory, walk, history, Load, Unload, Lose
    <2>2. Records(tracks')
        BY <1>0, <1>5 DEF ChangeUntracked, disk, memory, walk, history, Load, Unload, Lose
    <2>3. trackrefs' \in [Source -> [FileKey -> Nat]]
        BY <1>0, <1>5 DEF ChangeUntracked, disk, memory, walk, history, Load, Unload, Lose
    <2>4. TypeMemory'
        BY <1>0, <1>5 DEF ChangeUntracked, disk, memory, walk, history, Load, Unload, Lose,
           TypeMemory
    <2>5. TypeWalk' /\ TypePlace'
        BY <1>0, <1>5 DEF ChangeUntracked, disk, memory, walk, history, Load, Unload, Lose,
           TypeWalk, TypePlace
    <2>6. TypeHistory'
        BY <1>0, <1>5 DEF ChangeUntracked, disk, memory, walk, history, Load, Unload, Lose,
           TypeHistory
    <2>7. faults' \in 0..MaxFaults
        BY <1>0, <1>5, FaultType DEF ChangeUntracked, disk, memory, walk, history, Load,
           Unload, Lose
    <2> QED
        BY <2>1, <2>2, <2>3, <2>4, <2>5, <2>6, <2>7
<1>6. ASSUME NEW p \in Package, RemovePackage(p) PROVE Typed
    <2>1. packages' \subseteq Package
        BY <1>0, <1>6 DEF RemovePackage, disk, memory, walk, history, Load, Unload, Lose
    <2>2. Records(tracks')
        BY <1>0, <1>6 DEF RemovePackage, disk, memory, walk, history, Load, Unload, Lose
    <2>3. trackrefs' \in [Source -> [FileKey -> Nat]]
        BY <1>0, <1>6 DEF RemovePackage, disk, memory, walk, history, Load, Unload, Lose
    <2>4. TypeMemory'
        BY <1>0, <1>6 DEF RemovePackage, disk, memory, walk, history, Load, Unload, Lose,
           TypeMemory
    <2>5. TypeWalk' /\ TypePlace'
        BY <1>0, <1>6 DEF RemovePackage, disk, memory, walk, history, Load, Unload, Lose,
           TypeWalk, TypePlace
    <2>6. TypeHistory'
        BY <1>0, <1>6 DEF RemovePackage, disk, memory, walk, history, Load, Unload, Lose,
           TypeHistory
    <2>7. faults' \in 0..MaxFaults
        BY <1>0, <1>6, FaultType DEF RemovePackage, disk, memory, walk, history, Load,
           Unload, Lose
    <2> QED
        BY <2>1, <2>2, <2>3, <2>4, <2>5, <2>6, <2>7
<1>7. ASSUME NEW f \in FileKey, InsertFile(f) PROVE Typed
    <2>s. current \in Source
        BY <1>0, <1>p, <1>7 DEF InsertFile, TypeMemory
    <2>t. [trackrefs EXCEPT ![current][f] = @ + 1] \in [Source -> [FileKey -> Nat]]
        BY <1>0, <2>s, CountedRefs
    <2>1. packages' \subseteq Package
        BY <1>0, <1>7 DEF InsertFile, disk, memory, walk, history, Load, Unload, Lose
    <2>2. Records(tracks')
        BY <1>0, <1>7 DEF InsertFile, disk, memory, walk, history, Load, Unload, Lose
    <2>3. trackrefs' \in [Source -> [FileKey -> Nat]]
        BY <1>7, <1>0, <2>t DEF InsertFile
    <2>4. TypeMemory'
        BY <1>0, <1>7, LoadedRecord, NoRecord, AddedRecord, RemovedRecord DEF InsertFile,
           disk, memory, walk, history, Load, Unload, Lose, TypeMemory, Records, TypeWalk,
           TypePlace
    <2>5. TypeWalk' /\ TypePlace'
        BY <1>0, <1>7 DEF InsertFile, disk, memory, walk, history, Load, Unload, Lose,
           TypeWalk, TypePlace
    <2>6. TypeHistory'
        BY <1>0, <1>p, <1>7 DEF InsertFile, TypeHistory, disk, memory, walk, history, Load,
           Unload, Lose, TypeMemory
    <2>7. faults' \in 0..MaxFaults
        BY <1>0, <1>7, FaultType DEF InsertFile, disk, memory, walk, history, Load, Unload,
           Lose
    <2> QED
        BY <2>1, <2>2, <2>3, <2>4, <2>5, <2>6, <2>7
<1>8. ASSUME NEW f \in FileKey, TidyFile(f) PROVE Typed
    <2>s. current \in Source
        BY <1>0, <1>p, <1>8 DEF TidyFile, TypeMemory
    <2>t. [trackrefs EXCEPT ![current][f] = IF @ > 0 THEN @ - 1 ELSE 0] \in [Source -> [FileKey -> Nat]]
        BY <1>0, <2>s, CountedRefs
    <2>1. packages' \subseteq Package
        BY <1>0, <1>8 DEF TidyFile, disk, memory, walk, history, Load, Unload, Lose
    <2>2. Records(tracks')
        BY <1>0, <1>8 DEF TidyFile, disk, memory, walk, history, Load, Unload, Lose
    <2>3. trackrefs' \in [Source -> [FileKey -> Nat]]
        BY <1>8, <1>0, <2>t DEF TidyFile
    <2>4. TypeMemory'
        BY <1>0, <1>8 DEF TidyFile, disk, memory, walk, history, Load, Unload, Lose,
           TypeMemory
    <2>5. TypeWalk' /\ TypePlace'
        BY <1>0, <1>8 DEF TidyFile, disk, memory, walk, history, Load, Unload, Lose,
           TypeWalk, TypePlace
    <2>6. TypeHistory'
        BY <1>0, <1>p, <1>8 DEF TidyFile, TypeHistory, disk, memory, walk, history, Load,
           Unload, Lose, TypeMemory
    <2>7. faults' \in 0..MaxFaults
        BY <1>0, <1>8, FaultType DEF TidyFile, disk, memory, walk, history, Load, Unload,
           Lose
    <2> QED
        BY <2>1, <2>2, <2>3, <2>4, <2>5, <2>6, <2>7
<1>9. ASSUME NEW f \in FileKey, AddExtra(f) PROVE Typed
    <2>s. current \in Source
        BY <1>0, <1>p, <1>9 DEF AddExtra, TypeMemory
    <2>t. [trackrefs EXCEPT ![current][f] = @ + 1] \in [Source -> [FileKey -> Nat]]
        BY <1>0, <2>s, CountedRefs
    <2>1. packages' \subseteq Package
        BY <1>0, <1>9 DEF AddExtra, disk, memory, walk, history, Load, Unload, Lose
    <2>2. Records(tracks')
        BY <1>0, <1>9 DEF AddExtra, disk, memory, walk, history, Load, Unload, Lose
    <2>3. trackrefs' \in [Source -> [FileKey -> Nat]]
        BY <1>9, <1>0, <2>t DEF AddExtra
    <2>4. TypeMemory'
        BY <1>0, <1>9, LoadedRecord, NoRecord, AddedRecord, RemovedRecord DEF AddExtra,
           disk, memory, walk, history, Load, Unload, Lose, TypeMemory, Records, TypeWalk,
           TypePlace
    <2>5. TypeWalk' /\ TypePlace'
        BY <1>0, <1>9 DEF AddExtra, disk, memory, walk, history, Load, Unload, Lose,
           TypeWalk, TypePlace
    <2>6. TypeHistory'
        BY <1>0, <1>p, <1>9 DEF AddExtra, TypeHistory, disk, memory, walk, history, Load,
           Unload, Lose, TypeMemory
    <2>7. faults' \in 0..MaxFaults
        BY <1>0, <1>9, FaultType DEF AddExtra, disk, memory, walk, history, Load, Unload,
           Lose
    <2> QED
        BY <2>1, <2>2, <2>3, <2>4, <2>5, <2>6, <2>7
<1>10. ASSUME InsertEnd PROVE Typed
    <2>1. packages' \subseteq Package
        BY <1>0, <1>10 DEF InsertEnd, disk, memory, walk, history, Load, Unload, Lose
    <2>2. Records(tracks')
        BY <1>0, <1>10 DEF InsertEnd, disk, memory, walk, history, Load, Unload, Lose
    <2>3. trackrefs' \in [Source -> [FileKey -> Nat]]
        BY <1>0, <1>10 DEF InsertEnd, disk, memory, walk, history, Load, Unload, Lose
    <2>4. TypeMemory'
        BY <1>0, <1>10, LoadedRecord, NoRecord, AddedRecord, RemovedRecord DEF InsertEnd,
           disk, memory, walk, history, Load, Unload, Lose, TypeMemory, Records, TypeWalk,
           TypePlace
    <2>5. TypeWalk' /\ TypePlace'
        BY <1>0, <1>10 DEF InsertEnd, disk, memory, walk, history, Load, Unload, Lose,
           TypeWalk, TypePlace
    <2>6. TypeHistory'
        BY <1>0, <1>p, <1>10, <1>y DEF InsertEnd, TypeHistory, disk, memory, walk, history,
           Load, Unload, Lose
    <2>7. faults' \in 0..MaxFaults
        BY <1>0, <1>10, FaultType DEF InsertEnd, disk, memory, walk, history, Load, Unload,
           Lose
    <2> QED
        BY <2>1, <2>2, <2>3, <2>4, <2>5, <2>6, <2>7
<1>11. ASSUME DropOld PROVE Typed
    <2>1. packages' \subseteq Package
        BY <1>0, <1>11 DEF DropOld, disk, memory, walk, history, Load, Unload, Lose
    <2>2. Records(tracks')
        BY <1>0, <1>p, <1>11, SavedRecords, RemovedRecord DEF DropOld, TypeMemory, Records
    <2>3. trackrefs' \in [Source -> [FileKey -> Nat]]
        BY <1>0, <1>11 DEF DropOld, disk, memory, walk, history, Load, Unload, Lose
    <2>4. TypeMemory'
        BY <1>0, <1>11, LoadedRecord, NoRecord, AddedRecord, RemovedRecord DEF DropOld,
           disk, memory, walk, history, Load, Unload, Lose, TypeMemory, Records, TypeWalk,
           TypePlace
    <2>5. TypeWalk' /\ TypePlace'
        BY <1>0, <1>11 DEF DropOld, disk, memory, walk, history, Load, Unload, Lose,
           TypeWalk, TypePlace
    <2>6. TypeHistory'
        BY <1>0, <1>11 DEF DropOld, disk, memory, walk, history, Load, Unload, Lose,
           TypeHistory
    <2>7. faults' \in 0..MaxFaults
        BY <1>0, <1>11, FaultType DEF DropOld, disk, memory, walk, history, Load, Unload,
           Lose
    <2> QED
        BY <2>1, <2>2, <2>3, <2>4, <2>5, <2>6, <2>7
<1>12. ASSUME Abandon PROVE Typed
    <2>1. packages' \subseteq Package
        BY <1>0, <1>12 DEF Abandon, disk, memory, walk, history, Load, Unload, Lose
    <2>2. Records(tracks')
        BY <1>0, <1>12 DEF Abandon, disk, memory, walk, history, Load, Unload, Lose
    <2>3. trackrefs' \in [Source -> [FileKey -> Nat]]
        BY <1>0, <1>12 DEF Abandon, disk, memory, walk, history, Load, Unload, Lose
    <2>4. TypeMemory'
        BY <1>0, <1>12, LoadedRecord, NoRecord, AddedRecord, RemovedRecord DEF Abandon,
           disk, memory, walk, history, Load, Unload, Lose, TypeMemory, Records, TypeWalk,
           TypePlace
    <2>5. TypeWalk' /\ TypePlace'
        BY <1>0, <1>12 DEF Abandon, disk, memory, walk, history, Load, Unload, Lose,
           TypeWalk, TypePlace
    <2>6. TypeHistory'
        BY <1>0, <1>p, <1>12, <1>y DEF Abandon, TypeHistory, disk, memory, walk, history,
           Load, Unload, Lose
    <2>7. faults' \in 0..MaxFaults
        BY <1>0, <1>12, FaultType DEF Abandon, disk, memory, walk, history, Load, Unload,
           Lose
    <2> QED
        BY <2>1, <2>2, <2>3, <2>4, <2>5, <2>6, <2>7
<1>13. ASSUME Finish PROVE Typed
    <2>1. packages' \subseteq Package
        BY <1>0, <1>13 DEF Finish, disk, memory, walk, history, Load, Unload, Lose
    <2>2. Records(tracks')
        BY <1>0, <1>13 DEF Finish, disk, memory, walk, history, Load, Unload, Lose
    <2>3. trackrefs' \in [Source -> [FileKey -> Nat]]
        BY <1>0, <1>13 DEF Finish, disk, memory, walk, history, Load, Unload, Lose
    <2>4. TypeMemory'
        BY <1>0, <1>13 DEF Finish, disk, memory, walk, history, Load, Unload, Lose,
           TypeMemory
    <2>5. TypeWalk' /\ TypePlace'
        BY <1>0, <1>13 DEF Finish, disk, memory, walk, history, Load, Unload, Lose,
           TypeWalk, TypePlace
    <2>6. TypeHistory'
        BY <1>0, <1>13 DEF Finish, disk, memory, walk, history, Load, Unload, Lose,
           TypeHistory
    <2>7. faults' \in 0..MaxFaults
        BY <1>0, <1>13, FaultType DEF Finish, disk, memory, walk, history, Load, Unload,
           Lose
    <2> QED
        BY <2>1, <2>2, <2>3, <2>4, <2>5, <2>6, <2>7
<1>14. ASSUME FinishNext PROVE Typed
    <2>t. Untidy(counts) \subseteq FileKey /\ \A s \in DOMAIN tracks : Untidy(tracks[s]) \subseteq FileKey
        BY <1>0, UntidyType DEF TypeMemory, Records
    <2>u. TypeWalk'
        BY <1>0, <1>14, <2>t DEF FinishNext, TypeWalk, Load
    <2>v. pc' \in {"finish", "tidy", "idle"} /\ job' \in {"none", job} /\ error' \in BOOLEAN
        <3>1. pc' \in {"finish", "tidy", "idle"} /\ job' \in {"none", job}
            BY <1>14 DEF FinishNext
        <3>2. error' = FALSE \/ UNCHANGED error
            BY Zenon, <1>14 DEF FinishNext
        <3>3. QED
            BY <1>0, <3>1, <3>2 DEF TypePlace
    <2>1. packages' \subseteq Package
        BY <1>0, <1>14 DEF FinishNext, disk, memory, walk, history, Load, Unload, Lose
    <2>2. Records(tracks')
        BY <1>0, <1>14 DEF FinishNext, disk, memory, walk, history, Load, Unload, Lose
    <2>3. trackrefs' \in [Source -> [FileKey -> Nat]]
        BY <1>0, <1>14 DEF FinishNext, disk, memory, walk, history, Load, Unload, Lose
    <2>4. TypeMemory'
        BY <1>0, <1>14, LoadedRecord, NoRecord, AddedRecord, RemovedRecord DEF FinishNext,
           disk, memory, walk, history, Load, Unload, Lose, TypeMemory, Records, TypeWalk,
           TypePlace
    <2>5. TypeWalk' /\ TypePlace'
        BY <1>0, <2>u, <2>v DEF TypePlace
    <2>6. TypeHistory'
        BY <1>0, <1>14 DEF FinishNext, disk, memory, walk, history, Load, Unload, Lose,
           TypeHistory
    <2>7. faults' \in 0..MaxFaults
        BY <1>0, <1>14, FaultType DEF FinishNext, disk, memory, walk, history, Load, Unload,
           Lose
    <2> QED
        BY <2>1, <2>2, <2>3, <2>4, <2>5, <2>6, <2>7
<1>15. ASSUME TidySave PROVE Typed
    <2>s. current \in Source => Records(Saved(current, Kept)) /\ Records(Unsaved(current))
        BY <1>0, SavedRecords, PartRecord DEF Kept, TypeMemory
    <2>1. packages' \subseteq Package
        BY <1>0, <1>15 DEF TidySave, disk, memory, walk, history, Load, Unload, Lose
    <2>2. Records(tracks')
        BY <1>0, <1>p, <1>15, <2>s DEF TidySave, TypeMemory
    <2>3. trackrefs' \in [Source -> [FileKey -> Nat]]
        BY <1>0, <1>15 DEF TidySave, disk, memory, walk, history, Load, Unload, Lose
    <2>4. TypeMemory'
        BY <1>0, <1>15, LoadedRecord, NoRecord, AddedRecord, RemovedRecord DEF TidySave,
           disk, memory, walk, history, Load, Unload, Lose, TypeMemory, Records, TypeWalk,
           TypePlace
    <2>5. TypeWalk' /\ TypePlace'
        BY <1>0, <1>15, UntidySubset DEF TidySave, disk, memory, walk, history, Load,
           Unload, Lose, TypeWalk, TypePlace, TypeMemory, Records, Record, AfterSave
    <2>6. TypeHistory'
        BY <1>0, <1>p, <1>15, <1>y DEF TidySave, TypeHistory, disk, memory, walk, history,
           Load, Unload, Lose
    <2>7. faults' \in 0..MaxFaults
        BY <1>0, <1>15, FaultType DEF TidySave, disk, memory, walk, history, Load, Unload,
           Lose
    <2> QED
        BY <2>1, <2>2, <2>3, <2>4, <2>5, <2>6, <2>7
<1>16. ASSUME TidyTracks PROVE Typed
    <2>1. packages' \subseteq Package
        BY <1>0, <1>16 DEF TidyTracks, disk, memory, walk, history, Load, Unload, Lose
    <2>2. Records(tracks')
        BY <1>0, <1>16 DEF TidyTracks, disk, memory, walk, history, Load, Unload, Lose
    <2>3. trackrefs' \in [Source -> [FileKey -> Nat]]
        BY <1>0, <1>16 DEF TidyTracks, disk, memory, walk, history, Load, Unload, Lose
    <2>4. TypeMemory'
        BY <1>0, <1>16, LoadedRecord, NoRecord, AddedRecord, RemovedRecord DEF TidyTracks,
           disk, memory, walk, history, Load, Unload, Lose, TypeMemory, Records, TypeWalk,
           TypePlace
    <2>5. TypeWalk' /\ TypePlace'
        BY <1>0, <1>16 DEF TidyTracks, disk, memory, walk, history, Load, Unload, Lose,
           TypeWalk, TypePlace
    <2>6. TypeHistory'
        BY <1>0, <1>16 DEF TidyTracks, disk, memory, walk, history, Load, Unload, Lose,
           TypeHistory
    <2>7. faults' \in 0..MaxFaults
        BY <1>0, <1>16, FaultType DEF TidyTracks, disk, memory, walk, history, Load, Unload,
           Lose
    <2> QED
        BY <2>1, <2>2, <2>3, <2>4, <2>5, <2>6, <2>7
<1>17. ASSUME Retrack PROVE Typed
    <2>1. packages' \subseteq Package
        BY <1>0, <1>17 DEF Retrack, disk, memory, walk, history, Load, Unload, Lose
    <2>2. Records(tracks')
        BY <1>0, <1>17 DEF Retrack, disk, memory, walk, history, Load, Unload, Lose
    <2>3. trackrefs' \in [Source -> [FileKey -> Nat]]
        BY <1>0, <1>17 DEF Retrack, disk, memory, walk, history, Load, Unload, Lose
    <2>4. TypeMemory'
        BY <1>0, <1>17 DEF Retrack, disk, memory, walk, history, Load, Unload, Lose,
           TypeMemory
    <2>5. TypeWalk' /\ TypePlace'
        BY <1>0, <1>17, UntidySubset DEF Retrack, disk, memory, walk, history, Load, Unload,
           Lose, TypeWalk, TypePlace, TypeMemory, Records, Record, AfterSave
    <2>6. TypeHistory'
        BY <1>0, <1>17 DEF Retrack, disk, memory, walk, history, Load, Unload, Lose,
           TypeHistory
    <2>7. faults' \in 0..MaxFaults
        BY <1>0, <1>17, FaultType DEF Retrack, disk, memory, walk, history, Load, Unload,
           Lose
    <2> QED
        BY <2>1, <2>2, <2>3, <2>4, <2>5, <2>6, <2>7
<1>18. ASSUME ResetEnd PROVE Typed
    <2>1. packages' \subseteq Package
        BY <1>0, <1>18 DEF ResetEnd, disk, memory, walk, history, Load, Unload, Lose
    <2>2. Records(tracks')
        BY <1>0, <1>18 DEF ResetEnd, disk, memory, walk, history, Load, Unload, Lose
    <2>3. trackrefs' \in [Source -> [FileKey -> Nat]]
        BY <1>0, <1>18 DEF ResetEnd, disk, memory, walk, history, Load, Unload, Lose
    <2>4. TypeMemory'
        BY <1>0, <1>18 DEF ResetEnd, disk, memory, walk, history, Load, Unload, Lose,
           TypeMemory
    <2>5. TypeWalk' /\ TypePlace'
        BY <1>0, <1>18 DEF ResetEnd, disk, memory, walk, history, Load, Unload, Lose,
           TypeWalk, TypePlace
    <2>6. TypeHistory'
        BY <1>0, <1>18 DEF ResetEnd, disk, memory, walk, history, Load, Unload, Lose,
           TypeHistory
    <2>7. faults' \in 0..MaxFaults
        BY <1>0, <1>18, FaultType DEF ResetEnd, disk, memory, walk, history, Load, Unload,
           Lose
    <2> QED
        BY <2>1, <2>2, <2>3, <2>4, <2>5, <2>6, <2>7
<1>19. ASSUME SaveRetracked PROVE Typed
    <2>1. packages' \subseteq Package
        BY <1>0, <1>19 DEF SaveRetracked, disk, memory, walk, history, Load, Unload, Lose
    <2>2. Records(tracks')
        BY <1>0, <1>p, <1>19, SavedRecords DEF SaveRetracked, TypeMemory
    <2>3. trackrefs' \in [Source -> [FileKey -> Nat]]
        BY <1>0, <1>19 DEF SaveRetracked, disk, memory, walk, history, Load, Unload, Lose
    <2>4. TypeMemory'
        BY <1>0, <1>19, LoadedRecord, NoRecord, AddedRecord, RemovedRecord DEF
           SaveRetracked, disk, memory, walk, history, Load, Unload, Lose, TypeMemory,
           Records, TypeWalk, TypePlace
    <2>5. TypeWalk' /\ TypePlace'
        BY <1>0, <1>19 DEF SaveRetracked, disk, memory, walk, history, Load, Unload, Lose,
           TypeWalk, TypePlace
    <2>6. TypeHistory'
        BY <1>0, <1>p, <1>19, <1>y DEF SaveRetracked, TypeHistory, disk, memory, walk,
           history, Load, Unload, Lose
    <2>7. faults' \in 0..MaxFaults
        BY <1>0, <1>19, FaultType DEF SaveRetracked, disk, memory, walk, history, Load,
           Unload, Lose
    <2> QED
        BY <2>1, <2>2, <2>3, <2>4, <2>5, <2>6, <2>7
<1>20. ASSUME RetrackEnd PROVE Typed
    <2>1. packages' \subseteq Package
        BY <1>0, <1>20 DEF RetrackEnd, disk, memory, walk, history, Load, Unload, Lose
    <2>2. Records(tracks')
        BY <1>0, <1>20 DEF RetrackEnd, disk, memory, walk, history, Load, Unload, Lose
    <2>3. trackrefs' \in [Source -> [FileKey -> Nat]]
        BY <1>0, <1>20 DEF RetrackEnd, disk, memory, walk, history, Load, Unload, Lose
    <2>4. TypeMemory'
        BY <1>0, <1>20, LoadedRecord, NoRecord, AddedRecord, RemovedRecord DEF RetrackEnd,
           disk, memory, walk, history, Load, Unload, Lose, TypeMemory, Records, TypeWalk,
           TypePlace
    <2>5. TypeWalk' /\ TypePlace'
        BY <1>0, <1>20 DEF RetrackEnd, disk, memory, walk, history, Load, Unload, Lose,
           TypeWalk, TypePlace
    <2>6. TypeHistory'
        BY <1>0, <1>20 DEF RetrackEnd, disk, memory, walk, history, Load, Unload, Lose,
           TypeHistory
    <2>7. faults' \in 0..MaxFaults
        BY <1>0, <1>20, FaultType DEF RetrackEnd, disk, memory, walk, history, Load, Unload,
           Lose
    <2> QED
        BY <2>1, <2>2, <2>3, <2>4, <2>5, <2>6, <2>7
<1>21. ASSUME NEW s \in Source, ResetOne(s) PROVE Typed
    <2>1. packages' \subseteq Package
        BY <1>0, <1>21 DEF ResetOne, disk, memory, walk, history, Load, Unload, Lose
    <2>2. Records(tracks')
        BY <1>0, <1>p, <1>21, SavedRecords, ZeroRecord DEF ResetOne, Records
    <2>3. trackrefs' \in [Source -> [FileKey -> Nat]]
        BY <1>0, <1>21 DEF ResetOne, disk, memory, walk, history, Load, Unload, Lose
    <2>4. TypeMemory'
        BY <1>0, <1>21 DEF ResetOne, disk, memory, walk, history, Load, Unload, Lose,
           TypeMemory
    <2>5. TypeWalk' /\ TypePlace'
        BY <1>0, <1>21 DEF ResetOne, disk, memory, walk, history, Load, Unload, Lose,
           TypeWalk, TypePlace
    <2>6. TypeHistory'
        BY <1>0, <1>21 DEF ResetOne, disk, memory, walk, history, Load, Unload, Lose,
           TypeHistory
    <2>7. faults' \in 0..MaxFaults
        BY <1>0, <1>21, FaultType DEF ResetOne, disk, memory, walk, history, Load, Unload,
           Lose
    <2> QED
        BY <2>1, <2>2, <2>3, <2>4, <2>5, <2>6, <2>7
<1>22. ASSUME NEW p \in Package, RetrackOne(p) PROVE Typed
    <2>1. packages' \subseteq Package
        BY <1>0, <1>22 DEF RetrackOne, disk, memory, walk, history, Load, Unload, Lose
    <2>2. Records(tracks')
        BY <1>0, <1>22 DEF RetrackOne, disk, memory, walk, history, Load, Unload, Lose
    <2>3. trackrefs' \in [Source -> [FileKey -> Nat]]
        BY <1>0, <1>22 DEF RetrackOne, disk, memory, walk, history, Load, Unload, Lose
    <2>4. TypeMemory'
        BY <1>0, <1>22, LoadedRecord, NoRecord, AddedRecord, RemovedRecord DEF RetrackOne,
           disk, memory, walk, history, Load, Unload, Lose, TypeMemory, Records, TypeWalk,
           TypePlace
    <2>5. TypeWalk' /\ TypePlace'
        BY <1>0, <1>22 DEF RetrackOne, disk, memory, walk, history, Load, Unload, Lose,
           TypeWalk, TypePlace
    <2>6. TypeHistory'
        BY <1>0, <1>22 DEF RetrackOne, disk, memory, walk, history, Load, Unload, Lose,
           TypeHistory
    <2>7. faults' \in 0..MaxFaults
        BY <1>0, <1>22, FaultType DEF RetrackOne, disk, memory, walk, history, Load, Unload,
           Lose
    <2> QED
        BY <2>1, <2>2, <2>3, <2>4, <2>5, <2>6, <2>7
<1>23. ASSUME NEW p \in Package, RemoveSrcOne(p) PROVE Typed
    <2>1. packages' \subseteq Package
        BY <1>0, <1>23 DEF RemoveSrcOne, disk, memory, walk, history, Load, Unload, Lose
    <2>2. Records(tracks')
        BY <1>0, <1>23 DEF RemoveSrcOne, disk, memory, walk, history, Load, Unload, Lose
    <2>3. trackrefs' \in [Source -> [FileKey -> Nat]]
        BY <1>0, <1>23 DEF RemoveSrcOne, disk, memory, walk, history, Load, Unload, Lose
    <2>4. TypeMemory'
        BY <1>0, <1>23, LoadedRecord, NoRecord, AddedRecord, RemovedRecord DEF RemoveSrcOne,
           disk, memory, walk, history, Load, Unload, Lose, TypeMemory, Records, TypeWalk,
           TypePlace
    <2>5. TypeWalk' /\ TypePlace'
        BY <1>0, <1>23 DEF RemoveSrcOne, disk, memory, walk, history, Load, Unload, Lose,
           TypeWalk, TypePlace
    <2>6. TypeHistory'
        BY <1>0, <1>23 DEF RemoveSrcOne, disk, memory, walk, history, Load, Unload, Lose,
           TypeHistory
    <2>7. faults' \in 0..MaxFaults
        BY <1>0, <1>23, FaultType DEF RemoveSrcOne, disk, memory, walk, history, Load,
           Unload, Lose
    <2> QED
        BY <2>1, <2>2, <2>3, <2>4, <2>5, <2>6, <2>7
<1>24. ASSUME NEW s \in Source, RemoveTrack(s) PROVE Typed
    <2>1. packages' \subseteq Package
        BY <1>0, <1>24 DEF RemoveTrack, disk, memory, walk, history, Load, Unload, Lose
    <2>2. Records(tracks')
        BY <1>0, <1>24 DEF RemoveTrack, disk, memory, walk, history, Load, Unload, Lose
    <2>3. trackrefs' \in [Source -> [FileKey -> Nat]]
        BY <1>0, <1>24 DEF RemoveTrack, disk, memory, walk, history, Load, Unload, Lose
    <2>4. TypeMemory'
        BY <1>0, <1>24, LoadedRecord, NoRecord, AddedRecord, RemovedRecord DEF RemoveTrack,
           disk, memory, walk, history, Load, Unload, Lose, TypeMemory, Records, TypeWalk,
           TypePlace
    <2>5. TypeWalk' /\ TypePlace'
        BY <1>0, <1>24, UntidySubset DEF RemoveTrack, disk, memory, walk, history, Load,
           Unload, Lose, TypeWalk, TypePlace, TypeMemory, Records, Record, AfterSave
    <2>6. TypeHistory'
        BY <1>0, <1>24 DEF RemoveTrack, disk, memory, walk, history, Load, Unload, Lose,
           TypeHistory
    <2>7. faults' \in 0..MaxFaults
        BY <1>0, <1>24, FaultType DEF RemoveTrack, disk, memory, walk, history, Load,
           Unload, Lose
    <2> QED
        BY <2>1, <2>2, <2>3, <2>4, <2>5, <2>6, <2>7
<1>25. ASSUME NEW s \in Source, RemoveSrc(s) PROVE Typed
    <2>1. packages' \subseteq Package
        BY <1>0, <1>25 DEF RemoveSrc, disk, memory, walk, history, Load, Unload, Lose
    <2>2. Records(tracks')
        BY <1>0, <1>25 DEF RemoveSrc, disk, memory, walk, history, Load, Unload, Lose
    <2>3. trackrefs' \in [Source -> [FileKey -> Nat]]
        BY <1>0, <1>25 DEF RemoveSrc, disk, memory, walk, history, Load, Unload, Lose
    <2>4. TypeMemory'
        BY <1>0, <1>25, LoadedRecord, NoRecord, AddedRecord, RemovedRecord DEF RemoveSrc,
           disk, memory, walk, history, Load, Unload, Lose, TypeMemory, Records, TypeWalk,
           TypePlace
    <2>5. TypeWalk' /\ TypePlace'
        BY <1>0, <1>25 DEF RemoveSrc, disk, memory, walk, history, Load, Unload, Lose,
           TypeWalk, TypePlace
    <2>6. TypeHistory'
        BY <1>0, <1>25 DEF RemoveSrc, disk, memory, walk, history, Load, Unload, Lose,
           TypeHistory
    <2>7. faults' \in 0..MaxFaults
        BY <1>0, <1>25, FaultType DEF RemoveSrc, disk, memory, walk, history, Load, Unload,
           Lose
    <2> QED
        BY <2>1, <2>2, <2>3, <2>4, <2>5, <2>6, <2>7
<1>26. ASSUME RemoveSrcEnd PROVE Typed
    <2>1. packages' \subseteq Package
        BY <1>0, <1>26 DEF RemoveSrcEnd, disk, memory, walk, history, Load, Unload, Lose
    <2>2. Records(tracks')
        BY <1>0, <1>26 DEF RemoveSrcEnd, disk, memory, walk, history, Load, Unload, Lose
    <2>3. trackrefs' \in [Source -> [FileKey -> Nat]]
        BY <1>0, <1>26 DEF RemoveSrcEnd, disk, memory, walk, history, Load, Unload, Lose
    <2>4. TypeMemory'
        BY <1>0, <1>p, <1>26, ClearedRecord, NoRecord DEF RemoveSrcEnd, TypeMemory, disk,
           memory, walk, history, Load, Unload, Lose
    <2>5. TypeWalk' /\ TypePlace'
        BY <1>0, <1>26, UntidySubset DEF RemoveSrcEnd, disk, memory, walk, history, Load,
           Unload, Lose, TypeWalk, TypePlace, TypeMemory, Records, Record, AfterSave
    <2>6. TypeHistory'
        BY <1>0, <1>26 DEF RemoveSrcEnd, disk, memory, walk, history, Load, Unload, Lose,
           TypeHistory
    <2>7. faults' \in 0..MaxFaults
        BY <1>0, <1>26, FaultType DEF RemoveSrcEnd, disk, memory, walk, history, Load,
           Unload, Lose
    <2> QED
        BY <2>1, <2>2, <2>3, <2>4, <2>5, <2>6, <2>7
<1>27. ASSUME Rereference PROVE Typed
    <2>1. packages' \subseteq Package
        BY <1>0, <1>27 DEF Rereference, disk, memory, walk, history, Load, Unload, Lose
    <2>2. Records(tracks')
        BY <1>0, <1>27 DEF Rereference, disk, memory, walk, history, Load, Unload, Lose
    <2>3. trackrefs' \in [Source -> [FileKey -> Nat]]
        BY <1>0, <1>27 DEF Rereference, disk, memory, walk, history, Load, Unload, Lose
    <2>4. TypeMemory'
        BY <1>0, <1>27 DEF Rereference, disk, memory, walk, history, Load, Unload, Lose,
           TypeMemory
    <2>5. TypeWalk' /\ TypePlace'
        BY <1>0, <1>27 DEF Rereference, disk, memory, walk, history, Load, Unload, Lose,
           TypeWalk, TypePlace
    <2>6. TypeHistory'
        BY <1>0, <1>27 DEF Rereference, disk, memory, walk, history, Load, Unload, Lose,
           TypeHistory, TypeMemory, Stray, Record, Records, Loaded, Tracked, TypeWalk
    <2>7. faults' \in 0..MaxFaults
        BY <1>0, <1>27, FaultType DEF Rereference, disk, memory, walk, history, Load,
           Unload, Lose
    <2> QED
        BY <2>1, <2>2, <2>3, <2>4, <2>5, <2>6, <2>7
<1>28. ASSUME DropTracks PROVE Typed
    <2>1. packages' \subseteq Package
        BY <1>0, <1>28 DEF DropTracks, disk, memory, walk, history, Load, Unload, Lose
    <2>2. Records(tracks')
        BY <1>0, <1>p, <1>28 DEF DropTracks, Records
    <2>3. trackrefs' \in [Source -> [FileKey -> Nat]]
        BY <1>0, <1>28 DEF DropTracks, disk, memory, walk, history, Load, Unload, Lose
    <2>4. TypeMemory'
        BY <1>0, <1>28 DEF DropTracks, disk, memory, walk, history, Load, Unload, Lose,
           TypeMemory
    <2>5. TypeWalk' /\ TypePlace'
        BY <1>0, <1>28 DEF DropTracks, disk, memory, walk, history, Load, Unload, Lose,
           TypeWalk, TypePlace
    <2>6. TypeHistory'
        BY <1>0, <1>28 DEF DropTracks, disk, memory, walk, history, Load, Unload, Lose,
           TypeHistory
    <2>7. faults' \in 0..MaxFaults
        BY <1>0, <1>28, FaultType DEF DropTracks, disk, memory, walk, history, Load, Unload,
           Lose
    <2> QED
        BY <2>1, <2>2, <2>3, <2>4, <2>5, <2>6, <2>7
<1>29. ASSUME NEW s \in Source, ForgetOne(s) PROVE Typed
    <2>1. packages' \subseteq Package
        BY <1>0, <1>29 DEF ForgetOne, disk, memory, walk, history, Load, Unload, Lose
    <2>2. Records(tracks')
        BY <1>0, <1>29 DEF ForgetOne, disk, memory, walk, history, Load, Unload, Lose
    <2>3. trackrefs' \in [Source -> [FileKey -> Nat]]
        BY <1>0, <1>29 DEF ForgetOne, disk, memory, walk, history, Load, Unload, Lose
    <2>4. TypeMemory'
        BY <1>0, <1>29 DEF ForgetOne, disk, memory, walk, history, Load, Unload, Lose,
           TypeMemory
    <2>5. TypeWalk' /\ TypePlace'
        BY <1>0, <1>29 DEF ForgetOne, disk, memory, walk, history, Load, Unload, Lose,
           TypeWalk, TypePlace
    <2>6. TypeHistory'
        BY <1>0, <1>29 DEF ForgetOne, disk, memory, walk, history, Load, Unload, Lose,
           TypeHistory
    <2>7. faults' \in 0..MaxFaults
        BY <1>0, <1>29, FaultType DEF ForgetOne, disk, memory, walk, history, Load, Unload,
           Lose
    <2> QED
        BY <2>1, <2>2, <2>3, <2>4, <2>5, <2>6, <2>7
<1>30. ASSUME NEW s \in Source, RecreateOne(s) PROVE Typed
    <2>u. PICK C : trackrefs' = [trackrefs EXCEPT ![s] = [f \in FileKey |->
                IF f \in C THEN @[f] + 1 ELSE @[f]]]
        BY Zenon, <1>30 DEF RecreateOne
    <2>t. \A S : [trackrefs EXCEPT ![s] = [f \in FileKey |->
                IF f \in S THEN @[f] + 1 ELSE @[f]]] \in [Source -> [FileKey -> Nat]]
        BY <1>0, <1>30, RecreatedRefs
    <2>1. packages' \subseteq Package
        BY <1>0, <1>30 DEF RecreateOne, disk, memory, walk, history, Load, Unload, Lose
    <2>2. Records(tracks')
        BY <1>0, <1>30 DEF RecreateOne, disk, memory, walk, history, Load, Unload, Lose
    <2>3. trackrefs' \in [Source -> [FileKey -> Nat]]
        BY <2>t, <2>u
    <2>4. TypeMemory'
        BY <1>0, <1>30 DEF RecreateOne, disk, memory, walk, history, Load, Unload, Lose,
           TypeMemory
    <2>5. TypeWalk' /\ TypePlace'
        BY <1>0, <1>30 DEF RecreateOne, disk, memory, walk, history, Load, Unload, Lose,
           TypeWalk, TypePlace
    <2>6. TypeHistory'
        BY <1>0, <1>30 DEF RecreateOne, disk, memory, walk, history, Load, Unload, Lose,
           TypeHistory
    <2>7. faults' \in 0..MaxFaults
        BY <1>0, <1>30, FaultType DEF RecreateOne, disk, memory, walk, history, Load,
           Unload, Lose
    <2> QED
        BY <2>1, <2>2, <2>3, <2>4, <2>5, <2>6, <2>7
<1>31. ASSUME ForgetEnd PROVE Typed
    <2>1. packages' \subseteq Package
        BY <1>0, <1>31 DEF ForgetEnd, disk, memory, walk, history, Load, Unload, Lose
    <2>2. Records(tracks')
        BY <1>0, <1>31 DEF ForgetEnd, disk, memory, walk, history, Load, Unload, Lose
    <2>3. trackrefs' \in [Source -> [FileKey -> Nat]]
        BY <1>0, <1>31 DEF ForgetEnd, disk, memory, walk, history, Load, Unload, Lose
    <2>4. TypeMemory'
        BY <1>0, <1>31 DEF ForgetEnd, disk, memory, walk, history, Load, Unload, Lose,
           TypeMemory
    <2>5. TypeWalk' /\ TypePlace'
        BY <1>0, <1>31, UntidySubset DEF ForgetEnd, disk, memory, walk, history, Load,
           Unload, Lose, TypeWalk, TypePlace, TypeMemory, Records, Record, AfterSave
    <2>6. TypeHistory'
        BY <1>0, <1>31 DEF ForgetEnd, disk, memory, walk, history, Load, Unload, Lose,
           TypeHistory
    <2>7. faults' \in 0..MaxFaults
        BY <1>0, <1>31, FaultType DEF ForgetEnd, disk, memory, walk, history, Load, Unload,
           Lose
    <2> QED
        BY <2>1, <2>2, <2>3, <2>4, <2>5, <2>6, <2>7
<1>32. ASSUME RecreateEnd PROVE Typed
    <2>1. packages' \subseteq Package
        BY <1>0, <1>32 DEF RecreateEnd, disk, memory, walk, history, Load, Unload, Lose
    <2>2. Records(tracks')
        BY <1>0, <1>32 DEF RecreateEnd, disk, memory, walk, history, Load, Unload, Lose
    <2>3. trackrefs' \in [Source -> [FileKey -> Nat]]
        BY <1>0, <1>32 DEF RecreateEnd, disk, memory, walk, history, Load, Unload, Lose
    <2>4. TypeMemory'
        BY <1>0, <1>32 DEF RecreateEnd, disk, memory, walk, history, Load, Unload, Lose,
           TypeMemory
    <2>5. TypeWalk' /\ TypePlace'
        BY <1>0, <1>32 DEF RecreateEnd, disk, memory, walk, history, Load, Unload, Lose,
           TypeWalk, TypePlace
    <2>6. TypeHistory'
        BY <1>0, <1>32 DEF RecreateEnd, disk, memory, walk, history, Load, Unload, Lose,
           TypeHistory
    <2>7. faults' \in 0..MaxFaults
        BY <1>0, <1>32, FaultType DEF RecreateEnd, disk, memory, walk, history, Load,
           Unload, Lose
    <2> QED
        BY <2>1, <2>2, <2>3, <2>4, <2>5, <2>6, <2>7
<1>33. ASSUME Crash PROVE Typed
    <2>1. packages' \subseteq Package
        BY <1>0, <1>33 DEF Crash, disk, memory, walk, history, Load, Unload, Lose
    <2>2. Records(tracks')
        BY <1>0, <1>33 DEF Crash, disk, memory, walk, history, Load, Unload, Lose
    <2>3. trackrefs' \in [Source -> [FileKey -> Nat]]
        BY <1>0, <1>33 DEF Crash, disk, memory, walk, history, Load, Unload, Lose
    <2>4. TypeMemory'
        BY <1>0, <1>33, LoadedRecord, NoRecord, AddedRecord, RemovedRecord DEF Crash, disk,
           memory, walk, history, Load, Unload, Lose, TypeMemory, Records, TypeWalk,
           TypePlace
    <2>5. TypeWalk' /\ TypePlace'
        BY <1>0, <1>33 DEF Crash, disk, memory, walk, history, Load, Unload, Lose, TypeWalk,
           TypePlace
    <2>6. TypeHistory'
        BY <1>0, <1>p, <1>33, <1>y DEF Crash, TypeHistory, disk, memory, walk, history,
           Load, Unload, Lose
    <2>7. faults' \in 0..MaxFaults
        BY <1>0, <1>33, FaultType DEF Crash, disk, memory, walk, history, Load, Unload, Lose
    <2> QED
        BY <2>1, <2>2, <2>3, <2>4, <2>5, <2>6, <2>7
<1>34. CASE UNCHANGED vars
    BY <1>34 DEF vars, disk, memory, walk, history, TypeOK
<1>35. CASE Next
    <2>1. Typed
        <3> HIDE DEF Typed
        <3> QED
            BY <1>35, SettingType, <1>1, <1>2, <1>3, <1>4, <1>5, <1>6, <1>7, <1>8, <1>9,
               <1>10, <1>11, <1>12, <1>13, <1>14, <1>15, <1>16, <1>17, <1>18, <1>19, <1>20,
               <1>21, <1>22, <1>23, <1>24, <1>25, <1>26, <1>27, <1>28, <1>29, <1>30, <1>31,
               <1>32, <1>33 DEF Next, Command
    <2>2. setting' \in Settings
        BY <1>35, <1>0 DEF Next
    <2>3. QED
        BY Zenon, <2>1, <2>2 DEF TypeOK, Records, Record, TypeMemory, TypeWalk, TypePlace,
           TypeHistory
<1>36. QED
    BY <1>34, <1>35

LEMMA PlacedStep ==
    ASSUME TypeOK, Placed, Next
    PROVE  JobPlaced' /\ MemoryPlaced' /\ LoadedKept' /\ TodoPlaced'
<1> DEFINE Good == JobPlaced' /\ MemoryPlaced' /\ LoadedKept' /\ TodoPlaced'
<1>s. UNCHANGED setting
    BY DEF Next
<1>0. TypeMemory /\ TypeWalk /\ TypePlace /\ Records(tracks)
    BY TypeParts
<1>p. JobPlaced /\ MemoryPlaced /\ LoadedKept /\ TodoPlaced
    BY DEF Placed
<1>1. ASSUME NEW s \in Source, Summon(s) PROVE Good
    <2>1. JobPlaced'
        BY <1>1 DEF Summon, JobPlaced, Placed, disk, memory, walk, history, Load, Unload,
           Lose
    <2>2. MemoryPlaced'
        BY <1>0, <1>1 DEF Summon, disk, memory, walk, history, Load, Unload, Lose,
           MemoryPlaced, JobPlaced, Placed, Loaded
    <2>3. LoadedKept'
        BY <1>0, <1>1 DEF Summon, disk, memory, walk, history, Load, Unload, Lose, Placed,
           LoadedKept, Loaded
    <2>4. TodoPlaced'
        BY <1>0, <1>1 DEF Summon, disk, memory, walk, history, Load, Unload, Lose, Placed,
           TodoPlaced, ToDrop, AfterSave
    <2>5. QED
        BY <2>1, <2>2, <2>3, <2>4
<1>2. ASSUME NEW s \in Source, Switch(s) PROVE Good
    <2>1. JobPlaced'
        BY <1>2 DEF Switch, JobPlaced, Placed, disk, memory, walk, history, Load, Unload,
           Lose
    <2>2. MemoryPlaced'
        BY <1>0, <1>2 DEF Switch, disk, memory, walk, history, Load, Unload, Lose,
           MemoryPlaced, JobPlaced, Placed, Loaded
    <2>3. LoadedKept'
        BY <1>0, <1>p, <1>2, SourceAssumption DEF Switch, disk, memory, walk, history, Load,
           Unload, Lose, LoadedKept, Loaded, MemoryPlaced, JobPlaced, Saved, Unsaved,
           AddFileKey, RemoveFileKeys, NoFiles, Records
    <2>4. TodoPlaced'
        BY <1>0, <1>2 DEF Switch, disk, memory, walk, history, Load, Unload, Lose, Placed,
           TodoPlaced, ToDrop, AfterSave
    <2>5. QED
        BY <2>1, <2>2, <2>3, <2>4
<1>3. ASSUME New PROVE Good
    <2>1. JobPlaced'
        BY <1>3 DEF New, JobPlaced, Placed, disk, memory, walk, history, Load, Unload, Lose
    <2>2. MemoryPlaced'
        BY <1>0, <1>3 DEF New, disk, memory, walk, history, Load, Unload, Lose,
           MemoryPlaced, JobPlaced, Placed, Loaded
    <2>3. LoadedKept'
        BY <1>0, <1>3 DEF New, disk, memory, walk, history, Load, Unload, Lose, Placed,
           LoadedKept, Loaded
    <2>4. TodoPlaced'
        BY <1>0, <1>3 DEF New, disk, memory, walk, history, Load, Unload, Lose, Placed,
           TodoPlaced, ToDrop, AfterSave
    <2>5. QED
        BY <2>1, <2>2, <2>3, <2>4
<1>4. ASSUME NEW p \in Package, NEW q \in Package \cup {NoPackage},
             AddPackage(p, q)
      PROVE  Good
    <2>1. JobPlaced'
        BY <1>4 DEF AddPackage, JobPlaced, Placed, disk, memory, walk, history, Load,
           Unload, Lose
    <2>2. MemoryPlaced'
        BY <1>0, <1>4 DEF AddPackage, disk, memory, walk, history, Load, Unload, Lose,
           MemoryPlaced, JobPlaced, Placed, Loaded
    <2>3. LoadedKept'
        BY <1>0, <1>4 DEF AddPackage, disk, memory, walk, history, Load, Unload, Lose,
           Placed, LoadedKept, Loaded
    <2>4. TodoPlaced'
        BY <1>0, <1>4 DEF AddPackage, disk, memory, walk, history, Load, Unload, Lose,
           Placed, TodoPlaced, ToDrop, AfterSave
    <2>5. QED
        BY <2>1, <2>2, <2>3, <2>4
<1>5. ASSUME NEW p \in Package, NEW q \in Package \cup {NoPackage},
             ChangeUntracked(p, q)
      PROVE  Good
    <2>1. JobPlaced'
        BY <1>5 DEF ChangeUntracked, JobPlaced, Placed, disk, memory, walk, history, Load,
           Unload, Lose
    <2>2. MemoryPlaced'
        BY <1>0, <1>5 DEF ChangeUntracked, disk, memory, walk, history, Load, Unload, Lose,
           MemoryPlaced, JobPlaced, Placed, Loaded
    <2>3. LoadedKept'
        BY <1>0, <1>5 DEF ChangeUntracked, disk, memory, walk, history, Load, Unload, Lose,
           Placed, LoadedKept, Loaded
    <2>4. TodoPlaced'
        BY <1>0, <1>5 DEF ChangeUntracked, disk, memory, walk, history, Load, Unload, Lose,
           Placed, TodoPlaced, ToDrop, AfterSave
    <2>5. QED
        BY <2>1, <2>2, <2>3, <2>4
<1>6. ASSUME NEW p \in Package, RemovePackage(p) PROVE Good
    <2>1. JobPlaced'
        BY <1>6 DEF RemovePackage, JobPlaced, Placed, disk, memory, walk, history, Load,
           Unload, Lose
    <2>2. MemoryPlaced'
        BY <1>0, <1>6 DEF RemovePackage, disk, memory, walk, history, Load, Unload, Lose,
           MemoryPlaced, JobPlaced, Placed, Loaded
    <2>3. LoadedKept'
        BY <1>0, <1>6 DEF RemovePackage, disk, memory, walk, history, Load, Unload, Lose,
           Placed, LoadedKept, Loaded
    <2>4. TodoPlaced'
        BY <1>0, <1>6 DEF RemovePackage, disk, memory, walk, history, Load, Unload, Lose,
           Placed, TodoPlaced, ToDrop, AfterSave
    <2>5. QED
        BY <2>1, <2>2, <2>3, <2>4
<1>7. ASSUME NEW f \in FileKey, InsertFile(f) PROVE Good
    <2>1. JobPlaced'
        BY <1>7 DEF InsertFile, JobPlaced, Placed, disk, memory, walk, history, Load,
           Unload, Lose
    <2>2. MemoryPlaced'
        BY <1>0, <1>7 DEF InsertFile, disk, memory, walk, history, Load, Unload, Lose,
           MemoryPlaced, JobPlaced, Placed, Loaded
    <2>3. LoadedKept'
        BY <1>0, <1>p, <1>7, SourceAssumption DEF InsertFile, disk, memory, walk, history,
           Load, Unload, Lose, LoadedKept, Loaded, MemoryPlaced, JobPlaced, Saved, Unsaved,
           AddFileKey, RemoveFileKeys, NoFiles, Records
    <2>4. TodoPlaced'
        BY <1>0, <1>7 DEF InsertFile, disk, memory, walk, history, Load, Unload, Lose,
           Placed, TodoPlaced, ToDrop, AfterSave
    <2>5. QED
        BY <2>1, <2>2, <2>3, <2>4
<1>8. ASSUME NEW f \in FileKey, TidyFile(f) PROVE Good
    <2>1. JobPlaced'
        BY <1>8 DEF TidyFile, JobPlaced, Placed, disk, memory, walk, history, Load, Unload,
           Lose
    <2>2. MemoryPlaced'
        BY <1>0, <1>8 DEF TidyFile, disk, memory, walk, history, Load, Unload, Lose,
           MemoryPlaced, JobPlaced, Placed, Loaded
    <2>3. LoadedKept'
        BY <1>0, <1>8 DEF TidyFile, disk, memory, walk, history, Load, Unload, Lose, Placed,
           LoadedKept, Loaded
    <2>4. TodoPlaced'
        BY <1>0, <1>s, <1>p, <1>8, UntidySubset DEF TidyFile, disk, memory, walk, history,
           Load, Unload, Lose, TodoPlaced, ToDrop, JobPlaced, Untidy, Needed, InUse, mode
    <2>5. QED
        BY <2>1, <2>2, <2>3, <2>4
<1>9. ASSUME NEW f \in FileKey, AddExtra(f) PROVE Good
    <2>1. JobPlaced'
        BY <1>9 DEF AddExtra, JobPlaced, Placed, disk, memory, walk, history, Load, Unload,
           Lose
    <2>2. MemoryPlaced'
        BY <1>0, <1>9 DEF AddExtra, disk, memory, walk, history, Load, Unload, Lose,
           MemoryPlaced, JobPlaced, Placed, Loaded
    <2>3. LoadedKept'
        BY <1>0, <1>p, <1>9, SourceAssumption DEF AddExtra, disk, memory, walk, history,
           Load, Unload, Lose, LoadedKept, Loaded, MemoryPlaced, JobPlaced, Saved, Unsaved,
           AddFileKey, RemoveFileKeys, NoFiles, Records
    <2>4. TodoPlaced'
        BY <1>0, <1>9 DEF AddExtra, disk, memory, walk, history, Load, Unload, Lose, Placed,
           TodoPlaced, ToDrop, AfterSave
    <2>5. QED
        BY <2>1, <2>2, <2>3, <2>4
<1>10. ASSUME InsertEnd PROVE Good
    <2>1. JobPlaced'
        BY <1>10 DEF InsertEnd, JobPlaced, Placed, disk, memory, walk, history, Load,
           Unload, Lose
    <2>2. MemoryPlaced'
        BY <1>0, <1>10, SourceAssumption DEF InsertEnd, disk, memory, walk, history, Load,
           Unload, Lose, MemoryPlaced, JobPlaced, Placed, TypeMemory, TypeWalk, AfterSave,
           Loaded
    <2>3. LoadedKept'
        BY <1>0, <1>p, <1>10, SourceAssumption DEF InsertEnd, disk, memory, walk, history,
           Load, Unload, Lose, LoadedKept, Loaded, MemoryPlaced, JobPlaced, Saved, Unsaved,
           AddFileKey, RemoveFileKeys, NoFiles, Records
    <2>4. TodoPlaced'
        BY <1>0, <1>10 DEF InsertEnd, disk, memory, walk, history, Load, Unload, Lose,
           Placed, TodoPlaced, ToDrop, AfterSave
    <2>5. QED
        BY <2>1, <2>2, <2>3, <2>4
<1>11. ASSUME DropOld PROVE Good
    <2>1. JobPlaced'
        BY <1>11 DEF DropOld, JobPlaced, Placed, disk, memory, walk, history, Load, Unload,
           Lose
    <2>2. MemoryPlaced'
        BY <1>0, <1>11 DEF DropOld, disk, memory, walk, history, Load, Unload, Lose,
           MemoryPlaced, JobPlaced, Placed, Loaded
    <2>3. LoadedKept'
        BY <1>0, <1>p, <1>11, SourceAssumption DEF DropOld, disk, memory, walk, history,
           Load, Unload, Lose, LoadedKept, Loaded, MemoryPlaced, JobPlaced, Saved, Unsaved,
           AddFileKey, RemoveFileKeys, NoFiles, Records
    <2>4. TodoPlaced'
        BY <1>0, <1>11 DEF DropOld, disk, memory, walk, history, Load, Unload, Lose, Placed,
           TodoPlaced, ToDrop, AfterSave
    <2>5. QED
        BY <2>1, <2>2, <2>3, <2>4
<1>12. ASSUME Abandon PROVE Good
    <2>1. JobPlaced'
        BY <1>12 DEF Abandon, JobPlaced, Placed, disk, memory, walk, history, Load, Unload,
           Lose
    <2>2. MemoryPlaced'
        BY <1>0, <1>12 DEF Abandon, disk, memory, walk, history, Load, Unload, Lose,
           MemoryPlaced, JobPlaced, Placed, Loaded
    <2>3. LoadedKept'
        BY <1>0, <1>p, <1>12, SourceAssumption DEF Abandon, disk, memory, walk, history,
           Load, Unload, Lose, LoadedKept, Loaded, MemoryPlaced, JobPlaced, Saved, Unsaved,
           AddFileKey, RemoveFileKeys, NoFiles, Records
    <2>4. TodoPlaced'
        BY <1>0, <1>12 DEF Abandon, disk, memory, walk, history, Load, Unload, Lose, Placed,
           TodoPlaced, ToDrop, AfterSave
    <2>5. QED
        BY <2>1, <2>2, <2>3, <2>4
<1>13. ASSUME Finish PROVE Good
    <2>1. JobPlaced'
        BY <1>13 DEF Finish, JobPlaced, Placed, disk, memory, walk, history, Load, Unload,
           Lose
    <2>2. MemoryPlaced'
        BY <1>0, <1>13 DEF Finish, disk, memory, walk, history, Load, Unload, Lose,
           MemoryPlaced, JobPlaced, Placed, Loaded
    <2>3. LoadedKept'
        BY <1>0, <1>13 DEF Finish, disk, memory, walk, history, Load, Unload, Lose, Placed,
           LoadedKept, Loaded
    <2>4. TodoPlaced'
        BY <1>0, <1>13 DEF Finish, disk, memory, walk, history, Load, Unload, Lose, Placed,
           TodoPlaced, ToDrop, AfterSave
    <2>5. QED
        BY <2>1, <2>2, <2>3, <2>4
<1>14. ASSUME FinishNext PROVE Good
    <2>t. pc' = "tidy" => job' # "removetrack"
        BY <1>p, <1>14 DEF FinishNext, JobPlaced
    <2>u. pc' = "tidy" => todo' = Untidy(counts)'
        <3>1. SUFFICES ASSUME pc' = "tidy" PROVE todo' = Untidy(counts)'
            OBVIOUS
        <3>2. PICK c : todo' = Untidy(c) /\ counts' = c
            BY <1>14, <3>1 DEF FinishNext, Load, Loaded, memory
        <3>3. QED
            BY <1>s, <3>2 DEF Untidy, mode, Needed, InUse
    <2>1. JobPlaced'
        BY <1>14 DEF FinishNext, JobPlaced, Placed, disk, memory, walk, history, Load,
           Unload, Lose
    <2>2. MemoryPlaced'
        BY <1>0, <1>14, SourceAssumption DEF FinishNext, disk, memory, walk, history, Load,
           Unload, Lose, MemoryPlaced, JobPlaced, Placed, TypeMemory, TypeWalk, AfterSave,
           Loaded
    <2>3. LoadedKept'
        BY <1>0, <1>14 DEF FinishNext, disk, memory, walk, history, Load, Unload, Lose,
           Placed, LoadedKept, Loaded
    <2>4. TodoPlaced'
        BY <1>p, <2>t, <2>u, UntidySubset DEF TodoPlaced, ToDrop, JobPlaced
    <2>5. QED
        BY <2>1, <2>2, <2>3, <2>4
<1>15. ASSUME TidySave PROVE Good
    <2>1. JobPlaced'
        BY <1>0, <1>15 DEF TidySave, JobPlaced, Placed, AfterSave, disk, memory, walk,
           history, Load, Unload, Lose
    <2>2. MemoryPlaced'
        BY <1>0, <1>15, SourceAssumption DEF TidySave, disk, memory, walk, history, Load,
           Unload, Lose, MemoryPlaced, JobPlaced, Placed, TypeMemory, TypeWalk, AfterSave,
           Loaded
    <2>3. LoadedKept'
        BY <1>0, <1>p, <1>15, SourceAssumption DEF TidySave, disk, memory, walk, history,
           Load, Unload, Lose, LoadedKept, Loaded, MemoryPlaced, JobPlaced, Saved, Unsaved,
           AddFileKey, RemoveFileKeys, NoFiles, Records
    <2>4. TodoPlaced'
        BY <1>0, <1>15 DEF TidySave, disk, memory, walk, history, Load, Unload, Lose,
           Placed, TodoPlaced, ToDrop, AfterSave
    <2>5. QED
        BY <2>1, <2>2, <2>3, <2>4
<1>16. ASSUME TidyTracks PROVE Good
    <2>1. JobPlaced'
        BY <1>16 DEF TidyTracks, JobPlaced, Placed, disk, memory, walk, history, Load,
           Unload, Lose
    <2>2. MemoryPlaced'
        BY <1>0, <1>16 DEF TidyTracks, disk, memory, walk, history, Load, Unload, Lose,
           MemoryPlaced, JobPlaced, Placed, Loaded
    <2>3. LoadedKept'
        BY <1>0, <1>16 DEF TidyTracks, disk, memory, walk, history, Load, Unload, Lose,
           Placed, LoadedKept, Loaded
    <2>4. TodoPlaced'
        BY <1>0, <1>16 DEF TidyTracks, disk, memory, walk, history, Load, Unload, Lose,
           Placed, TodoPlaced, ToDrop, AfterSave
    <2>5. QED
        BY <2>1, <2>2, <2>3, <2>4
<1>17. ASSUME Retrack PROVE Good
    <2>1. JobPlaced'
        BY <1>17 DEF Retrack, JobPlaced, Placed, disk, memory, walk, history, Load, Unload,
           Lose
    <2>2. MemoryPlaced'
        BY <1>0, <1>17 DEF Retrack, disk, memory, walk, history, Load, Unload, Lose,
           MemoryPlaced, JobPlaced, Placed, Loaded
    <2>3. LoadedKept'
        BY <1>0, <1>17 DEF Retrack, disk, memory, walk, history, Load, Unload, Lose, Placed,
           LoadedKept, Loaded
    <2>4. TodoPlaced'
        BY <1>0, <1>17 DEF Retrack, disk, memory, walk, history, Load, Unload, Lose, Placed,
           TodoPlaced, ToDrop, AfterSave
    <2>5. QED
        BY <2>1, <2>2, <2>3, <2>4
<1>18. ASSUME ResetEnd PROVE Good
    <2>1. JobPlaced'
        BY <1>18 DEF ResetEnd, JobPlaced, Placed, disk, memory, walk, history, Load, Unload,
           Lose
    <2>2. MemoryPlaced'
        BY <1>0, <1>18 DEF ResetEnd, disk, memory, walk, history, Load, Unload, Lose,
           MemoryPlaced, JobPlaced, Placed, Loaded
    <2>3. LoadedKept'
        BY <1>0, <1>18 DEF ResetEnd, disk, memory, walk, history, Load, Unload, Lose,
           Placed, LoadedKept, Loaded
    <2>4. TodoPlaced'
        BY <1>0, <1>18 DEF ResetEnd, disk, memory, walk, history, Load, Unload, Lose,
           Placed, TodoPlaced, ToDrop, AfterSave
    <2>5. QED
        BY <2>1, <2>2, <2>3, <2>4
<1>19. ASSUME SaveRetracked PROVE Good
    <2>1. JobPlaced'
        BY <1>19 DEF SaveRetracked, JobPlaced, Placed, disk, memory, walk, history, Load,
           Unload, Lose
    <2>2. MemoryPlaced'
        BY <1>0, <1>19 DEF SaveRetracked, disk, memory, walk, history, Load, Unload, Lose,
           MemoryPlaced, JobPlaced, Placed, Loaded
    <2>3. LoadedKept'
        BY <1>0, <1>p, <1>19, SourceAssumption DEF SaveRetracked, disk, memory, walk,
           history, Load, Unload, Lose, LoadedKept, Loaded, MemoryPlaced, JobPlaced, Saved,
           Unsaved, AddFileKey, RemoveFileKeys, NoFiles, Records
    <2>4. TodoPlaced'
        BY <1>0, <1>19 DEF SaveRetracked, disk, memory, walk, history, Load, Unload, Lose,
           Placed, TodoPlaced, ToDrop, AfterSave
    <2>5. QED
        BY <2>1, <2>2, <2>3, <2>4
<1>20. ASSUME RetrackEnd PROVE Good
    <2>1. JobPlaced'
        BY <1>20 DEF RetrackEnd, JobPlaced, Placed, disk, memory, walk, history, Load,
           Unload, Lose
    <2>2. MemoryPlaced'
        BY <1>0, <1>20 DEF RetrackEnd, disk, memory, walk, history, Load, Unload, Lose,
           MemoryPlaced, JobPlaced, Placed, Loaded
    <2>3. LoadedKept'
        BY <1>0, <1>20 DEF RetrackEnd, disk, memory, walk, history, Load, Unload, Lose,
           Placed, LoadedKept, Loaded
    <2>4. TodoPlaced'
        BY <1>0, <1>20 DEF RetrackEnd, disk, memory, walk, history, Load, Unload, Lose,
           Placed, TodoPlaced, ToDrop, AfterSave
    <2>5. QED
        BY <2>1, <2>2, <2>3, <2>4
<1>21. ASSUME NEW s \in Source, ResetOne(s) PROVE Good
    <2>1. JobPlaced'
        BY <1>21 DEF ResetOne, JobPlaced, Placed, disk, memory, walk, history, Load, Unload,
           Lose
    <2>2. MemoryPlaced'
        BY <1>0, <1>p, <1>21 DEF ResetOne, memory, MemoryPlaced, JobPlaced, Saved, TypePlace
    <2>3. LoadedKept'
        BY <1>0, <1>p, <1>21, SourceAssumption DEF ResetOne, disk, memory, walk, history,
           Load, Unload, Lose, LoadedKept, Loaded, MemoryPlaced, JobPlaced, Saved, Unsaved,
           AddFileKey, RemoveFileKeys, NoFiles, Records
    <2>4. TodoPlaced'
        BY <1>0, <1>21 DEF ResetOne, disk, memory, walk, history, Load, Unload, Lose,
           Placed, TodoPlaced, ToDrop, AfterSave
    <2>5. QED
        BY <2>1, <2>2, <2>3, <2>4
<1>22. ASSUME NEW p \in Package, RetrackOne(p) PROVE Good
    <2>1. JobPlaced'
        BY <1>22 DEF RetrackOne, JobPlaced, Placed, disk, memory, walk, history, Load,
           Unload, Lose
    <2>2. MemoryPlaced'
        BY <1>0, <1>22 DEF RetrackOne, disk, memory, walk, history, Load, Unload, Lose,
           MemoryPlaced, JobPlaced, Placed, Loaded
    <2>3. LoadedKept'
        BY <1>0, <1>22 DEF RetrackOne, disk, memory, walk, history, Load, Unload, Lose,
           Placed, LoadedKept, Loaded
    <2>4. TodoPlaced'
        BY <1>0, <1>22 DEF RetrackOne, disk, memory, walk, history, Load, Unload, Lose,
           Placed, TodoPlaced, ToDrop, AfterSave
    <2>5. QED
        BY <2>1, <2>2, <2>3, <2>4
<1>23. ASSUME NEW p \in Package, RemoveSrcOne(p) PROVE Good
    <2>1. JobPlaced'
        BY <1>23 DEF RemoveSrcOne, JobPlaced, Placed, disk, memory, walk, history, Load,
           Unload, Lose
    <2>2. MemoryPlaced'
        BY <1>0, <1>23 DEF RemoveSrcOne, disk, memory, walk, history, Load, Unload, Lose,
           MemoryPlaced, JobPlaced, Placed, Loaded
    <2>3. LoadedKept'
        BY <1>0, <1>p, <1>23, SourceAssumption DEF RemoveSrcOne, disk, memory, walk,
           history, Load, Unload, Lose, LoadedKept, Loaded, MemoryPlaced, JobPlaced, Saved,
           Unsaved, AddFileKey, RemoveFileKeys, NoFiles, Records
    <2>4. TodoPlaced'
        BY <1>0, <1>23 DEF RemoveSrcOne, disk, memory, walk, history, Load, Unload, Lose,
           Placed, TodoPlaced, ToDrop, AfterSave
    <2>5. QED
        BY <2>1, <2>2, <2>3, <2>4
<1>24. ASSUME NEW s \in Source, RemoveTrack(s) PROVE Good
    <2>1. JobPlaced'
        BY <1>24 DEF RemoveTrack, JobPlaced, Placed, disk, memory, walk, history, Load,
           Unload, Lose
    <2>2. MemoryPlaced'
        BY <1>0, <1>24 DEF RemoveTrack, disk, memory, walk, history, Load, Unload, Lose,
           MemoryPlaced, JobPlaced, Placed, Loaded
    <2>3. LoadedKept'
        BY <1>0, <1>24 DEF RemoveTrack, disk, memory, walk, history, Load, Unload, Lose,
           Placed, LoadedKept, Loaded
    <2>4. TodoPlaced'
        BY <1>24 DEF RemoveTrack, Load, Loaded, TodoPlaced, ToDrop
    <2>5. QED
        BY <2>1, <2>2, <2>3, <2>4
<1>25. ASSUME NEW s \in Source, RemoveSrc(s) PROVE Good
    <2>1. JobPlaced'
        BY <1>25 DEF RemoveSrc, JobPlaced, Placed, disk, memory, walk, history, Load,
           Unload, Lose
    <2>2. MemoryPlaced'
        BY <1>0, <1>25 DEF RemoveSrc, disk, memory, walk, history, Load, Unload, Lose,
           MemoryPlaced, JobPlaced, Placed, Loaded
    <2>3. LoadedKept'
        BY <1>0, <1>25 DEF RemoveSrc, disk, memory, walk, history, Load, Unload, Lose,
           Placed, LoadedKept, Loaded
    <2>4. TodoPlaced'
        BY <1>0, <1>25 DEF RemoveSrc, disk, memory, walk, history, Load, Unload, Lose,
           Placed, TodoPlaced, ToDrop, AfterSave
    <2>5. QED
        BY <2>1, <2>2, <2>3, <2>4
<1>26. ASSUME RemoveSrcEnd PROVE Good
    <2>1. JobPlaced'
        BY <1>26 DEF RemoveSrcEnd, JobPlaced, Placed, disk, memory, walk, history, Load,
           Unload, Lose
    <2>2. MemoryPlaced'
        BY <1>0, <1>26 DEF RemoveSrcEnd, disk, memory, walk, history, Load, Unload, Lose,
           MemoryPlaced, JobPlaced, Placed, Loaded
    <2>3. LoadedKept'
        BY <1>0, <1>p, <1>26, SourceAssumption DEF RemoveSrcEnd, disk, memory, walk,
           history, Load, Unload, Lose, LoadedKept, Loaded, MemoryPlaced, JobPlaced, Saved,
           Unsaved, AddFileKey, RemoveFileKeys, NoFiles, Records
    <2>4. TodoPlaced'
        BY <1>0, <1>s, <1>p, <1>26, UntidySubset DEF RemoveSrcEnd, disk, memory, walk,
           history, Load, Unload, Lose, TodoPlaced, ToDrop, JobPlaced, Untidy, Needed,
           InUse, mode
    <2>5. QED
        BY <2>1, <2>2, <2>3, <2>4
<1>27. ASSUME Rereference PROVE Good
    <2>1. JobPlaced'
        BY <1>27 DEF Rereference, JobPlaced, Placed, disk, memory, walk, history, Load,
           Unload, Lose
    <2>2. MemoryPlaced'
        BY <1>0, <1>27 DEF Rereference, disk, memory, walk, history, Load, Unload, Lose,
           MemoryPlaced, JobPlaced, Placed, Loaded
    <2>3. LoadedKept'
        BY <1>0, <1>27 DEF Rereference, disk, memory, walk, history, Load, Unload, Lose,
           Placed, LoadedKept, Loaded
    <2>4. TodoPlaced'
        BY <1>0, <1>27 DEF Rereference, disk, memory, walk, history, Load, Unload, Lose,
           Placed, TodoPlaced, ToDrop, AfterSave
    <2>5. QED
        BY <2>1, <2>2, <2>3, <2>4
<1>28. ASSUME DropTracks PROVE Good
    <2>1. JobPlaced'
        BY <1>28 DEF DropTracks, JobPlaced, Placed, disk, memory, walk, history, Load,
           Unload, Lose
    <2>2. MemoryPlaced'
        BY <1>0, <1>28 DEF DropTracks, disk, memory, walk, history, Load, Unload, Lose,
           MemoryPlaced, JobPlaced, Placed, Loaded
    <2>3. LoadedKept'
        BY <1>0, <1>p, <1>28, SourceAssumption DEF DropTracks, disk, memory, walk, history,
           Load, Unload, Lose, LoadedKept, Loaded, MemoryPlaced, JobPlaced, Saved, Unsaved,
           AddFileKey, RemoveFileKeys, NoFiles, Records
    <2>4. TodoPlaced'
        BY <1>0, <1>28 DEF DropTracks, disk, memory, walk, history, Load, Unload, Lose,
           Placed, TodoPlaced, ToDrop, AfterSave
    <2>5. QED
        BY <2>1, <2>2, <2>3, <2>4
<1>29. ASSUME NEW s \in Source, ForgetOne(s) PROVE Good
    <2>1. JobPlaced'
        BY <1>29 DEF ForgetOne, JobPlaced, Placed, disk, memory, walk, history, Load,
           Unload, Lose
    <2>2. MemoryPlaced'
        BY <1>0, <1>29 DEF ForgetOne, disk, memory, walk, history, Load, Unload, Lose,
           MemoryPlaced, JobPlaced, Placed, Loaded
    <2>3. LoadedKept'
        BY <1>0, <1>29 DEF ForgetOne, disk, memory, walk, history, Load, Unload, Lose,
           Placed, LoadedKept, Loaded
    <2>4. TodoPlaced'
        BY <1>0, <1>29 DEF ForgetOne, disk, memory, walk, history, Load, Unload, Lose,
           Placed, TodoPlaced, ToDrop, AfterSave
    <2>5. QED
        BY <2>1, <2>2, <2>3, <2>4
<1>30. ASSUME NEW s \in Source, RecreateOne(s) PROVE Good
    <2>1. JobPlaced'
        BY <1>30 DEF RecreateOne, JobPlaced, Placed, disk, memory, walk, history, Load,
           Unload, Lose
    <2>2. MemoryPlaced'
        BY <1>0, <1>30 DEF RecreateOne, disk, memory, walk, history, Load, Unload, Lose,
           MemoryPlaced, JobPlaced, Placed, Loaded
    <2>3. LoadedKept'
        BY <1>0, <1>30 DEF RecreateOne, disk, memory, walk, history, Load, Unload, Lose,
           Placed, LoadedKept, Loaded
    <2>4. TodoPlaced'
        BY <1>0, <1>30 DEF RecreateOne, disk, memory, walk, history, Load, Unload, Lose,
           Placed, TodoPlaced, ToDrop, AfterSave
    <2>5. QED
        BY <2>1, <2>2, <2>3, <2>4
<1>31. ASSUME ForgetEnd PROVE Good
    <2>1. JobPlaced'
        BY <1>31 DEF ForgetEnd, JobPlaced, Placed, disk, memory, walk, history, Load,
           Unload, Lose
    <2>2. MemoryPlaced'
        BY <1>0, <1>31 DEF ForgetEnd, disk, memory, walk, history, Load, Unload, Lose,
           MemoryPlaced, JobPlaced, Placed, Loaded
    <2>3. LoadedKept'
        BY <1>0, <1>31 DEF ForgetEnd, disk, memory, walk, history, Load, Unload, Lose,
           Placed, LoadedKept, Loaded
    <2>4. TodoPlaced'
        BY <1>0, <1>31 DEF ForgetEnd, disk, memory, walk, history, Load, Unload, Lose,
           Placed, TodoPlaced, ToDrop, AfterSave
    <2>5. QED
        BY <2>1, <2>2, <2>3, <2>4
<1>32. ASSUME RecreateEnd PROVE Good
    <2>1. JobPlaced'
        BY <1>32 DEF RecreateEnd, JobPlaced, Placed, disk, memory, walk, history, Load,
           Unload, Lose
    <2>2. MemoryPlaced'
        BY <1>0, <1>32 DEF RecreateEnd, disk, memory, walk, history, Load, Unload, Lose,
           MemoryPlaced, JobPlaced, Placed, Loaded
    <2>3. LoadedKept'
        BY <1>0, <1>32 DEF RecreateEnd, disk, memory, walk, history, Load, Unload, Lose,
           Placed, LoadedKept, Loaded
    <2>4. TodoPlaced'
        BY <1>0, <1>32 DEF RecreateEnd, disk, memory, walk, history, Load, Unload, Lose,
           Placed, TodoPlaced, ToDrop, AfterSave
    <2>5. QED
        BY <2>1, <2>2, <2>3, <2>4
<1>33. ASSUME Crash PROVE Good
    <2>1. JobPlaced'
        BY <1>33 DEF Crash, JobPlaced, Placed, disk, memory, walk, history, Load, Unload,
           Lose
    <2>2. MemoryPlaced'
        BY <1>0, <1>33 DEF Crash, disk, memory, walk, history, Load, Unload, Lose,
           MemoryPlaced, JobPlaced, Placed, Loaded
    <2>3. LoadedKept'
        BY <1>0, <1>p, <1>33, SourceAssumption DEF Crash, disk, memory, walk, history, Load,
           Unload, Lose, LoadedKept, Loaded, MemoryPlaced, JobPlaced, Saved, Unsaved,
           AddFileKey, RemoveFileKeys, NoFiles, Records
    <2>4. TodoPlaced'
        BY <1>0, <1>33 DEF Crash, disk, memory, walk, history, Load, Unload, Lose, Placed,
           TodoPlaced, ToDrop, AfterSave
    <2>5. QED
        BY <2>1, <2>2, <2>3, <2>4
<1>34. QED
    <2> HIDE DEF Good
    <2>1. Good
        BY SettingType, <1>1, <1>2, <1>3, <1>4, <1>5, <1>6, <1>7, <1>8, <1>9, <1>10, <1>11,
           <1>12, <1>13, <1>14, <1>15, <1>16, <1>17, <1>18, <1>19, <1>20, <1>21, <1>22,
           <1>23, <1>24, <1>25, <1>26, <1>27, <1>28, <1>29, <1>30, <1>31, <1>32, <1>33 DEF
           Next, Command
    <2>2. QED
        BY <2>1 DEF Good

-----------------------------------------------------------------------------
(* References: no track has one too many, none has one too few unnoticed   *)

(* A source whose record is thrown away keeps the references of files that *)
(* were never saved.                                                       *)
LEMMA UnloadedHeld ==
    ASSUME LoadedKept, NoSource \notin Source, UNCHANGED tracks, current' = NoSource
    PROVE  \A r \in Source :
              /\ Held(r)' \subseteq Held(r)
              /\ \A f \in Held(r) \ Held(r)' : <<r, f>> \in Stray
BY DEF LoadedKept, Held, CountsOf, Loaded, Stray

(* What trackingdata_finish tidies, it tidies wholly. *)
LEMMA FinishLoads ==
    ASSUME FinishNext, JobPlaced, UNCHANGED setting, pc' = "tidy"
    PROVE  todo' = Untidy(counts)' /\ ToDrop' = todo'
<1>1. PICK c : todo' = Untidy(c) /\ counts' = c
    BY DEF FinishNext, Load, Loaded, memory
<1>2. todo' = Untidy(counts)'
    BY <1>1 DEF Untidy, mode, Needed, InUse
<1>3. QED
    BY <1>2 DEF ToDrop, FinishNext, JobPlaced

(* What the steps that write no reference have to show *)
LEMMA UntouchedReferences ==
    ASSUME NoExcess, HeldReferenced, UNCHANGED <<trackrefs, exposed>>,
           orphaned \subseteq orphaned',
           \A r \in Source : Held(r)' \subseteq Held(r),
           \A r \in Source : \A f \in Held(r) \ Held(r)' : <<r, f>> \in orphaned',
           pc' = "tidy" => ToDrop' \subseteq todo'
    PROVE  NoExcess' /\ HeldReferenced'
<1>1. NoExcess'
    <2> SUFFICES ASSUME NEW s \in Source, NEW f \in FileKey PROVE AtMostOnce(s, f)'
        BY DEF NoExcess
    <2>1. AtMostOnce(s, f)
        BY DEF NoExcess
    <2>2. QED
        BY <2>1 DEF AtMostOnce
<1>2. HeldReferenced'
    BY DEF HeldReferenced, Referenced
<1>3. QED
    BY <1>1, <1>2

LEMMA ReferencesStep ==
    ASSUME TypeOK, Placed, NoExcess, HeldReferenced, Rereferencing, Next
    PROVE  NoExcess' /\ HeldReferenced' /\ Rereferencing'
<1> DEFINE Good == NoExcess' /\ HeldReferenced' /\ Rereferencing'
<1>s. UNCHANGED setting
    BY DEF Next
<1>0. /\ TypeMemory /\ TypeWalk /\ TypePlace /\ TypeHistory /\ Records(tracks)
      /\ trackrefs \in [Source -> [FileKey -> Nat]]
      /\ NoExcess /\ HeldReferenced /\ NoSource \notin Source
    BY TypeParts, SourceAssumption
<1>p. JobPlaced /\ MemoryPlaced /\ LoadedKept /\ TodoPlaced
    BY DEF Placed
<1>1. ASSUME NEW s \in Source, Summon(s) PROVE Good
    <2>h. \A r \in Source : Held(r)' = Held(r)
        BY <1>0, <1>p, <1>1 DEF Summon, disk, memory, walk, history, Load, Unload, Lose,
           Held, CountsOf, Loaded, MemoryPlaced, LoadedKept, Saved, RemoveFileKeys
    <2>t. pc' = "tidy" => ToDrop' \subseteq todo'
        BY <1>1, <1>p DEF Summon, disk, memory, walk, history, Load, Unload, Lose, JobPlaced
    <2>u. UNCHANGED <<trackrefs, exposed, orphaned>>
        BY <1>1 DEF Summon, disk, memory, walk, history, Load, Unload, Lose
    <2>1. NoExcess' /\ HeldReferenced'
        BY UntouchedReferences, <2>h, <2>t, <2>u, <1>0
    <2>2. Rereferencing'
        BY <1>p, <1>1 DEF Summon, disk, memory, walk, history, Load, Unload, Lose,
           Rereferencing, JobPlaced
    <2>3. QED
        BY <2>1, <2>2
<1>2. ASSUME NEW s \in Source, Switch(s) PROVE Good
    <2>h. \A r \in Source : Held(r)' = Held(r)
        BY <1>0, <1>p, <1>2 DEF Switch, disk, memory, walk, history, Load, Unload, Lose,
           Held, CountsOf, Loaded, MemoryPlaced, LoadedKept, Saved, RemoveFileKeys
    <2>t. pc' = "tidy" => ToDrop' \subseteq todo'
        BY <1>2, <1>p DEF Switch, disk, memory, walk, history, Load, Unload, Lose, JobPlaced
    <2>u. UNCHANGED <<trackrefs, exposed, orphaned>>
        BY <1>2 DEF Switch, disk, memory, walk, history, Load, Unload, Lose
    <2>1. NoExcess' /\ HeldReferenced'
        BY UntouchedReferences, <2>h, <2>t, <2>u, <1>0
    <2>2. Rereferencing'
        BY <1>p, <1>2 DEF Switch, disk, memory, walk, history, Load, Unload, Lose,
           Rereferencing, JobPlaced
    <2>3. QED
        BY <2>1, <2>2
<1>3. ASSUME New PROVE Good
    <2>h. \A r \in Source : Held(r)' = Held(r)
        BY <1>0, <1>p, <1>3 DEF New, disk, memory, walk, history, Load, Unload, Lose, Held,
           CountsOf, Loaded
    <2>t. pc' = "tidy" => ToDrop' \subseteq todo'
        BY <1>3, <1>p DEF New, disk, memory, walk, history, Load, Unload, Lose, JobPlaced
    <2>u. UNCHANGED <<trackrefs, exposed, orphaned>>
        BY <1>3 DEF New, disk, memory, walk, history, Load, Unload, Lose
    <2>1. NoExcess' /\ HeldReferenced'
        BY UntouchedReferences, <2>h, <2>t, <2>u, <1>0
    <2>2. Rereferencing'
        BY <1>p, <1>3 DEF New, disk, memory, walk, history, Load, Unload, Lose,
           Rereferencing, JobPlaced
    <2>3. QED
        BY <2>1, <2>2
<1>4. ASSUME NEW p \in Package, NEW q \in Package \cup {NoPackage},
             AddPackage(p, q)
      PROVE  Good
    <2>h. \A r \in Source : Held(r)' = Held(r)
        BY <1>0, <1>p, <1>4 DEF AddPackage, disk, memory, walk, history, Load, Unload, Lose,
           Held, CountsOf, Loaded
    <2>t. pc' = "tidy" => ToDrop' \subseteq todo'
        BY <1>4, <1>p DEF AddPackage, disk, memory, walk, history, Load, Unload, Lose,
           JobPlaced
    <2>u. UNCHANGED <<trackrefs, exposed, orphaned>>
        BY <1>4 DEF AddPackage, disk, memory, walk, history, Load, Unload, Lose
    <2>1. NoExcess' /\ HeldReferenced'
        BY UntouchedReferences, <2>h, <2>t, <2>u, <1>0
    <2>2. Rereferencing'
        BY <1>p, <1>4 DEF AddPackage, disk, memory, walk, history, Load, Unload, Lose,
           Rereferencing, JobPlaced
    <2>3. QED
        BY <2>1, <2>2
<1>5. ASSUME NEW p \in Package, NEW q \in Package \cup {NoPackage},
             ChangeUntracked(p, q)
      PROVE  Good
    <2>h. \A r \in Source : Held(r)' = Held(r)
        BY <1>0, <1>p, <1>5 DEF ChangeUntracked, disk, memory, walk, history, Load, Unload,
           Lose, Held, CountsOf, Loaded
    <2>t. pc' = "tidy" => ToDrop' \subseteq todo'
        BY <1>5, <1>p DEF ChangeUntracked, disk, memory, walk, history, Load, Unload, Lose,
           JobPlaced
    <2>u. UNCHANGED <<trackrefs, exposed, orphaned>>
        BY <1>5 DEF ChangeUntracked, disk, memory, walk, history, Load, Unload, Lose
    <2>1. NoExcess' /\ HeldReferenced'
        BY UntouchedReferences, <2>h, <2>t, <2>u, <1>0
    <2>2. Rereferencing'
        BY <1>p, <1>5 DEF ChangeUntracked, disk, memory, walk, history, Load, Unload, Lose,
           Rereferencing, JobPlaced
    <2>3. QED
        BY <2>1, <2>2
<1>6. ASSUME NEW p \in Package, RemovePackage(p) PROVE Good
    <2>h. \A r \in Source : Held(r)' = Held(r)
        BY <1>0, <1>p, <1>6 DEF RemovePackage, disk, memory, walk, history, Load, Unload,
           Lose, Held, CountsOf, Loaded
    <2>t. pc' = "tidy" => ToDrop' \subseteq todo'
        BY <1>6, <1>p DEF RemovePackage, disk, memory, walk, history, Load, Unload, Lose,
           JobPlaced
    <2>u. UNCHANGED <<trackrefs, exposed, orphaned>>
        BY <1>6 DEF RemovePackage, disk, memory, walk, history, Load, Unload, Lose
    <2>1. NoExcess' /\ HeldReferenced'
        BY UntouchedReferences, <2>h, <2>t, <2>u, <1>0
    <2>2. Rereferencing'
        BY <1>p, <1>6 DEF RemovePackage, disk, memory, walk, history, Load, Unload, Lose,
           Rereferencing, JobPlaced
    <2>3. QED
        BY <2>1, <2>2
<1>7. ASSUME NEW f \in FileKey, InsertFile(f) PROVE Good
    <2>h. \A r \in Source : Held(r)' = IF r = current THEN Held(r) \cup {f} ELSE Held(r)
        BY <1>7 DEF InsertFile, Held, CountsOf, Loaded, AddFileKey
    <2>i. current \in Source /\ Held(current) = DOMAIN counts /\ pc' # "tidy"
        BY <1>0, <1>p, <1>7 DEF InsertFile, MemoryPlaced, TypeMemory, Held, CountsOf
    <2>j. \A r \in Source : \A g \in FileKey :
            \/ trackrefs'[r][g] = trackrefs[r][g]
            \/ /\ r = current /\ g = f /\ f \notin DOMAIN counts
               /\ trackrefs'[r][g] = trackrefs[r][g] + 1
        BY <1>0, <2>i, <1>7 DEF InsertFile
    <2>k. f \notin DOMAIN counts =>
            trackrefs'[current][f] = trackrefs[current][f] + 1 \/ <<current, f>> \in exposed'
        BY <1>0, <2>i, <1>7 DEF InsertFile
    <2>l. exposed \subseteq exposed' /\ UNCHANGED orphaned /\ Held(current) \subseteq FileKey
        BY <1>0, <2>i, <1>7 DEF InsertFile, TypeMemory, Record
    <2>m. \A r \in Source : Held(r) \subseteq FileKey
        BY <1>0, NoRecord DEF Held, CountsOf, Loaded, Records, Record, TypeMemory
    <2>e. NoExcess'
        <3> SUFFICES ASSUME NEW r \in Source, NEW g \in FileKey PROVE AtMostOnce(r, g)'
            BY DEF NoExcess
        <3>1. AtMostOnce(r, g)
            BY <1>0 DEF NoExcess
        <3>j. r \in Source /\ g \in FileKey /\ trackrefs[r][g] \in Nat
            BY <1>0, <2>h, <2>m, <2>i
        <3>k. \/ trackrefs'[r][g] = trackrefs[r][g]
              \/ /\ r = current /\ g = f /\ f \notin DOMAIN counts
                 /\ trackrefs'[r][g] = trackrefs[r][g] + 1
            BY <2>j, <3>j
        <3>2. QED
            BY <2>h, <2>i, <2>l, <3>1, <3>j, <3>k DEF AtMostOnce
    <2>r. HeldReferenced'
        <3> SUFFICES ASSUME NEW r \in Source, NEW g \in Held(r)' PROVE Referenced(r, g)'
            BY DEF HeldReferenced
        <3>1. g \in Held(r) => Referenced(r, g)
            BY <1>0 DEF HeldReferenced
        <3>j. r \in Source /\ g \in FileKey /\ trackrefs[r][g] \in Nat
            BY <1>0, <2>h, <2>m, <2>i
        <3>k. \/ trackrefs'[r][g] = trackrefs[r][g]
              \/ /\ r = current /\ g = f /\ f \notin DOMAIN counts
                 /\ trackrefs'[r][g] = trackrefs[r][g] + 1
            BY <2>j, <3>j
        <3>2. QED
            BY <2>h, <2>i, <2>k, <2>l, <3>1, <3>j, <3>k DEF Referenced
    <2>1. NoExcess' /\ HeldReferenced'
        BY <2>e, <2>r
    <2>2. Rereferencing'
        BY <1>p, <1>7 DEF InsertFile, disk, memory, walk, history, Load, Unload, Lose,
           Rereferencing, JobPlaced
    <2>3. QED
        BY <2>1, <2>2
<1>8. ASSUME NEW f \in FileKey, TidyFile(f) PROVE Good
    <2>h. /\ \A r \in Source : Held(r)' = Held(r)
          /\ current \in Source /\ UNCHANGED current
        BY <1>p, <1>8 DEF TidyFile, memory, Held, CountsOf, Loaded, MemoryPlaced
    <2>i. ToDrop' = ToDrop
        BY <1>s, <1>8 DEF TidyFile, memory, ToDrop, Untidy, Needed, InUse, mode
    <2>j. /\ \A r \in Source : \A g \in FileKey :
                r # current \/ g # f => trackrefs'[r][g] = trackrefs[r][g]
          /\ \/ trackrefs'[current][f] =
                    IF trackrefs[current][f] > 0 THEN trackrefs[current][f] - 1 ELSE 0
             \/ <<current, f>> \in orphaned'
          /\ orphaned \subseteq orphaned'
        <3>1. CASE /\ trackrefs' = [trackrefs EXCEPT ![current][f] = IF @ > 0 THEN @ - 1 ELSE 0]
                   /\ UNCHANGED orphaned
            BY <1>0, <2>h, <3>1
        <3>2. CASE UNCHANGED trackrefs /\ orphaned' = orphaned \cup {<<current, f>>}
            BY <3>2
        <3>3. QED
            BY <3>1, <3>2, <1>8 DEF TidyFile
    <2>l. /\ exposed' = exposed \cup {<<current, f>>} /\ todo' = todo \ {f}
          /\ pc = "tidy" /\ UNCHANGED pc /\ f \in todo
        BY <1>8 DEF TidyFile
    <2>m. \A r \in Source : Held(r) \subseteq FileKey
        BY <1>0, NoRecord DEF Held, CountsOf, Loaded, Records, Record, TypeMemory
    <2>e. NoExcess'
        <3> SUFFICES ASSUME NEW r \in Source, NEW g \in FileKey PROVE AtMostOnce(r, g)'
            BY DEF NoExcess
        <3>1. AtMostOnce(r, g)
            BY <1>0 DEF NoExcess
        <3>2. trackrefs[r][g] \in Nat
            BY <1>0
        <3>3. CASE r = current /\ g = f
            BY <2>j, <3>1, <3>2, <3>3 DEF AtMostOnce
        <3>4. CASE r # current \/ g # f
            <4>1. trackrefs'[r][g] = trackrefs[r][g]
                BY <2>j, <3>4
            <4>2. r = current' => g \notin ToDrop' \ todo' \/ g \in ToDrop \ todo
                BY <2>h, <2>i, <2>l, <3>4
            <4>3. QED
                BY <2>h, <2>j, <2>l, <3>1, <4>1, <4>2 DEF AtMostOnce
        <3>5. QED
            BY <3>3, <3>4
    <2>r. HeldReferenced'
        <3> SUFFICES ASSUME NEW r \in Source, NEW g \in Held(r)' PROVE Referenced(r, g)'
            BY DEF HeldReferenced
        <3>1. g \in Held(r) => Referenced(r, g)
            BY <1>0 DEF HeldReferenced
        <3>2. QED
            BY <1>0, <2>h, <2>j, <2>l, <2>m, <3>1 DEF Referenced
    <2>1. NoExcess' /\ HeldReferenced'
        BY <2>e, <2>r
    <2>2. Rereferencing'
        BY <1>p, <1>8 DEF TidyFile, disk, memory, walk, history, Load, Unload, Lose,
           Rereferencing, JobPlaced
    <2>3. QED
        BY <2>1, <2>2
<1>9. ASSUME NEW f \in FileKey, AddExtra(f) PROVE Good
    <2>h. \A r \in Source : Held(r)' = IF r = current THEN Held(r) \cup {f} ELSE Held(r)
        BY <1>9 DEF AddExtra, Held, CountsOf, Loaded, AddFileKey
    <2>i. current \in Source /\ Held(current) = DOMAIN counts /\ pc' # "tidy"
        BY <1>0, <1>p, <1>9 DEF AddExtra, MemoryPlaced, TypeMemory, Held, CountsOf
    <2>j. \A r \in Source : \A g \in FileKey :
            \/ trackrefs'[r][g] = trackrefs[r][g]
            \/ /\ r = current /\ g = f /\ f \notin DOMAIN counts
               /\ trackrefs'[r][g] = trackrefs[r][g] + 1
        BY <1>0, <2>i, <1>9 DEF AddExtra
    <2>k. f \notin DOMAIN counts =>
            trackrefs'[current][f] = trackrefs[current][f] + 1 \/ <<current, f>> \in exposed'
        BY <1>0, <2>i, <1>9 DEF AddExtra
    <2>l. exposed \subseteq exposed' /\ UNCHANGED orphaned /\ Held(current) \subseteq FileKey
        BY <1>0, <2>i, <1>9 DEF AddExtra, TypeMemory, Record
    <2>m. \A r \in Source : Held(r) \subseteq FileKey
        BY <1>0, NoRecord DEF Held, CountsOf, Loaded, Records, Record, TypeMemory
    <2>e. NoExcess'
        <3> SUFFICES ASSUME NEW r \in Source, NEW g \in FileKey PROVE AtMostOnce(r, g)'
            BY DEF NoExcess
        <3>1. AtMostOnce(r, g)
            BY <1>0 DEF NoExcess
        <3>j. r \in Source /\ g \in FileKey /\ trackrefs[r][g] \in Nat
            BY <1>0, <2>h, <2>m, <2>i
        <3>k. \/ trackrefs'[r][g] = trackrefs[r][g]
              \/ /\ r = current /\ g = f /\ f \notin DOMAIN counts
                 /\ trackrefs'[r][g] = trackrefs[r][g] + 1
            BY <2>j, <3>j
        <3>2. QED
            BY <2>h, <2>i, <2>l, <3>1, <3>j, <3>k DEF AtMostOnce
    <2>r. HeldReferenced'
        <3> SUFFICES ASSUME NEW r \in Source, NEW g \in Held(r)' PROVE Referenced(r, g)'
            BY DEF HeldReferenced
        <3>1. g \in Held(r) => Referenced(r, g)
            BY <1>0 DEF HeldReferenced
        <3>j. r \in Source /\ g \in FileKey /\ trackrefs[r][g] \in Nat
            BY <1>0, <2>h, <2>m, <2>i
        <3>k. \/ trackrefs'[r][g] = trackrefs[r][g]
              \/ /\ r = current /\ g = f /\ f \notin DOMAIN counts
                 /\ trackrefs'[r][g] = trackrefs[r][g] + 1
            BY <2>j, <3>j
        <3>2. QED
            BY <2>h, <2>i, <2>k, <2>l, <3>1, <3>j, <3>k DEF Referenced
    <2>1. NoExcess' /\ HeldReferenced'
        BY <2>e, <2>r
    <2>2. Rereferencing'
        BY <1>p, <1>9 DEF AddExtra, disk, memory, walk, history, Load, Unload, Lose,
           Rereferencing, JobPlaced
    <2>3. QED
        BY <2>1, <2>2
<1>10. ASSUME InsertEnd PROVE Good
    <2>h. /\ \A r \in Source : Held(r)' \subseteq Held(r)
          /\ \A r \in Source : \A f \in Held(r) \ Held(r)' : <<r, f>> \in orphaned'
        <3>1. CASE UNCHANGED memory
            BY <3>1, <1>p, <1>0, <1>10 DEF InsertEnd, disk, memory, walk, history, Load,
               Unload, Lose, Held, CountsOf, Loaded, Saved
        <3>2. CASE current' = NoSource /\ orphaned' = orphaned \cup Stray
            BY UnloadedHeld, <3>2, <1>0, <1>p, <1>10 DEF InsertEnd, disk, memory, walk,
               history, Load, Unload, Lose
        <3>3. QED
            BY <3>1, <3>2, <1>10 DEF InsertEnd, disk, memory, walk, history, Load, Unload,
               Lose
    <2>t. pc' # "tidy" /\ orphaned \subseteq orphaned'
        BY <1>10 DEF InsertEnd, disk, memory, walk, history, Load, Unload, Lose
    <2>u. UNCHANGED <<trackrefs, exposed>>
        BY <1>10 DEF InsertEnd, disk, memory, walk, history, Load, Unload, Lose
    <2>1. NoExcess' /\ HeldReferenced'
        BY UntouchedReferences, <2>h, <2>t, <2>u, <1>0
    <2>2. Rereferencing'
        BY <1>p, <1>10 DEF InsertEnd, disk, memory, walk, history, Load, Unload, Lose,
           Rereferencing, JobPlaced
    <2>3. QED
        BY <2>1, <2>2
<1>11. ASSUME DropOld PROVE Good
    <2>h. \A r \in Source : Held(r)' = Held(r)
        BY <1>0, <1>p, <1>11 DEF DropOld, disk, memory, walk, history, Load, Unload, Lose,
           Held, CountsOf, Loaded, MemoryPlaced, LoadedKept, Saved, RemoveFileKeys
    <2>t. pc' = "tidy" => ToDrop' \subseteq todo'
        BY <1>11, <1>p DEF DropOld, disk, memory, walk, history, Load, Unload, Lose,
           JobPlaced
    <2>u. UNCHANGED <<trackrefs, exposed, orphaned>>
        BY <1>11 DEF DropOld, disk, memory, walk, history, Load, Unload, Lose
    <2>1. NoExcess' /\ HeldReferenced'
        BY UntouchedReferences, <2>h, <2>t, <2>u, <1>0
    <2>2. Rereferencing'
        BY <1>p, <1>11 DEF DropOld, disk, memory, walk, history, Load, Unload, Lose,
           Rereferencing, JobPlaced
    <2>3. QED
        BY <2>1, <2>2
<1>12. ASSUME Abandon PROVE Good
    <2>h. /\ \A r \in Source : Held(r)' \subseteq Held(r)
          /\ \A r \in Source : \A f \in Held(r) \ Held(r)' : <<r, f>> \in orphaned'
        BY UnloadedHeld, <1>0, <1>p, <1>12 DEF Abandon, disk, memory, walk, history, Load,
           Unload, Lose
    <2>t. pc' # "tidy" /\ orphaned \subseteq orphaned'
        BY <1>12 DEF Abandon, disk, memory, walk, history, Load, Unload, Lose
    <2>u. UNCHANGED <<trackrefs, exposed>>
        BY <1>12 DEF Abandon, disk, memory, walk, history, Load, Unload, Lose
    <2>1. NoExcess' /\ HeldReferenced'
        BY UntouchedReferences, <2>h, <2>t, <2>u, <1>0
    <2>2. Rereferencing'
        BY <1>p, <1>12 DEF Abandon, disk, memory, walk, history, Load, Unload, Lose,
           Rereferencing, JobPlaced
    <2>3. QED
        BY <2>1, <2>2
<1>13. ASSUME Finish PROVE Good
    <2>h. \A r \in Source : Held(r)' = Held(r)
        BY <1>0, <1>p, <1>13 DEF Finish, disk, memory, walk, history, Load, Unload, Lose,
           Held, CountsOf, Loaded
    <2>t. pc' = "tidy" => ToDrop' \subseteq todo'
        BY <1>13, <1>p DEF Finish, disk, memory, walk, history, Load, Unload, Lose,
           JobPlaced
    <2>u. UNCHANGED <<trackrefs, exposed, orphaned>>
        BY <1>13 DEF Finish, disk, memory, walk, history, Load, Unload, Lose
    <2>1. NoExcess' /\ HeldReferenced'
        BY UntouchedReferences, <2>h, <2>t, <2>u, <1>0
    <2>2. Rereferencing'
        BY <1>p, <1>13 DEF Finish, disk, memory, walk, history, Load, Unload, Lose,
           Rereferencing, JobPlaced
    <2>3. QED
        BY <2>1, <2>2
<1>14. ASSUME FinishNext PROVE Good
    <2>h. \A r \in Source : Held(r)' = Held(r)
        BY <1>0, <1>p, <1>14 DEF FinishNext, disk, memory, walk, history, Load, Unload,
           Lose, Held, CountsOf, Loaded
    <2>t. pc' = "tidy" => ToDrop' \subseteq todo'
        BY FinishLoads, <1>s, <1>p, <1>14
    <2>u. UNCHANGED <<trackrefs, exposed, orphaned>>
        BY <1>14 DEF FinishNext, disk, memory, walk, history, Load, Unload, Lose
    <2>1. NoExcess' /\ HeldReferenced'
        BY UntouchedReferences, <2>h, <2>t, <2>u, <1>0
    <2>2. Rereferencing'
        BY <1>p, <1>14 DEF FinishNext, disk, memory, walk, history, Load, Unload, Lose,
           Rereferencing, JobPlaced
    <2>3. QED
        BY <2>1, <2>2
<1>15. ASSUME TidySave PROVE Good
    <2>z. PICK c : c = current
        OBVIOUS
    <2>a. /\ c \in Source /\ DOMAIN Loaded(current) \subseteq DOMAIN counts
          /\ NoSource \notin Source /\ current' = NoSource
        BY <1>0, <1>p, <2>z, <1>15 DEF TidySave, MemoryPlaced, LoadedKept, Unload
    <2>b. ASSUME UNCHANGED tracks, orphaned' = orphaned \cup Stray, UNCHANGED exposed
          PROVE  NoExcess' /\ HeldReferenced'
        <3>1. pc' # "tidy" /\ UNCHANGED trackrefs
            BY <1>15 DEF TidySave, AfterSave
        <3>2. QED
            BY UntouchedReferences, UnloadedHeld, <1>0, <1>p, <2>a, <2>b, <3>1
    <2>c. ASSUME /\ tracks' = IF Gone(counts) THEN Unsaved(current) ELSE Saved(current, Kept)
               /\ UNCHANGED orphaned
               /\ exposed' = {e \in exposed : e[1] # current
                                     \/ (~Gone(counts) /\ e[2] \in DOMAIN Kept)}
          PROVE  NoExcess' /\ HeldReferenced'
        <3>1. \A r \in Source \ {c} : Held(r)' = Held(r)
            BY <2>z, <2>a, <2>c DEF Held, CountsOf, Loaded, Saved, Unsaved
        <3>2. Held(c)' = IF Gone(counts) THEN {} ELSE DOMAIN Kept
            BY <2>z, <2>a, <2>c DEF Held, CountsOf, Loaded, Saved, Unsaved, NoFiles
        <3>3. Held(c) = DOMAIN counts
            BY <2>z DEF Held, CountsOf
        <3>4. DOMAIN counts \ ToDrop \subseteq Held(c)' /\ Held(c)' \subseteq DOMAIN counts
            BY <3>2 DEF Gone, ToDrop, Kept, Untidy
        <3>5. pc' # "tidy" /\ UNCHANGED trackrefs /\ pc = "tidy" /\ todo = {}
            BY <1>15 DEF TidySave, AfterSave
        <3>6. NoExcess'
            <4> SUFFICES ASSUME NEW r \in Source, NEW g \in FileKey PROVE AtMostOnce(r, g)'
                BY DEF NoExcess
            <4>1. AtMostOnce(r, g)
                BY <1>0 DEF NoExcess
            <4>2. QED
                BY <2>z, <2>a, <2>c, <3>1, <3>3, <3>4, <3>5, <4>1 DEF AtMostOnce
        <3>7. HeldReferenced'
            BY <1>0, <2>z, <2>a, <2>c, <3>1, <3>2, <3>3, <3>4, <3>5 DEF HeldReferenced, Referenced
        <3>8. QED
            BY <3>6, <3>7
    <2>d. NoExcess' /\ HeldReferenced'
        BY Zenon, <2>b, <2>c, <1>15 DEF TidySave
    <2>1. NoExcess' /\ HeldReferenced'
        BY <2>d
    <2>2. Rereferencing'
        BY <1>0, <1>p, <1>15 DEF TidySave, disk, memory, walk, history, Load, Unload, Lose,
           Rereferencing, JobPlaced, AfterSave, TypePlace, MemoryPlaced
    <2>3. QED
        BY <2>1, <2>2
<1>16. ASSUME TidyTracks PROVE Good
    <2>h. \A r \in Source : Held(r)' = Held(r)
        BY <1>0, <1>p, <1>16 DEF TidyTracks, disk, memory, walk, history, Load, Unload,
           Lose, Held, CountsOf, Loaded
    <2>t. pc' = "tidy" => ToDrop' \subseteq todo'
        BY <1>16, <1>p DEF TidyTracks, disk, memory, walk, history, Load, Unload, Lose,
           JobPlaced
    <2>u. UNCHANGED <<trackrefs, exposed, orphaned>>
        BY <1>16 DEF TidyTracks, disk, memory, walk, history, Load, Unload, Lose
    <2>1. NoExcess' /\ HeldReferenced'
        BY UntouchedReferences, <2>h, <2>t, <2>u, <1>0
    <2>2. Rereferencing'
        BY <1>p, <1>16 DEF TidyTracks, disk, memory, walk, history, Load, Unload, Lose,
           Rereferencing, JobPlaced
    <2>3. QED
        BY <2>1, <2>2
<1>17. ASSUME Retrack PROVE Good
    <2>h. \A r \in Source : Held(r)' = Held(r)
        BY <1>0, <1>p, <1>17 DEF Retrack, disk, memory, walk, history, Load, Unload, Lose,
           Held, CountsOf, Loaded
    <2>t. pc' = "tidy" => ToDrop' \subseteq todo'
        BY <1>17, <1>p DEF Retrack, disk, memory, walk, history, Load, Unload, Lose,
           JobPlaced
    <2>u. UNCHANGED <<trackrefs, exposed, orphaned>>
        BY <1>17 DEF Retrack, disk, memory, walk, history, Load, Unload, Lose
    <2>1. NoExcess' /\ HeldReferenced'
        BY UntouchedReferences, <2>h, <2>t, <2>u, <1>0
    <2>2. Rereferencing'
        BY <1>p, <1>17 DEF Retrack, disk, memory, walk, history, Load, Unload, Lose,
           Rereferencing, JobPlaced
    <2>3. QED
        BY <2>1, <2>2
<1>18. ASSUME ResetEnd PROVE Good
    <2>h. \A r \in Source : Held(r)' = Held(r)
        BY <1>0, <1>p, <1>18 DEF ResetEnd, disk, memory, walk, history, Load, Unload, Lose,
           Held, CountsOf, Loaded
    <2>t. pc' = "tidy" => ToDrop' \subseteq todo'
        BY <1>18, <1>p DEF ResetEnd, disk, memory, walk, history, Load, Unload, Lose,
           JobPlaced
    <2>u. UNCHANGED <<trackrefs, exposed, orphaned>>
        BY <1>18 DEF ResetEnd, disk, memory, walk, history, Load, Unload, Lose
    <2>1. NoExcess' /\ HeldReferenced'
        BY UntouchedReferences, <2>h, <2>t, <2>u, <1>0
    <2>2. Rereferencing'
        BY <1>p, <1>18 DEF ResetEnd, disk, memory, walk, history, Load, Unload, Lose,
           Rereferencing, JobPlaced
    <2>3. QED
        BY <2>1, <2>2
<1>19. ASSUME SaveRetracked PROVE Good
    <2>h. /\ \A r \in Source : Held(r)' \subseteq Held(r)
          /\ \A r \in Source : \A f \in Held(r) \ Held(r)' : <<r, f>> \in orphaned'
        <3>1. CASE tracks' = Saved(current, counts)
            BY <3>1, <1>p, <1>0, <1>19 DEF SaveRetracked, disk, memory, walk, history, Load,
               Unload, Lose, Held, CountsOf, Loaded, Saved
        <3>2. CASE UNCHANGED tracks /\ orphaned' = orphaned \cup Stray
            BY UnloadedHeld, <3>2, <1>0, <1>p, <1>19 DEF SaveRetracked, disk, memory, walk,
               history, Load, Unload, Lose
        <3>3. QED
            BY <3>1, <3>2, <1>19 DEF SaveRetracked, disk, memory, walk, history, Load,
               Unload, Lose
    <2>t. pc' # "tidy" /\ orphaned \subseteq orphaned'
        BY <1>19 DEF SaveRetracked, disk, memory, walk, history, Load, Unload, Lose
    <2>u. UNCHANGED <<trackrefs, exposed>>
        BY <1>19 DEF SaveRetracked, disk, memory, walk, history, Load, Unload, Lose
    <2>1. NoExcess' /\ HeldReferenced'
        BY UntouchedReferences, <2>h, <2>t, <2>u, <1>0
    <2>2. Rereferencing'
        BY <1>p, <1>19 DEF SaveRetracked, disk, memory, walk, history, Load, Unload, Lose,
           Rereferencing, JobPlaced
    <2>3. QED
        BY <2>1, <2>2
<1>20. ASSUME RetrackEnd PROVE Good
    <2>h. \A r \in Source : Held(r)' = Held(r)
        BY <1>0, <1>p, <1>20 DEF RetrackEnd, disk, memory, walk, history, Load, Unload,
           Lose, Held, CountsOf, Loaded
    <2>t. pc' = "tidy" => ToDrop' \subseteq todo'
        BY <1>20, <1>p DEF RetrackEnd, disk, memory, walk, history, Load, Unload, Lose,
           JobPlaced
    <2>u. UNCHANGED <<trackrefs, exposed, orphaned>>
        BY <1>20 DEF RetrackEnd, disk, memory, walk, history, Load, Unload, Lose
    <2>1. NoExcess' /\ HeldReferenced'
        BY UntouchedReferences, <2>h, <2>t, <2>u, <1>0
    <2>2. Rereferencing'
        BY <1>p, <1>20 DEF RetrackEnd, disk, memory, walk, history, Load, Unload, Lose,
           Rereferencing, JobPlaced
    <2>3. QED
        BY <2>1, <2>2
<1>21. ASSUME NEW s \in Source, ResetOne(s) PROVE Good
    <2>h. \A r \in Source : Held(r)' = Held(r)
        BY <1>0, <1>p, <1>21 DEF ResetOne, disk, memory, walk, history, Load, Unload, Lose,
           Held, CountsOf, Loaded, MemoryPlaced, LoadedKept, Saved, RemoveFileKeys
    <2>t. pc' = "tidy" => ToDrop' \subseteq todo'
        BY <1>21, <1>p DEF ResetOne, disk, memory, walk, history, Load, Unload, Lose,
           JobPlaced
    <2>u. UNCHANGED <<trackrefs, exposed, orphaned>>
        BY <1>21 DEF ResetOne, disk, memory, walk, history, Load, Unload, Lose
    <2>1. NoExcess' /\ HeldReferenced'
        BY UntouchedReferences, <2>h, <2>t, <2>u, <1>0
    <2>2. Rereferencing'
        BY <1>p, <1>21 DEF ResetOne, disk, memory, walk, history, Load, Unload, Lose,
           Rereferencing, JobPlaced
    <2>3. QED
        BY <2>1, <2>2
<1>22. ASSUME NEW p \in Package, RetrackOne(p) PROVE Good
    <2>h. \A r \in Source : Held(r)' = Held(r)
        BY <1>0, <1>p, <1>22 DEF RetrackOne, disk, memory, walk, history, Load, Unload,
           Lose, Held, CountsOf, Loaded, MemoryPlaced, LoadedKept, Saved, RemoveFileKeys
    <2>t. pc' = "tidy" => ToDrop' \subseteq todo'
        BY <1>22, <1>p DEF RetrackOne, disk, memory, walk, history, Load, Unload, Lose,
           JobPlaced
    <2>u. UNCHANGED <<trackrefs, exposed, orphaned>>
        BY <1>22 DEF RetrackOne, disk, memory, walk, history, Load, Unload, Lose
    <2>1. NoExcess' /\ HeldReferenced'
        BY UntouchedReferences, <2>h, <2>t, <2>u, <1>0
    <2>2. Rereferencing'
        BY <1>p, <1>22 DEF RetrackOne, disk, memory, walk, history, Load, Unload, Lose,
           Rereferencing, JobPlaced
    <2>3. QED
        BY <2>1, <2>2
<1>23. ASSUME NEW p \in Package, RemoveSrcOne(p) PROVE Good
    <2>h. \A r \in Source : Held(r)' = Held(r)
        BY <1>0, <1>p, <1>23 DEF RemoveSrcOne, disk, memory, walk, history, Load, Unload,
           Lose, Held, CountsOf, Loaded, MemoryPlaced, LoadedKept, Saved, RemoveFileKeys
    <2>t. pc' = "tidy" => ToDrop' \subseteq todo'
        BY <1>23, <1>p DEF RemoveSrcOne, disk, memory, walk, history, Load, Unload, Lose,
           JobPlaced
    <2>u. UNCHANGED <<trackrefs, exposed, orphaned>>
        BY <1>23 DEF RemoveSrcOne, disk, memory, walk, history, Load, Unload, Lose
    <2>1. NoExcess' /\ HeldReferenced'
        BY UntouchedReferences, <2>h, <2>t, <2>u, <1>0
    <2>2. Rereferencing'
        BY <1>p, <1>23 DEF RemoveSrcOne, disk, memory, walk, history, Load, Unload, Lose,
           Rereferencing, JobPlaced
    <2>3. QED
        BY <2>1, <2>2
<1>24. ASSUME NEW s \in Source, RemoveTrack(s) PROVE Good
    <2>h. \A r \in Source : Held(r)' = Held(r)
        BY <1>0, <1>p, <1>24 DEF RemoveTrack, disk, memory, walk, history, Load, Unload,
           Lose, Held, CountsOf, Loaded, MemoryPlaced, LoadedKept, Saved, RemoveFileKeys
    <2>t. pc' = "tidy" => ToDrop' \subseteq todo'
        BY <1>24, <1>0, <1>p, UntidySubset DEF RemoveTrack, disk, memory, walk, history,
           Load, Unload, Lose, Loaded, ToDrop, JobPlaced, TypePlace
    <2>u. UNCHANGED <<trackrefs, exposed, orphaned>>
        BY <1>24 DEF RemoveTrack, disk, memory, walk, history, Load, Unload, Lose
    <2>1. NoExcess' /\ HeldReferenced'
        BY UntouchedReferences, <2>h, <2>t, <2>u, <1>0
    <2>2. Rereferencing'
        BY <1>p, <1>24 DEF RemoveTrack, disk, memory, walk, history, Load, Unload, Lose,
           Rereferencing, JobPlaced
    <2>3. QED
        BY <2>1, <2>2
<1>25. ASSUME NEW s \in Source, RemoveSrc(s) PROVE Good
    <2>h. \A r \in Source : Held(r)' = Held(r)
        BY <1>0, <1>p, <1>25 DEF RemoveSrc, disk, memory, walk, history, Load, Unload, Lose,
           Held, CountsOf, Loaded, MemoryPlaced, LoadedKept, Saved, RemoveFileKeys
    <2>t. pc' = "tidy" => ToDrop' \subseteq todo'
        BY <1>25, <1>p DEF RemoveSrc, disk, memory, walk, history, Load, Unload, Lose,
           JobPlaced
    <2>u. UNCHANGED <<trackrefs, exposed, orphaned>>
        BY <1>25 DEF RemoveSrc, disk, memory, walk, history, Load, Unload, Lose
    <2>1. NoExcess' /\ HeldReferenced'
        BY UntouchedReferences, <2>h, <2>t, <2>u, <1>0
    <2>2. Rereferencing'
        BY <1>p, <1>25 DEF RemoveSrc, disk, memory, walk, history, Load, Unload, Lose,
           Rereferencing, JobPlaced
    <2>3. QED
        BY <2>1, <2>2
<1>26. ASSUME RemoveSrcEnd PROVE Good
    <2>h. \A r \in Source : Held(r)' = Held(r)
        BY <1>0, <1>p, <1>26 DEF RemoveSrcEnd, disk, memory, walk, history, Load, Unload,
           Lose, Held, CountsOf, Loaded
    <2>t. pc' = "tidy" => ToDrop' \subseteq todo'
        BY <1>s, <1>p, <1>26 DEF RemoveSrcEnd, Unload, ToDrop, JobPlaced, Untidy, Needed,
           InUse, mode
    <2>u. UNCHANGED <<trackrefs, exposed, orphaned>>
        BY <1>26 DEF RemoveSrcEnd, disk, memory, walk, history, Load, Unload, Lose
    <2>1. NoExcess' /\ HeldReferenced'
        BY UntouchedReferences, <2>h, <2>t, <2>u, <1>0
    <2>2. Rereferencing'
        BY <1>p, <1>26 DEF RemoveSrcEnd, disk, memory, walk, history, Load, Unload, Lose,
           Rereferencing, JobPlaced
    <2>3. QED
        BY <2>1, <2>2
<1>27. ASSUME Rereference PROVE Good
    <2>h. \A r \in Source : /\ Held(r) = DOMAIN Loaded(r) /\ Held(r)' = Held(r)
                            /\ Held(r) \subseteq FileKey
        BY <1>p, <1>0, NoRecord, <1>27 DEF Rereference, disk, memory, Held, CountsOf, Loaded, MemoryPlaced,
           Records, Record
    <2>i. \A r \in Source : \A g \in Held(r) : <<r, g>> \in exposed'
        BY <2>h, <1>27 DEF Rereference, Tracked, Loaded, NoFiles
    <2>j. UNCHANGED <<trackrefs, orphaned>> /\ pc' # "tidy"
        BY <1>27 DEF Rereference, disk
    <2>e. NoExcess'
        <3> SUFFICES ASSUME NEW r \in Source, NEW g \in FileKey PROVE AtMostOnce(r, g)'
            BY DEF NoExcess
        <3>1. AtMostOnce(r, g)
            BY <1>0 DEF NoExcess
        <3>2. QED
            BY <2>h, <2>j, <3>1 DEF AtMostOnce
    <2>r. HeldReferenced'
        <3> SUFFICES ASSUME NEW r \in Source, NEW g \in Held(r)' PROVE Referenced(r, g)'
            BY DEF HeldReferenced
        <3>1. g \in Held(r) => Referenced(r, g)
            BY <1>0 DEF HeldReferenced
        <3>2. QED
            BY <2>h, <2>i DEF Referenced
    <2>1. NoExcess' /\ HeldReferenced'
        BY <2>e, <2>r
    <2>2. Rereferencing'
        BY <1>0, <1>27 DEF Rereference, disk, Rereferencing, Tracked, Records, Record
    <2>3. QED
        BY <2>1, <2>2
<1>28. ASSUME DropTracks PROVE Good
    <2>h. \A r \in Source : Held(r)' = {}
        BY <1>p, <1>0, <1>28 DEF DropTracks, memory, Held, CountsOf, Loaded, MemoryPlaced, NoFiles
    <2>e. NoExcess'
        <3> SUFFICES ASSUME NEW r \in Source, NEW g \in FileKey PROVE AtMostOnce(r, g)'
            BY DEF NoExcess
        <3>1. AtMostOnce(r, g)
            BY <1>0 DEF NoExcess
        <3>2. QED
            BY <1>28 DEF DropTracks, AtMostOnce
    <2>r. HeldReferenced'
        <3> SUFFICES ASSUME NEW r \in Source, NEW g \in Held(r)' PROVE Referenced(r, g)'
            BY DEF HeldReferenced
        <3>1. g \in Held(r) => Referenced(r, g)
            BY <1>0 DEF HeldReferenced
        <3>2. QED
            BY <2>h
    <2>1. NoExcess' /\ HeldReferenced'
        BY <2>e, <2>r
    <2>2. Rereferencing'
        BY <1>p, <1>28 DEF DropTracks, disk, memory, walk, history, Load, Unload, Lose,
           Rereferencing, JobPlaced
    <2>3. QED
        BY <2>1, <2>2
<1>29. ASSUME NEW s \in Source, ForgetOne(s) PROVE Good
    <2>h. \A r \in Source : /\ Held(r) = DOMAIN Loaded(r) /\ Held(r)' = Held(r)
                            /\ Held(r) \subseteq FileKey
        BY <1>p, <1>0, NoRecord, <1>29 DEF ForgetOne, disk, memory, Held, CountsOf, Loaded, MemoryPlaced,
           Records, Record
    <2>i. \A r \in Source : \A g \in Held(r) : <<r, g>> \in exposed'
        BY <1>0, <2>h, <1>29 DEF ForgetOne, history, Rereferencing, Loaded, NoFiles
    <2>j. UNCHANGED orphaned /\ pc' # "tidy"
        BY <1>29 DEF ForgetOne, history
    <2>k. \A r \in Source : \A g \in FileKey : trackrefs'[r][g] \in {0, trackrefs[r][g]}
        BY <1>0, <1>29 DEF ForgetOne
    <2>e. NoExcess'
        <3> SUFFICES ASSUME NEW r \in Source, NEW g \in FileKey PROVE AtMostOnce(r, g)'
            BY DEF NoExcess
        <3>1. AtMostOnce(r, g)
            BY <1>0 DEF NoExcess
        <3>2. QED
            BY <2>h, <2>j, <2>k, <3>1 DEF AtMostOnce
    <2>r. HeldReferenced'
        <3> SUFFICES ASSUME NEW r \in Source, NEW g \in Held(r)' PROVE Referenced(r, g)'
            BY DEF HeldReferenced
        <3>1. g \in Held(r) => Referenced(r, g)
            BY <1>0 DEF HeldReferenced
        <3>2. QED
            BY <2>h, <2>i DEF Referenced
    <2>1. NoExcess' /\ HeldReferenced'
        BY <2>e, <2>r
    <2>2. Rereferencing'
        BY <1>0, <1>p, <1>29 DEF ForgetOne, disk, memory, walk, history, Load, Unload, Lose,
           Rereferencing, JobPlaced, AfterSave, TypePlace, MemoryPlaced
    <2>3. QED
        BY <2>1, <2>2
<1>30. ASSUME NEW s \in Source, RecreateOne(s) PROVE Good
    <2>h. \A r \in Source : /\ Held(r) = DOMAIN Loaded(r) /\ Held(r)' = Held(r)
                            /\ Held(r) \subseteq FileKey
        BY <1>p, <1>0, NoRecord, <1>30 DEF RecreateOne, disk, memory, Held, CountsOf, Loaded, MemoryPlaced,
           Records, Record
    <2>i. \A r \in Source : \A g \in Held(r) : <<r, g>> \in exposed'
        BY <1>0, <2>h, <1>30 DEF RecreateOne, history, Rereferencing, Loaded, NoFiles
    <2>j. UNCHANGED orphaned /\ pc' # "tidy"
        BY <1>30 DEF RecreateOne, history
    <2>l. s \in DOMAIN tracks /\ \A g \in FileKey : trackrefs[s][g] = 0
        BY <1>0, <1>p, <1>30 DEF RecreateOne, Rereferencing, MemoryPlaced
    <2>m. PICK C : /\ C \subseteq DOMAIN tracks[s]
                   /\ trackrefs' = [trackrefs EXCEPT ![s] = [g \in FileKey |->
                                        IF g \in C THEN @[g] + 1 ELSE @[g]]]
        BY Zenon, <1>30 DEF RecreateOne
    <2>k. \A r \in Source : \A g \in FileKey :
            \/ trackrefs'[r][g] = trackrefs[r][g]
            \/ g \in Held(r) /\ trackrefs'[r][g] = 1
        BY <1>0, <2>h, <2>l, <2>m DEF Loaded
    <2>e. NoExcess'
        <3> SUFFICES ASSUME NEW r \in Source, NEW g \in FileKey PROVE AtMostOnce(r, g)'
            BY DEF NoExcess
        <3>1. AtMostOnce(r, g)
            BY <1>0 DEF NoExcess
        <3>2. QED
            BY <2>h, <2>j, <2>k, <3>1 DEF AtMostOnce
    <2>r. HeldReferenced'
        <3> SUFFICES ASSUME NEW r \in Source, NEW g \in Held(r)' PROVE Referenced(r, g)'
            BY DEF HeldReferenced
        <3>1. g \in Held(r) => Referenced(r, g)
            BY <1>0 DEF HeldReferenced
        <3>2. QED
            BY <2>h, <2>i DEF Referenced
    <2>1. NoExcess' /\ HeldReferenced'
        BY <2>e, <2>r
    <2>2. Rereferencing'
        BY <1>0, <1>p, <1>30 DEF RecreateOne, disk, memory, walk, history, Load, Unload,
           Lose, Rereferencing, JobPlaced, AfterSave, TypePlace, MemoryPlaced
    <2>3. QED
        BY <2>1, <2>2
<1>31. ASSUME ForgetEnd PROVE Good
    <2>h. \A r \in Source : Held(r)' = Held(r)
        BY <1>0, <1>p, <1>31 DEF ForgetEnd, disk, memory, walk, history, Load, Unload, Lose,
           Held, CountsOf, Loaded
    <2>t. pc' = "tidy" => ToDrop' \subseteq todo'
        BY <1>31, <1>p DEF ForgetEnd, disk, memory, walk, history, Load, Unload, Lose,
           JobPlaced
    <2>u. UNCHANGED <<trackrefs, exposed, orphaned>>
        BY <1>31 DEF ForgetEnd, disk, memory, walk, history, Load, Unload, Lose
    <2>1. NoExcess' /\ HeldReferenced'
        BY UntouchedReferences, <2>h, <2>t, <2>u, <1>0
    <2>2. Rereferencing'
        BY <1>p, <1>31 DEF ForgetEnd, disk, memory, walk, history, Load, Unload, Lose,
           Rereferencing, JobPlaced
    <2>3. QED
        BY <2>1, <2>2
<1>32. ASSUME RecreateEnd PROVE Good
    <2>h. \A r \in Source : /\ Held(r) = DOMAIN Loaded(r) /\ Held(r)' = Held(r)
                            /\ Held(r) \subseteq FileKey
        BY <1>p, <1>0, NoRecord, <1>32 DEF RecreateEnd, disk, memory, Held, CountsOf, Loaded, MemoryPlaced,
           Records, Record
    <2>i. UNCHANGED trackrefs /\ pc' # "tidy" /\ pc = "recreate" /\ work = {}
        BY <1>32 DEF RecreateEnd, disk
    <2>j. (error /\ UNCHANGED <<exposed, orphaned>>) \/ ~error
        BY Zenon, <1>32 DEF RecreateEnd
    <2>k. ~error => \A r \in Source : \A g \in FileKey :
                        trackrefs[r][g] = IF g \in Held(r) THEN 1 ELSE 0
        BY <1>0, <2>h, <2>i DEF Rereferencing, Loaded, NoFiles
    <2>e. NoExcess'
        <3> SUFFICES ASSUME NEW r \in Source, NEW g \in FileKey PROVE AtMostOnce(r, g)'
            BY DEF NoExcess
        <3>1. AtMostOnce(r, g)
            BY <1>0 DEF NoExcess
        <3>2. QED
            BY <2>h, <2>i, <2>j, <2>k, <3>1 DEF AtMostOnce
    <2>r. HeldReferenced'
        <3> SUFFICES ASSUME NEW r \in Source, NEW g \in Held(r)' PROVE Referenced(r, g)'
            BY DEF HeldReferenced
        <3>1. g \in Held(r) => Referenced(r, g)
            BY <1>0 DEF HeldReferenced
        <3>2. QED
            BY <2>h, <2>i, <2>j, <2>k, <3>1 DEF Referenced
    <2>1. NoExcess' /\ HeldReferenced'
        BY <2>e, <2>r
    <2>2. Rereferencing'
        BY <1>p, <1>32 DEF RecreateEnd, disk, memory, walk, history, Load, Unload, Lose,
           Rereferencing, JobPlaced
    <2>3. QED
        BY <2>1, <2>2
<1>33. ASSUME Crash PROVE Good
    <2>h. /\ \A r \in Source : Held(r)' \subseteq Held(r)
          /\ \A r \in Source : \A f \in Held(r) \ Held(r)' : <<r, f>> \in orphaned'
        BY UnloadedHeld, <1>0, <1>p, <1>33 DEF Crash, disk, memory, walk, history, Load,
           Unload, Lose
    <2>t. pc' # "tidy" /\ orphaned \subseteq orphaned'
        BY <1>33 DEF Crash, disk, memory, walk, history, Load, Unload, Lose
    <2>u. UNCHANGED <<trackrefs, exposed>>
        BY <1>33 DEF Crash, disk, memory, walk, history, Load, Unload, Lose
    <2>1. NoExcess' /\ HeldReferenced'
        BY UntouchedReferences, <2>h, <2>t, <2>u, <1>0
    <2>2. Rereferencing'
        BY <1>p, <1>33 DEF Crash, disk, memory, walk, history, Load, Unload, Lose,
           Rereferencing, JobPlaced
    <2>3. QED
        BY <2>1, <2>2
<1>34. QED
    <2> HIDE DEF Good
    <2>1. Good
        BY SettingType, <1>1, <1>2, <1>3, <1>4, <1>5, <1>6, <1>7, <1>8, <1>9, <1>10, <1>11,
           <1>12, <1>13, <1>14, <1>15, <1>16, <1>17, <1>18, <1>19, <1>20, <1>21, <1>22,
           <1>23, <1>24, <1>25, <1>26, <1>27, <1>28, <1>29, <1>30, <1>31, <1>32, <1>33 DEF
           Next, Command
    <2>2. QED
        BY <2>1 DEF Good

-----------------------------------------------------------------------------
(* Counts: each file of a record is counted once for each package using it *)

LEMMA UsersNat ==
    ASSUME NEW X, X \subseteq Package, NEW s, NEW f
    PROVE  IsFiniteSet(UsersIn(X, s, f)) /\ Cardinality(UsersIn(X, s, f)) \in Nat
<1>1. UsersIn(X, s, f) \in SUBSET Package
    BY DEF UsersIn
<1>2. QED
    BY <1>1, SourceAssumption, FS_Subset, FS_CardinalityType

LEMMA UsersAdd ==
    ASSUME NEW X, X \subseteq Package, NEW p \in Package, p \notin X, NEW s, NEW f
    PROVE  Cardinality(UsersIn(X \cup {p}, s, f))
              = Cardinality(UsersIn(X, s, f)) + One(p, s, f)
<1>1. CASE SourceOf[p] = s /\ f \in Files[p]
    <2>1. UsersIn(X \cup {p}, s, f) = UsersIn(X, s, f) \cup {p} /\ p \notin UsersIn(X, s, f)
        BY <1>1 DEF UsersIn
    <2>2. QED
        BY <1>1, <2>1, UsersNat, FS_AddElement DEF One
<1>2. CASE ~(SourceOf[p] = s /\ f \in Files[p])
    <2>1. UsersIn(X \cup {p}, s, f) = UsersIn(X, s, f)
        BY <1>2 DEF UsersIn
    <2>2. QED
        BY <1>2, <2>1, UsersNat DEF One
<1>3. QED
    BY <1>1, <1>2

LEMMA UsersRemove ==
    ASSUME NEW X, X \subseteq Package, NEW p \in X, NEW s, NEW f
    PROVE  Cardinality(UsersIn(X, s, f))
              = Cardinality(UsersIn(X \ {p}, s, f)) + One(p, s, f)
<1>1. /\ X \ {p} \subseteq Package /\ p \in Package /\ p \notin X \ {p}
      /\ (X \ {p}) \cup {p} = X
    OBVIOUS
<1>2. Cardinality(UsersIn((X \ {p}) \cup {p}, s, f))
          = Cardinality(UsersIn(X \ {p}, s, f)) + One(p, s, f)
    BY <1>1, UsersAdd
<1>3. QED
    BY <1>1, <1>2

LEMMA CountTypes ==
    ASSUME TypeOK, NEW s \in Source, NEW f \in FileKey
    PROVE  /\ UsesOf(s, f) \in Nat
           /\ Coming(s, f) \in {0, 1} /\ Going(s, f) \in {0, 1}
           /\ Cardinality(UsersIn(packages, s, f)) \in Nat
<1>1. Record(CountsOf(s))
    BY TypeParts, LoadedRecord DEF CountsOf, TypeMemory
<1>2. UsesOf(s, f) \in Nat
    BY <1>1 DEF UsesOf, Held, Record
<1>3. Coming(s, f) \in {0, 1} /\ Going(s, f) \in {0, 1}
    BY DEF Coming, Going, One
<1>4. QED
    BY <1>2, <1>3, UsersNat, TypeParts

LEMMA SameUses ==
    ASSUME \A r \in Source : CountsOf(r)' = CountsOf(r)
    PROVE  \A r \in Source : \A g \in FileKey : UsesOf(r, g)' = UsesOf(r, g)
BY DEF UsesOf, Held

(* What the steps that move counts about have to show *)
LEMMA UntouchedCounts ==
    ASSUME CountsKnown, UNCHANGED packages, outdated => outdated', misfiled \subseteq misfiled',
           ~Emptying, ~Emptying',
           \A r \in Source : \A g \in FileKey :
                /\ UsesOf(r, g)' + Coming(r, g)' = UsesOf(r, g) + Coming(r, g)
                /\ Going(r, g)' = Going(r, g)
    PROVE  CountsKnown' /\ SourceCleared'
<1>1. SourceCleared'
    BY DEF SourceCleared
<1>2. CountsKnown'
    <2> SUFFICES ASSUME ~outdated', NEW s \in Source \ misfiled', NEW f \in FileKey PROVE Balanced(s, f)'
        BY DEF CountsKnown
    <2>1. Balanced(s, f)
        BY DEF CountsKnown
    <2>2. QED
        BY <2>1 DEF Balanced
<1>3. QED
    BY <1>1, <1>2

(* What a command leaves in memory when it gives up: if nothing is lost,   *)
(* the counts are those on disk.                                           *)
LEMMA LostCounts ==
    ASSUME Lose, UNCHANGED <<disk, misfiled>>, CountsKnown, SourceCleared, NoSource \notin Source
    PROVE  CountsKnown' /\ SourceCleared'
<1>1. ~Emptying' /\ pc' = "idle"
    BY DEF Lose, Emptying
<1>2. CASE outdated'
    BY <1>1, <1>2 DEF CountsKnown, SourceCleared
<1>3. CASE ~outdated'
    <2>1. ~outdated /\ old = NoPackage /\ pc # "insert" /\ pc # "tidy" /\ counts = Loaded(current)
        BY <1>3 DEF Lose
    <2>2. \A r \in Source : CountsOf(r)' = CountsOf(r)
        BY <2>1 DEF Lose, Unload, disk, CountsOf, Loaded
    <2>3. \A r \in Source : \A g \in FileKey :
                /\ UsesOf(r, g)' + Coming(r, g)' = UsesOf(r, g) + Coming(r, g)
                /\ Going(r, g)' = Going(r, g)
        BY <1>1, <2>1, <2>2, SameUses DEF Going, Coming, Lose
    <2>4. ~Emptying /\ UNCHANGED packages
        BY <2>1 DEF Emptying, disk
    <2>5. QED
        BY UntouchedCounts, <1>1, <2>1, <2>3, <2>4
<1>4. QED
    BY <1>2, <1>3

(* A tidied record has lost no count. *)
LEMMA TidiedUses ==
    ASSUME Record(counts), NEW g \in FileKey
    PROVE  /\ Gone(counts) /\ job # "removetrack" => ~InUse(counts)
           /\ ~Gone(counts) /\ g \in DOMAIN Kept =>
                  g \in DOMAIN counts /\ Kept[g] = counts[g]
           /\ ~Gone(counts) /\ g \in DOMAIN counts \ DOMAIN Kept => counts[g] = 0
<1>1. \A f \in DOMAIN counts : counts[f] \in Nat
    BY DEF Record
<1>2. ~Gone(counts) => \A f \in Untidy(counts) : f \in DOMAIN counts /\ ~(counts[f] > 0)
    BY DEF Gone, Untidy, Needed
<1>3. QED
    BY <1>1, <1>2 DEF Gone, Kept


LEMMA CountsStep ==
    ASSUME TypeOK, Placed, ResetKnown, CountsInv, Next
    PROVE  CountsKnown' /\ SourceCleared' /\ RetrackKnown' /\ RemovalPlaced'
<1> DEFINE Good == CountsKnown' /\ SourceCleared' /\ RetrackKnown' /\ RemovalPlaced'
<1>s. UNCHANGED setting
    BY DEF Next
<1>0. /\ TypeMemory /\ TypeWalk /\ TypePlace /\ TypeHistory /\ Records(tracks)
      /\ packages \subseteq Package
      /\ CountsKnown /\ SourceCleared /\ ResetKnown /\ RetrackKnown /\ RemovalPlaced
      /\ NoSource \notin Source
    BY TypeParts, SourceAssumption DEF CountsInv
<1>p. JobPlaced /\ MemoryPlaced /\ LoadedKept /\ TodoPlaced
    BY DEF Placed
<1>1. ASSUME NEW s \in Source, Summon(s) PROVE Good
    <2>h. \A r \in Source : CountsOf(r)' = CountsOf(r)
        BY <1>1, <1>0, <1>p DEF Summon, disk, memory, walk, history, Load, Unload, Lose,
           CountsOf, Loaded, MemoryPlaced
    <2>i. \A r \in Source : \A g \in FileKey :
              Coming(r, g)' = 0 /\ Coming(r, g) = 0 /\ Going(r, g)' = Going(r, g)
        BY <1>1 DEF Summon, disk, memory, walk, history, Load, Unload, Lose, Coming, Going
    <2>j. /\ UNCHANGED packages /\ (outdated => outdated') /\ misfiled \subseteq misfiled'
          /\ ~Emptying /\ ~Emptying'
        BY <1>1, <1>p DEF Summon, disk, memory, walk, history, Load, Unload, Lose, Emptying,
           JobPlaced
    <2>k. \A r \in Source : \A g \in FileKey : UsesOf(r, g)' = UsesOf(r, g)
        BY <2>h, SameUses
    <2>1. CountsKnown' /\ SourceCleared'
        BY UntouchedCounts, <1>0, <2>h, <2>i, <2>j, <2>k
    <2>2. RetrackKnown'
        BY <1>p, <1>1 DEF Summon, disk, memory, walk, history, Load, Unload, Lose,
           RetrackKnown, Retracking, JobPlaced
    <2>3. RemovalPlaced'
        BY <1>p, <1>0, <1>1 DEF Summon, disk, memory, walk, history, Load, Unload, Lose,
           RemovalPlaced, JobPlaced
    <2>4. QED
        BY <2>1, <2>2, <2>3
<1>2. ASSUME NEW s \in Source, Switch(s) PROVE Good
    <2>h. \A r \in Source : CountsOf(r)' = CountsOf(r)
        BY <1>2, <1>0, <1>p DEF Switch, disk, memory, walk, history, Load, Unload, Lose,
           CountsOf, Loaded, MemoryPlaced, Saved
    <2>i. \A r \in Source : \A g \in FileKey :
              Coming(r, g)' = 0 /\ Coming(r, g) = 0 /\ Going(r, g)' = Going(r, g)
        BY <1>2 DEF Switch, disk, memory, walk, history, Load, Unload, Lose, Coming, Going
    <2>j. /\ UNCHANGED packages /\ (outdated => outdated') /\ misfiled \subseteq misfiled'
          /\ ~Emptying /\ ~Emptying'
        BY <1>2, <1>p DEF Switch, disk, memory, walk, history, Load, Unload, Lose, Emptying,
           JobPlaced
    <2>k. \A r \in Source : \A g \in FileKey : UsesOf(r, g)' = UsesOf(r, g)
        BY <2>h, SameUses
    <2>1. CountsKnown' /\ SourceCleared'
        BY UntouchedCounts, <1>0, <2>h, <2>i, <2>j, <2>k
    <2>2. RetrackKnown'
        BY <1>p, <1>2 DEF Switch, disk, memory, walk, history, Load, Unload, Lose,
           RetrackKnown, Retracking, JobPlaced
    <2>3. RemovalPlaced'
        BY <1>p, <1>0, <1>2 DEF Switch, disk, memory, walk, history, Load, Unload, Lose,
           RemovalPlaced, JobPlaced
    <2>4. QED
        BY <2>1, <2>2, <2>3
<1>3. ASSUME New PROVE Good
    <2>h. \A r \in Source : CountsOf(r)' = CountsOf(r)
        BY <1>3, <1>0, <1>p DEF New, disk, memory, walk, history, Load, Unload, Lose,
           CountsOf, Loaded, MemoryPlaced
    <2>i. \A r \in Source : \A g \in FileKey :
              Coming(r, g)' = 0 /\ Coming(r, g) = 0 /\ Going(r, g)' = Going(r, g)
        BY <1>3 DEF New, disk, memory, walk, history, Load, Unload, Lose, Coming, Going
    <2>j. /\ UNCHANGED packages /\ (outdated => outdated') /\ misfiled \subseteq misfiled'
          /\ ~Emptying /\ ~Emptying'
        BY <1>3, <1>p DEF New, disk, memory, walk, history, Load, Unload, Lose, Emptying,
           JobPlaced
    <2>k. \A r \in Source : \A g \in FileKey : UsesOf(r, g)' = UsesOf(r, g)
        BY <2>h, SameUses
    <2>1. CountsKnown' /\ SourceCleared'
        BY UntouchedCounts, <1>0, <2>h, <2>i, <2>j, <2>k
    <2>2. RetrackKnown'
        BY <1>p, <1>3 DEF New, disk, memory, walk, history, Load, Unload, Lose,
           RetrackKnown, Retracking, JobPlaced
    <2>3. RemovalPlaced'
        BY <1>p, <1>0, <1>3 DEF New, disk, memory, walk, history, Load, Unload, Lose,
           RemovalPlaced, JobPlaced
    <2>4. QED
        BY <2>1, <2>2, <2>3
<1>4. ASSUME NEW p \in Package, NEW q \in Package \cup {NoPackage},
             AddPackage(p, q)
      PROVE  Good
    <2>c. SourceCleared' /\ ~Emptying' /\ ~Emptying
        BY <1>p, <1>4 DEF AddPackage, disk, memory, walk, history, Load, Unload, Lose, SourceCleared, Emptying, JobPlaced, AfterSave
    <2>h. \A r \in Source : CountsOf(r)' = CountsOf(r)
        BY <1>4 DEF AddPackage, memory, CountsOf, Loaded
    <2>i. CountsKnown'
        <3> SUFFICES ASSUME ~outdated', NEW r \in Source \ misfiled', NEW g \in FileKey
                     PROVE  Balanced(r, g)'
            BY <2>c DEF CountsKnown
        <3>1. Balanced(r, g) /\ Coming(r, g) = 0 /\ Going(r, g) = 0
            BY <1>0, <1>p, <2>c, <1>4 DEF AddPackage, history, CountsKnown, Coming, Going, MemoryPlaced
        <3>2. UsesOf(r, g)' = UsesOf(r, g)
            BY <2>h, SameUses
        <3>3. Coming(r, g)' = One(p, r, g)
            BY <1>4 DEF AddPackage, memory, Coming, One, Misfiled
        <3>4. /\ Going(r, g)' = IF q = NoPackage THEN 0 ELSE One(q, r, g)
              /\ packages' = (packages \ {q}) \cup {p}
            BY <1>4 DEF AddPackage, Going
        <3>5. One(p, r, g) \in {0, 1} /\ (q \in Package => One(q, r, g) \in {0, 1})
            BY DEF One
        <3>6. UsesOf(r, g) \in Nat /\ Cardinality(UsersIn(packages, r, g)) \in Nat
            BY CountTypes
        <3>7. CASE q = NoPackage
            <4>1. packages' = packages \cup {p} /\ p \notin packages
                BY <1>0, <3>4, <3>7, <1>4, SourceAssumption DEF AddPackage
            <4>2. Cardinality(UsersIn(packages', r, g))
                      = Cardinality(UsersIn(packages, r, g)) + One(p, r, g)
                BY <1>0, <4>1, UsersAdd
            <4>3. QED
                BY <3>1, <3>2, <3>3, <3>4, <3>5, <3>6, <3>7, <4>2 DEF Balanced
        <3>8. CASE q = p
            <4>1. packages' = packages /\ q # NoPackage
                BY <3>4, <3>8, <1>4, SourceAssumption DEF AddPackage
            <4>2. Going(r, g)' = One(p, r, g)
                BY <3>4, <3>8, <4>1
            <4>3. QED
                BY <3>1, <3>2, <3>3, <3>5, <3>6, <4>1, <4>2 DEF Balanced
        <3>9. CASE q # NoPackage /\ q # p
            <4>1. q \in packages /\ p \notin packages
                BY <3>9, <1>4 DEF AddPackage
            <4>2. /\ packages \ {q} \subseteq Package /\ p \notin packages \ {q}
                  /\ q \in Package
                BY <1>0, <4>1
            <4>3. Cardinality(UsersIn((packages \ {q}) \cup {p}, r, g))
                      = Cardinality(UsersIn(packages \ {q}, r, g)) + One(p, r, g)
                BY <4>2, UsersAdd
            <4>4. Cardinality(UsersIn(packages, r, g))
                      = Cardinality(UsersIn(packages \ {q}, r, g)) + One(q, r, g)
                BY <1>0, <4>1, UsersRemove
            <4>5. Cardinality(UsersIn(packages \ {q}, r, g)) \in Nat
                BY <4>2, UsersNat
            <4>6. QED
                BY <3>1, <3>2, <3>3, <3>4, <3>5, <3>6, <3>9, <4>2, <4>3, <4>4, <4>5 DEF Balanced
        <3>10. QED
            BY <3>7, <3>8, <3>9
    <2>1. CountsKnown' /\ SourceCleared'
        BY <2>c, <2>i
    <2>2. RetrackKnown'
        BY <1>p, <1>4 DEF AddPackage, disk, memory, walk, history, Load, Unload, Lose,
           RetrackKnown, Retracking, JobPlaced
    <2>3. RemovalPlaced'
        BY <1>p, <1>0, <1>4 DEF AddPackage, disk, memory, walk, history, Load, Unload, Lose,
           RemovalPlaced, JobPlaced
    <2>4. QED
        BY <2>1, <2>2, <2>3
<1>5. ASSUME NEW p \in Package, NEW q \in Package \cup {NoPackage},
             ChangeUntracked(p, q)
      PROVE  Good
    <2>1. CountsKnown' /\ SourceCleared'
        BY <1>5, <1>0 DEF ChangeUntracked, disk, memory, walk, history, Load, Unload, Lose,
           CountsKnown, SourceCleared, ResetKnown, Retracking
    <2>2. RetrackKnown'
        BY <1>p, <1>5 DEF ChangeUntracked, disk, memory, walk, history, Load, Unload, Lose,
           RetrackKnown, Retracking, JobPlaced
    <2>3. RemovalPlaced'
        BY <1>p, <1>0, <1>5 DEF ChangeUntracked, disk, memory, walk, history, Load, Unload,
           Lose, RemovalPlaced, JobPlaced
    <2>4. QED
        BY <2>1, <2>2, <2>3
<1>6. ASSUME NEW p \in Package, RemovePackage(p) PROVE Good
    <2>c. SourceCleared' /\ ~Emptying' /\ ~Emptying
        BY <1>p, <1>6 DEF RemovePackage, disk, memory, walk, history, Load, Unload, Lose, SourceCleared, Emptying, JobPlaced, AfterSave
    <2>h. \A r \in Source : CountsOf(r)' = CountsOf(r)
        BY <1>6 DEF RemovePackage, memory, CountsOf, Loaded
    <2>i. CountsKnown'
        <3> SUFFICES ASSUME ~outdated', NEW r \in Source \ misfiled', NEW g \in FileKey
                     PROVE  Balanced(r, g)'
            BY <2>c DEF CountsKnown
        <3>1. Balanced(r, g) /\ Coming(r, g) = 0 /\ Going(r, g) = 0 /\ Coming(r, g)' = 0
            BY <1>0, <1>p, <2>c, <1>6 DEF RemovePackage, history, CountsKnown, Coming, Going, MemoryPlaced
        <3>2. UsesOf(r, g)' = UsesOf(r, g)
            BY <2>h, SameUses
        <3>3. Going(r, g)' = One(p, r, g) /\ packages' = packages \ {p} /\ p \in packages
            BY <1>6, SourceAssumption DEF RemovePackage, Going
        <3>4. Cardinality(UsersIn(packages, r, g))
                  = Cardinality(UsersIn(packages \ {p}, r, g)) + One(p, r, g)
            BY <1>0, <3>3, UsersRemove
        <3>5. One(p, r, g) \in {0, 1} /\ Cardinality(UsersIn(packages \ {p}, r, g)) \in Nat
            BY <1>0, UsersNat DEF One
        <3>6. UsesOf(r, g) \in Nat
            BY CountTypes
        <3>7. QED
            BY <3>1, <3>2, <3>3, <3>4, <3>5, <3>6 DEF Balanced
    <2>1. CountsKnown' /\ SourceCleared'
        BY <2>c, <2>i
    <2>2. RetrackKnown'
        BY <1>p, <1>6 DEF RemovePackage, disk, memory, walk, history, Load, Unload, Lose,
           RetrackKnown, Retracking, JobPlaced
    <2>3. RemovalPlaced'
        BY <1>p, <1>0, <1>6 DEF RemovePackage, disk, memory, walk, history, Load, Unload,
           Lose, RemovalPlaced, JobPlaced
    <2>4. QED
        BY <2>1, <2>2, <2>3
<1>7. ASSUME NEW f \in FileKey, InsertFile(f) PROVE Good
    <2>1. /\ current \in Source /\ UNCHANGED <<current, packages, left, outdated, misfiled, pc, job, old>>
          /\ ~Emptying /\ ~Emptying'
        BY <1>p, <1>7 DEF InsertFile, MemoryPlaced, Emptying
    <2>2. \A r \in Source : \A g \in FileKey :
              UsesOf(r, g)' + Coming(r, g)' = UsesOf(r, g) + Coming(r, g)
        <3> SUFFICES ASSUME NEW r \in Source, NEW g \in FileKey
                     PROVE  UsesOf(r, g)' + Coming(r, g)' = UsesOf(r, g) + Coming(r, g)
            OBVIOUS
        <3>1. CASE r = current /\ g = f
            <4>1. Coming(r, g) = 1 /\ Coming(r, g)' = 0
                BY <2>1, <3>1, <1>7 DEF InsertFile, Coming
            <4>2. CountsOf(r) = counts /\ CountsOf(r)' = AddFileKey(counts, f, TRUE)
                BY <2>1, <3>1, <1>7 DEF InsertFile, CountsOf
            <4>3. UsesOf(r, g)' = UsesOf(r, g) + 1
                BY <1>0, <3>1, <4>2 DEF UsesOf, Held, AddFileKey, TypeMemory, Record
            <4>4. UsesOf(r, g) \in Nat
                BY CountTypes
            <4>5. QED
                BY <4>1, <4>3, <4>4
        <3>2. CASE r # current
            <4>1. CountsOf(r)' = CountsOf(r)
                BY <2>1, <3>2, <1>7 DEF InsertFile, CountsOf, Loaded
            <4>2. QED
                BY <2>1, <3>2, <4>1 DEF UsesOf, Held, Coming
        <3>3. CASE r = current /\ g # f
            <4>1. Coming(r, g)' = Coming(r, g)
                BY <2>1, <3>3, <1>7 DEF InsertFile, Coming
            <4>2. CountsOf(r) = counts /\ CountsOf(r)' = AddFileKey(counts, f, TRUE)
                BY <2>1, <3>3, <1>7 DEF InsertFile, CountsOf
            <4>3. UsesOf(r, g)' = UsesOf(r, g)
                BY <1>0, <3>3, <4>2 DEF UsesOf, Held, AddFileKey, TypeMemory, Record
            <4>4. QED
                BY <4>1, <4>3
        <3>4. QED
            BY <3>1, <3>2, <3>3
    <2>3. \A r \in Source : \A g \in FileKey : Going(r, g)' = Going(r, g)
        BY <2>1 DEF Going
    <2>4. CountsKnown' /\ SourceCleared'
        BY UntouchedCounts, <1>0, <2>1, <2>2, <2>3
    <2>5. RetrackKnown'
        BY <1>0, <2>1, <2>2 DEF RetrackKnown, Retracking
    <2>6. RemovalPlaced'
        BY <1>p, <1>0, <1>7 DEF InsertFile, disk, memory, walk, history, Load, Unload, Lose,
           RemovalPlaced, JobPlaced
    <2>7. QED
        BY <2>4, <2>5, <2>6
<1>8. ASSUME NEW f \in FileKey, TidyFile(f) PROVE Good
    <2>1. /\ UNCHANGED <<packages, outdated, misfiled, pc, job, current, old>> /\ pc = "tidy"
          /\ \A r \in Source : CountsOf(r)' = CountsOf(r)
        BY <1>8 DEF TidyFile, memory, CountsOf, Loaded
    <2>2. \A r \in Source : \A g \in FileKey :
              /\ UsesOf(r, g)' = UsesOf(r, g)
              /\ Coming(r, g) = 0 /\ Coming(r, g)' = 0 /\ Going(r, g)' = Going(r, g)
        BY <2>1, SameUses DEF Coming, Going
    <2>3. CountsKnown' /\ SourceCleared'
        BY <1>0, <2>1, <2>2 DEF CountsKnown, SourceCleared, Emptying, Balanced
    <2>4. RetrackKnown'
        BY <1>p, <1>8 DEF TidyFile, disk, memory, walk, history, Load, Unload, Lose,
           RetrackKnown, Retracking, JobPlaced
    <2>5. RemovalPlaced'
        BY <1>p, <1>0, <1>8 DEF TidyFile, disk, memory, walk, history, Load, Unload, Lose,
           RemovalPlaced, JobPlaced
    <2>6. QED
        BY <2>3, <2>4, <2>5
<1>9. ASSUME NEW f \in FileKey, AddExtra(f) PROVE Good
    <2>c. SourceCleared' /\ ~Emptying' /\ ~Emptying
        BY <1>p, <1>9 DEF AddExtra, disk, memory, walk, history, Load, Unload, Lose, SourceCleared, Emptying, JobPlaced, AfterSave
    <2>1. /\ UNCHANGED <<current, packages, outdated, misfiled, old>> /\ pc' # "insert" /\ pc # "insert"
        BY <1>9 DEF AddExtra, walk
    <2>2. \A r \in Source : \A g \in FileKey : UsesOf(r, g)' = UsesOf(r, g)
        <3> SUFFICES ASSUME NEW r \in Source, NEW g \in FileKey
                     PROVE  UsesOf(r, g)' = UsesOf(r, g)
            OBVIOUS
        <3>1. CASE r # current
            BY <2>1, <3>1, <1>9 DEF AddExtra, CountsOf, Loaded, UsesOf, Held
        <3>2. CASE r = current
            <4>1. CountsOf(r) = counts /\ CountsOf(r)' = AddFileKey(counts, f, FALSE)
                BY <2>1, <3>2, <1>9 DEF AddExtra, CountsOf
            <4>2. QED
                BY <1>0, <4>1, <1>9 DEF AddExtra, UsesOf, Held, AddFileKey, TypeMemory, Record
        <3>3. QED
            BY <3>1, <3>2
    <2>3. \A r \in Source : \A g \in FileKey :
              Coming(r, g)' = 0 /\ Coming(r, g) = 0 /\ Going(r, g)' = Going(r, g)
        BY <2>1 DEF Coming, Going
    <2>4. CountsKnown' /\ SourceCleared'
        BY UntouchedCounts, <1>0, <2>1, <2>2, <2>3, <2>c
    <2>5. RetrackKnown'
        BY <1>p, <1>9 DEF AddExtra, disk, memory, walk, history, Load, Unload, Lose,
           RetrackKnown, Retracking, JobPlaced
    <2>6. RemovalPlaced'
        BY <1>p, <1>0, <1>9 DEF AddExtra, disk, memory, walk, history, Load, Unload, Lose,
           RemovalPlaced, JobPlaced
    <2>7. QED
        BY <2>4, <2>5, <2>6
<1>10. ASSUME InsertEnd PROVE Good
    <2>1. /\ UNCHANGED packages /\ (outdated => outdated') /\ misfiled \subseteq misfiled' /\ ~Emptying /\ ~Emptying'
          /\ pc' # "insert" /\ UNCHANGED <<tracks, todo>>
        <3>1. outdated => outdated'
            BY Zenon, <1>10 DEF InsertEnd, history
        <3>2. misfiled' = misfiled
            BY <1>10 DEF InsertEnd, history
        <3>3. /\ UNCHANGED packages /\ ~Emptying /\ ~Emptying'
              /\ pc' # "insert" /\ UNCHANGED <<tracks, todo>>
            BY <1>10 DEF InsertEnd, disk, Emptying
        <3>4. QED
            BY <3>1, <3>2, <3>3
    <2>2. \A r \in Source : \A g \in FileKey : Coming(r, g) = 0 /\ Coming(r, g)' = 0
        BY <2>1, <1>10 DEF InsertEnd, Coming
    <2>3. ASSUME UNCHANGED memory, UNCHANGED old PROVE CountsKnown' /\ SourceCleared'
        <3>1. \A r \in Source : CountsOf(r)' = CountsOf(r)
            BY <2>1, <2>3 DEF memory, CountsOf, Loaded
        <3>2. \A r \in Source : \A g \in FileKey :
                /\ UsesOf(r, g)' + Coming(r, g)' = UsesOf(r, g) + Coming(r, g)
                /\ Going(r, g)' = Going(r, g)
            BY <2>2, <2>3, <3>1, SameUses DEF Going
        <3>3. QED
            BY UntouchedCounts, <1>0, <2>1, <3>2
    <2>4. ASSUME outdated' PROVE CountsKnown' /\ SourceCleared'
        BY <2>1, <2>4 DEF CountsKnown, SourceCleared
    <2>5. CountsKnown' /\ SourceCleared'
        <3>1. error /\ job = "retrack" => outdated'
            BY <1>0, <2>1, <1>10 DEF ResetKnown, Retracking, InsertEnd
        <3>2. ~error \/ job # "retrack" => (UNCHANGED memory /\ UNCHANGED old) \/ outdated'
            BY <1>10 DEF InsertEnd
        <3>3. QED
            BY <2>3, <2>4, <3>1, <3>2
    <2>6. RetrackKnown'
        <3> SUFFICES ASSUME Retracking' PROVE RetrackKnown'
            BY DEF RetrackKnown
        <3>1. /\ pc' = "save" /\ Retracking /\ UNCHANGED left /\ UNCHANGED memory
            BY <1>p, <1>10 DEF InsertEnd, Retracking, JobPlaced
        <3>2. \A r \in Source : CountsOf(r)' = CountsOf(r)
            BY <2>1, <3>1 DEF memory, CountsOf, Loaded
        <3>3. QED
            BY <1>0, <2>1, <2>2, <3>1, <3>2, SameUses DEF RetrackKnown
    <2>7. CountsKnown' /\ SourceCleared'
        BY <2>5
    <2>8. RetrackKnown'
        BY <2>6
    <2>9. RemovalPlaced'
        BY <1>p, <1>0, <1>10 DEF InsertEnd, disk, memory, walk, history, Load, Unload, Lose,
           RemovalPlaced, JobPlaced
    <2>10. QED
        BY <2>7, <2>8, <2>9
<1>11. ASSUME DropOld PROVE Good
    <2>c. SourceCleared' /\ ~Emptying' /\ ~Emptying
        BY <1>p, <1>11 DEF DropOld, disk, memory, walk, history, Load, Unload, Lose, SourceCleared, Emptying, JobPlaced, AfterSave
    <2>1. /\ old \in Package /\ old # NoPackage /\ old' = NoPackage
          /\ UNCHANGED <<packages, current>> /\ pc' # "insert" /\ pc # "insert"
          /\ (outdated => outdated') /\ misfiled \subseteq misfiled'
        BY <1>p, SourceAssumption, <1>11 DEF DropOld, MemoryPlaced
    <2>i. CountsKnown'
        <3> SUFFICES ASSUME ~outdated', NEW r \in Source \ misfiled', NEW g \in FileKey
                     PROVE  Balanced(r, g)'
            BY <2>c DEF CountsKnown
        <3>1. ~outdated /\ Balanced(r, g) /\ Coming(r, g) = 0 /\ Coming(r, g)' = 0
            BY <1>0, <2>1, <2>c DEF CountsKnown, Coming
        <3>2. Going(r, g) = One(old, r, g) /\ Going(r, g)' = 0
            BY <2>1 DEF Going
        <3>3. /\ UsesOf(r, g) \in Nat /\ Cardinality(UsersIn(packages, r, g)) \in Nat
              /\ One(old, r, g) \in {0, 1}
            BY CountTypes DEF One
        <3>4. UsesOf(r, g) = Cardinality(UsersIn(packages, r, g)) + One(old, r, g)
            BY <3>1, <3>2, <3>3 DEF Balanced
        <3>5. CASE r # SourceOf[old]
            <4>1. CountsOf(r)' = CountsOf(r)
                BY <2>1, <3>5, <1>11 DEF DropOld, CountsOf, Loaded, Saved
            <4>2. One(old, r, g) = 0
                BY <3>5 DEF One
            <4>3. QED
                BY <2>1, <3>1, <3>2, <3>3, <3>4, <4>1, <4>2 DEF UsesOf, Held, Balanced
        <3>6. CASE r = SourceOf[old] /\ g \notin Files[old]
            <4>1. /\ Held(r)' = Held(r)
                  /\ g \in Held(r) => CountsOf(r)'[g] = CountsOf(r)[g]
                BY <1>0, <2>1, <3>6, <1>11 DEF DropOld, CountsOf, Loaded, Saved, Held, RemoveFileKeys
            <4>2. One(old, r, g) = 0
                BY <3>6 DEF One
            <4>3. QED
                BY <2>1, <3>1, <3>2, <3>3, <3>4, <4>1, <4>2 DEF UsesOf, Balanced
        <3>7. CASE r = SourceOf[old] /\ g \in Files[old]
            <4>1. One(old, r, g) = 1 /\ g \in Held(r) /\ CountsOf(r)[g] > 0
                BY <3>3, <3>4, <3>7 DEF One, UsesOf
            <4>2. r = current \/ r \in DOMAIN tracks
                BY <4>1 DEF Held, CountsOf, Loaded, NoFiles
            <4>3. CountsOf(r)' = RemoveFileKeys(CountsOf(r), Files[old])
                BY <2>1, <3>1, <3>7, <4>2, <1>11 DEF DropOld, CountsOf, Loaded, Saved
            <4>4. UsesOf(r, g)' = UsesOf(r, g) - 1
                BY <3>7, <4>1, <4>3 DEF UsesOf, Held, RemoveFileKeys
            <4>5. QED
                BY <2>1, <3>1, <3>2, <3>3, <3>4, <4>1, <4>4 DEF Balanced
        <3>8. QED
            BY <3>5, <3>6, <3>7
    <2>2. CountsKnown' /\ SourceCleared'
        BY <2>c, <2>i
    <2>3. RetrackKnown'
        BY <1>p, <1>11 DEF DropOld, disk, memory, walk, history, Load, Unload, Lose,
           RetrackKnown, Retracking, JobPlaced
    <2>4. RemovalPlaced'
        BY <1>p, <1>0, <1>11 DEF DropOld, disk, memory, walk, history, Load, Unload, Lose,
           RemovalPlaced, JobPlaced
    <2>5. QED
        BY <2>2, <2>3, <2>4
<1>12. ASSUME Abandon PROVE Good
    <2>1. UNCHANGED <<disk, misfiled>> /\ Lose
        BY <1>12 DEF Abandon
    <2>2. CountsKnown' /\ SourceCleared'
        BY LostCounts, <1>0, <1>p, <2>1
    <2>3. CountsKnown' /\ SourceCleared'
        BY <2>2
    <2>4. RetrackKnown'
        BY <2>1 DEF Lose, RetrackKnown, Retracking
    <2>5. RemovalPlaced'
        BY <2>1 DEF Lose, RemovalPlaced
    <2>6. QED
        BY <2>3, <2>4, <2>5
<1>13. ASSUME Finish PROVE Good
    <2>h. \A r \in Source : CountsOf(r)' = CountsOf(r)
        BY <1>13, <1>0, <1>p DEF Finish, disk, memory, walk, history, Load, Unload, Lose,
           CountsOf, Loaded, MemoryPlaced
    <2>i. \A r \in Source : \A g \in FileKey :
              Coming(r, g)' = 0 /\ Coming(r, g) = 0 /\ Going(r, g)' = Going(r, g)
        BY <1>13 DEF Finish, disk, memory, walk, history, Load, Unload, Lose, Coming, Going
    <2>j. /\ UNCHANGED packages /\ (outdated => outdated') /\ misfiled \subseteq misfiled'
          /\ ~Emptying /\ ~Emptying'
        BY <1>13, <1>p DEF Finish, disk, memory, walk, history, Load, Unload, Lose,
           Emptying, JobPlaced
    <2>k. \A r \in Source : \A g \in FileKey : UsesOf(r, g)' = UsesOf(r, g)
        BY <2>h, SameUses
    <2>1. CountsKnown' /\ SourceCleared'
        BY UntouchedCounts, <1>0, <2>h, <2>i, <2>j, <2>k
    <2>2. RetrackKnown'
        BY <1>p, <1>13 DEF Finish, disk, memory, walk, history, Load, Unload, Lose,
           RetrackKnown, Retracking, JobPlaced
    <2>3. RemovalPlaced'
        BY <1>p, <1>0, <1>13 DEF Finish, disk, memory, walk, history, Load, Unload, Lose,
           RemovalPlaced, JobPlaced
    <2>4. QED
        BY <2>1, <2>2, <2>3
<1>14. ASSUME FinishNext PROVE Good
    <2>h. \A r \in Source : CountsOf(r)' = CountsOf(r)
        BY <1>14, <1>0, <1>p DEF FinishNext, disk, memory, walk, history, Load, Unload,
           Lose, CountsOf, Loaded, MemoryPlaced
    <2>i. \A r \in Source : \A g \in FileKey :
              Coming(r, g)' = 0 /\ Coming(r, g) = 0 /\ Going(r, g)' = Going(r, g)
        BY <1>14 DEF FinishNext, disk, memory, walk, history, Load, Unload, Lose, Coming,
           Going
    <2>j. /\ UNCHANGED packages /\ (outdated => outdated') /\ misfiled \subseteq misfiled'
          /\ ~Emptying /\ ~Emptying'
        BY <1>14, <1>p DEF FinishNext, disk, memory, walk, history, Load, Unload, Lose,
           Emptying, JobPlaced
    <2>k. \A r \in Source : \A g \in FileKey : UsesOf(r, g)' = UsesOf(r, g)
        BY <2>h, SameUses
    <2>1. CountsKnown' /\ SourceCleared'
        BY UntouchedCounts, <1>0, <2>h, <2>i, <2>j, <2>k
    <2>2. RetrackKnown'
        BY <1>p, <1>14 DEF FinishNext, disk, memory, walk, history, Load, Unload, Lose,
           RetrackKnown, Retracking, JobPlaced
    <2>3. RemovalPlaced'
        BY <1>p, <1>0, <1>14 DEF FinishNext, disk, memory, walk, history, Load, Unload,
           Lose, RemovalPlaced, JobPlaced
    <2>4. QED
        BY <2>1, <2>2, <2>3
<1>15. ASSUME TidySave PROVE Good
    <2>1. /\ UNCHANGED <<packages, old>> /\ ~Emptying' /\ pc' # "insert" /\ pc = "tidy"
          /\ current \in Source /\ current' = NoSource /\ counts' = NoFiles
          /\ old = NoPackage /\ Record(counts)
        BY <1>0, <1>p, <1>15 DEF TidySave, walk, Emptying, MemoryPlaced, JobPlaced, AfterSave, Unload, TypeMemory
    <2>2. SourceCleared'
        BY <2>1 DEF SourceCleared
    <2>3. CountsKnown'
        <3> SUFFICES ASSUME ~outdated', NEW r \in Source \ misfiled', NEW g \in FileKey
                     PROVE  Balanced(r, g)'
            BY <2>1 DEF CountsKnown
        <3>1. /\ ~outdated /\ r \in Source \ misfiled
              /\ tracks' = IF Gone(counts) THEN Unsaved(current) ELSE Saved(current, Kept)
              /\ job \in {"removetrack", "removesrc"} =>
                    \A p \in packages : SourceOf[p] # current
            BY <1>15 DEF TidySave
        <3>2. Coming(r, g) = 0 /\ Coming(r, g)' = 0 /\ Going(r, g) = 0 /\ Going(r, g)' = 0
            BY <2>1 DEF Coming, Going
        <3>3. UsesOf(r, g) \in Nat /\ Cardinality(UsersIn(packages, r, g)) \in Nat
            BY CountTypes
        <3>4. CASE r # current
            <4>1. CountsOf(r)' = CountsOf(r)
                BY <2>1, <1>0, <3>1, <3>4 DEF CountsOf, Loaded, Saved, Unsaved
            <4>2. UsesOf(r, g) = Cardinality(UsersIn(packages, r, g))
                BY <1>0, <3>1, <3>2, <3>3, <3>4 DEF CountsKnown, SourceCleared, Balanced
            <4>3. QED
                BY <2>1, <3>2, <3>3, <4>1, <4>2 DEF Balanced, UsesOf, Held
        <3>5. CASE r = current
            <4>1. UsesOf(r, g) = Cardinality(UsersIn(packages, r, g)) \/ (Emptying /\ UsesOf(r, g) = 0)
                BY <1>0, <3>1, <3>2, <3>3, <3>5 DEF CountsKnown, SourceCleared, Balanced
            <4>2. Emptying => Cardinality(UsersIn(packages, r, g)) = 0
                <5>1. SUFFICES ASSUME Emptying PROVE UsersIn(packages, r, g) = {}
                    BY FS_EmptySet
                <5>2. QED
                    BY <3>1, <3>5, <5>1 DEF Emptying, UsersIn
            <4>3. UsesOf(r, g) = IF g \in DOMAIN counts THEN counts[g] ELSE 0
                BY <3>5 DEF UsesOf, Held, CountsOf
            <4>4. UsesOf(r, g)' = IF ~Gone(counts) /\ g \in DOMAIN Kept THEN Kept[g] ELSE 0
                BY <1>0, <2>1, <3>1, <3>5 DEF UsesOf, Held, CountsOf, Loaded, Saved, Unsaved, NoFiles
            <4>5. UsesOf(r, g)' = Cardinality(UsersIn(packages, r, g))
                <5>1. CASE ~Gone(counts)
                    BY <2>1, <3>3, <4>1, <4>2, <4>3, <4>4, <5>1, TidiedUses
                <5>2. CASE Gone(counts) /\ Emptying
                    BY <4>2, <4>4, <5>2
                <5>3. CASE Gone(counts) /\ ~Emptying
                    <6>1. ~InUse(counts)
                        BY <2>1, <5>3, TidiedUses DEF Emptying
                    <6>2. UsesOf(r, g) = 0
                        BY <3>3, <4>3, <6>1 DEF InUse
                    <6>3. QED
                        BY <4>1, <4>4, <5>3, <6>2
                <5>4. QED
                    BY <5>1, <5>2, <5>3
            <4>6. QED
                BY <2>1, <3>2, <3>3, <4>5 DEF Balanced
        <3>6. QED
            BY <3>4, <3>5
    <2>4. pc' \in {"idle", "finish"}
        BY <1>15 DEF TidySave, AfterSave
    <2>5. CountsKnown' /\ SourceCleared'
        BY <2>2, <2>3
    <2>6. RetrackKnown'
        BY <2>4 DEF RetrackKnown, Retracking
    <2>7. RemovalPlaced'
        BY <2>4 DEF RemovalPlaced
    <2>8. QED
        BY <2>5, <2>6, <2>7
<1>16. ASSUME TidyTracks PROVE Good
    <2>h. \A r \in Source : CountsOf(r)' = CountsOf(r)
        BY <1>16, <1>0, <1>p DEF TidyTracks, disk, memory, walk, history, Load, Unload,
           Lose, CountsOf, Loaded, MemoryPlaced
    <2>i. \A r \in Source : \A g \in FileKey :
              Coming(r, g)' = 0 /\ Coming(r, g) = 0 /\ Going(r, g)' = Going(r, g)
        BY <1>16 DEF TidyTracks, disk, memory, walk, history, Load, Unload, Lose, Coming,
           Going
    <2>j. /\ UNCHANGED packages /\ (outdated => outdated') /\ misfiled \subseteq misfiled'
          /\ ~Emptying /\ ~Emptying'
        BY <1>16, <1>p DEF TidyTracks, disk, memory, walk, history, Load, Unload, Lose,
           Emptying, JobPlaced
    <2>k. \A r \in Source : \A g \in FileKey : UsesOf(r, g)' = UsesOf(r, g)
        BY <2>h, SameUses
    <2>1. CountsKnown' /\ SourceCleared'
        BY UntouchedCounts, <1>0, <2>h, <2>i, <2>j, <2>k
    <2>2. RetrackKnown'
        BY <1>p, <1>16 DEF TidyTracks, disk, memory, walk, history, Load, Unload, Lose,
           RetrackKnown, Retracking, JobPlaced
    <2>3. RemovalPlaced'
        BY <1>p, <1>0, <1>16 DEF TidyTracks, disk, memory, walk, history, Load, Unload,
           Lose, RemovalPlaced, JobPlaced
    <2>4. QED
        BY <2>1, <2>2, <2>3
<1>17. ASSUME Retrack PROVE Good
    <2>1. CountsKnown' /\ SourceCleared'
        BY <1>17, <1>0 DEF Retrack, disk, memory, walk, history, Load, Unload, Lose,
           CountsKnown, SourceCleared, ResetKnown, Retracking
    <2>2. RetrackKnown'
        BY <1>p, <1>17 DEF Retrack, disk, memory, walk, history, Load, Unload, Lose,
           RetrackKnown, Retracking, JobPlaced
    <2>3. RemovalPlaced'
        BY <1>p, <1>0, <1>17 DEF Retrack, disk, memory, walk, history, Load, Unload, Lose,
           RemovalPlaced, JobPlaced
    <2>4. QED
        BY <2>1, <2>2, <2>3
<1>18. ASSUME ResetEnd PROVE Good
    <2>1. /\ UNCHANGED <<packages, tracks, old, outdated, misfiled>> /\ pc' = "retrack" /\ left' = packages
          /\ current = NoSource /\ current' = NoSource /\ outdated
        BY <1>0, <1>p, <1>18 DEF ResetEnd, disk, memory, history, MemoryPlaced, ResetKnown
    <2>2. \A r \in Source : \A g \in FileKey : UsesOf(r, g)' = 0 /\ Coming(r, g)' = 0
        BY <1>0, <2>1, <1>18 DEF ResetEnd, ResetKnown, UsesOf, Held, CountsOf, Loaded, Coming, NoFiles
    <2>3. \A r \in Source : \A g \in FileKey : Cardinality(UsersIn(packages' \ left', r, g)) = 0
        <3>1. \A r \in Source : \A g \in FileKey : UsersIn(packages' \ left', r, g) = {}
            BY <2>1 DEF UsersIn
        <3>2. QED
            BY <3>1, FS_EmptySet
    <2>4. RetrackKnown'
        <3>1. left' \subseteq packages'
            BY <2>1
        <3>2. \A r \in Source : \A g \in FileKey :
                  UsesOf(r, g)' + Coming(r, g)' = Cardinality(UsersIn(packages' \ left', r, g))
            BY <2>2, <2>3
        <3>3. QED
            BY <3>1, <3>2 DEF RetrackKnown
    <2>5. CountsKnown' /\ SourceCleared'
        BY <1>18, <1>0 DEF ResetEnd, disk, memory, walk, history, Load, Unload, Lose,
           CountsKnown, SourceCleared, ResetKnown, Retracking
    <2>6. RetrackKnown'
        BY <2>4
    <2>7. RemovalPlaced'
        BY <1>p, <1>0, <1>18 DEF ResetEnd, disk, memory, walk, history, Load, Unload, Lose,
           RemovalPlaced, JobPlaced
    <2>8. QED
        BY <2>5, <2>6, <2>7
<1>19. ASSUME SaveRetracked PROVE Good
    <2>1. RetrackKnown'
        <3> SUFFICES ASSUME Retracking' PROVE RetrackKnown'
            BY DEF RetrackKnown
        <3>1. /\ tracks' = Saved(current, counts) /\ UNCHANGED <<packages, left>>
              /\ current' = NoSource /\ current \in Source /\ Retracking
              /\ pc' # "insert" /\ pc # "insert"
            BY <1>p, <1>19 DEF SaveRetracked, Retracking, Unload, MemoryPlaced
        <3>2. \A r \in Source : CountsOf(r)' = CountsOf(r)
            BY <1>0, <3>1 DEF CountsOf, Loaded, Saved
        <3>3. \A r \in Source : \A g \in FileKey : Coming(r, g) = 0 /\ Coming(r, g)' = 0
            BY <3>1 DEF Coming
        <3>4. QED
            BY <1>0, <3>1, <3>2, <3>3, SameUses DEF RetrackKnown
    <2>2. CountsKnown' /\ SourceCleared'
        BY <1>19, <1>0 DEF SaveRetracked, disk, memory, walk, history, Load, Unload, Lose,
           CountsKnown, SourceCleared, ResetKnown, Retracking
    <2>3. RetrackKnown'
        BY <2>1
    <2>4. RemovalPlaced'
        BY <1>p, <1>0, <1>19 DEF SaveRetracked, disk, memory, walk, history, Load, Unload,
           Lose, RemovalPlaced, JobPlaced
    <2>5. QED
        BY <2>2, <2>3, <2>4
<1>20. ASSUME RetrackEnd PROVE Good
    <2>1. /\ UNCHANGED <<packages, old>> /\ ~Emptying' /\ pc' # "insert" /\ old = NoPackage
          /\ left = {} /\ Retracking /\ pc # "insert"
          /\ \A r \in Source : CountsOf(r)' = CountsOf(r)
        BY <1>p, <1>20 DEF RetrackEnd, disk, walk, Emptying, Retracking, MemoryPlaced, JobPlaced, CountsOf,
           Loaded
    <2>2. \A r \in Source : \A g \in FileKey :
              UsesOf(r, g)' = UsesOf(r, g) /\ Coming(r, g)' = 0 /\ Going(r, g)' = 0
        BY <2>1, SameUses DEF Coming, Going
    <2>3. \A r \in Source : \A g \in FileKey :
              UsesOf(r, g) = Cardinality(UsersIn(packages, r, g))
        <3>1. packages \ left = packages
            BY <2>1
        <3>2. \A r \in Source : \A g \in FileKey :
                  UsesOf(r, g) + Coming(r, g) = Cardinality(UsersIn(packages, r, g))
            BY <1>0, <2>1, <3>1 DEF RetrackKnown
        <3>3. \A r \in Source : \A g \in FileKey : Coming(r, g) = 0 /\ UsesOf(r, g) \in Nat
            BY <2>1, CountTypes DEF Coming
        <3>4. QED
            BY <3>2, <3>3
    <2>4. \A r \in Source : \A g \in FileKey : Balanced(r, g)'
        <3>1. \A r \in Source : \A g \in FileKey : UsesOf(r, g) \in Nat
            BY CountTypes
        <3>2. QED
            BY <2>1, <2>2, <2>3, <3>1 DEF Balanced
    <2>5. CountsKnown' /\ SourceCleared'
        BY <2>1, <2>4 DEF CountsKnown, SourceCleared
    <2>6. RetrackKnown'
        BY <1>p, <1>20 DEF RetrackEnd, disk, memory, walk, history, Load, Unload, Lose,
           RetrackKnown, Retracking, JobPlaced
    <2>7. RemovalPlaced'
        BY <1>p, <1>0, <1>20 DEF RetrackEnd, disk, memory, walk, history, Load, Unload,
           Lose, RemovalPlaced, JobPlaced
    <2>8. QED
        BY <2>5, <2>6, <2>7
<1>21. ASSUME NEW s \in Source, ResetOne(s) PROVE Good
    <2>1. CountsKnown' /\ SourceCleared'
        BY <1>21, <1>0 DEF ResetOne, disk, memory, walk, history, Load, Unload, Lose,
           CountsKnown, SourceCleared, ResetKnown, Retracking
    <2>2. RetrackKnown'
        BY <1>p, <1>21 DEF ResetOne, disk, memory, walk, history, Load, Unload, Lose,
           RetrackKnown, Retracking, JobPlaced
    <2>3. RemovalPlaced'
        BY <1>p, <1>0, <1>21 DEF ResetOne, disk, memory, walk, history, Load, Unload, Lose,
           RemovalPlaced, JobPlaced
    <2>4. QED
        BY <2>1, <2>2, <2>3
<1>22. ASSUME NEW p \in Package, RetrackOne(p) PROVE Good
    <2>1. /\ UNCHANGED <<packages, tracks, outdated, misfiled>> /\ pc' = "insert" /\ left' = left \ {p}
          /\ current' = SourceOf[p] /\ todo' = Files[p] /\ p \in left /\ left \subseteq packages
          /\ pc = "retrack" /\ current = NoSource /\ counts' = Loaded(SourceOf[p]) /\ Retracking
        BY <1>0, <1>p, <1>22 DEF RetrackOne, disk, history, Load, MemoryPlaced, RetrackKnown, Retracking
    <2>2. \A r \in Source : CountsOf(r)' = CountsOf(r)
        BY <1>0, <2>1 DEF CountsOf, Loaded
    <2>3. ASSUME NEW r \in Source, NEW g \in FileKey
          PROVE  UsesOf(r, g)' + Coming(r, g)' = Cardinality(UsersIn(packages' \ left', r, g))
        <3>1. UsesOf(r, g)' = UsesOf(r, g)
            BY <2>2, SameUses
        <3>2. Coming(r, g) = 0 /\ Coming(r, g)' = One(p, r, g)
            BY <2>1 DEF Coming, One
        <3>3. UsesOf(r, g) + Coming(r, g) = Cardinality(UsersIn(packages \ left, r, g))
            BY <1>0, <2>1 DEF RetrackKnown
        <3>4. /\ packages' \ left' = (packages \ left) \cup {p}
              /\ p \in Package /\ p \notin packages \ left /\ packages \ left \subseteq Package
            BY <1>0, <2>1
        <3>5. Cardinality(UsersIn((packages \ left) \cup {p}, r, g))
                  = Cardinality(UsersIn(packages \ left, r, g)) + One(p, r, g)
            BY <3>4, UsersAdd
        <3>6. UsesOf(r, g) \in Nat /\ One(p, r, g) \in {0, 1}
            BY CountTypes DEF One
        <3>7. UsesOf(r, g) = Cardinality(UsersIn(packages \ left, r, g))
            BY <3>2, <3>3, <3>6
        <3>8. Cardinality(UsersIn(packages' \ left', r, g))
                  = Cardinality(UsersIn(packages \ left, r, g)) + One(p, r, g)
            BY <3>4, <3>5
        <3>9. QED
            BY <3>1, <3>2, <3>7, <3>8
    <2>4. CountsKnown' /\ SourceCleared'
        BY <1>22, <1>0 DEF RetrackOne, disk, memory, walk, history, Load, Unload, Lose,
           CountsKnown, SourceCleared, ResetKnown, Retracking
    <2>5. RetrackKnown'
        BY <2>1, <2>3 DEF RetrackKnown
    <2>6. RemovalPlaced'
        BY <1>p, <1>0, <1>22 DEF RetrackOne, disk, memory, walk, history, Load, Unload,
           Lose, RemovalPlaced, JobPlaced
    <2>7. QED
        BY <2>4, <2>5, <2>6
<1>23. ASSUME NEW p \in Package, RemoveSrcOne(p) PROVE Good
    <2>c. SourceCleared' /\ ~Emptying' /\ ~Emptying
        BY <1>p, <1>23 DEF RemoveSrcOne, disk, memory, walk, history, Load, Unload, Lose, SourceCleared, Emptying, JobPlaced, AfterSave
    <2>1. /\ p \in packages /\ SourceOf[p] = current /\ packages' = packages \ {p}
          /\ current \in Source /\ pc = "removesrc" /\ UNCHANGED <<current, pc, old, outdated, misfiled, tracks>>
          /\ counts' = RemoveFileKeys(counts, Files[p])
        BY <1>0, <1>p, <1>23 DEF RemoveSrcOne, RemovalPlaced, MemoryPlaced, history
    <2>i. CountsKnown'
        <3> SUFFICES ASSUME ~outdated', NEW r \in Source \ misfiled', NEW g \in FileKey
                     PROVE  Balanced(r, g)'
            BY <2>c DEF CountsKnown
        <3>1. Balanced(r, g) /\ Coming(r, g) = 0 /\ Coming(r, g)' = 0
            BY <1>0, <2>1, <2>c DEF CountsKnown, Coming
        <3>2. Going(r, g) = 0 /\ Going(r, g)' = 0
            BY <1>p, <2>1 DEF Going, MemoryPlaced
        <3>3. /\ UsesOf(r, g) \in Nat /\ One(p, r, g) \in {0, 1}
              /\ Cardinality(UsersIn(packages \ {p}, r, g)) \in Nat
            BY <1>0, CountTypes, UsersNat DEF One
        <3>4. UsesOf(r, g) = Cardinality(UsersIn(packages \ {p}, r, g)) + One(p, r, g)
            BY <1>0, <2>1, <3>1, <3>2, <3>3, UsersRemove DEF Balanced
        <3>5. CASE r # current
            <4>1. CountsOf(r)' = CountsOf(r) /\ One(p, r, g) = 0
                BY <2>1, <3>5 DEF CountsOf, Loaded, One
            <4>2. QED
                BY <2>1, <3>1, <3>2, <3>3, <3>4, <4>1 DEF UsesOf, Held, Balanced
        <3>6. CASE r = current
            <4>1. CountsOf(r) = counts /\ CountsOf(r)' = RemoveFileKeys(counts, Files[p])
                BY <2>1, <3>6 DEF CountsOf
            <4>2. CASE g \in Files[p]
                <5>1. One(p, r, g) = 1
                    BY <2>1, <3>6, <4>2 DEF One
                <5>2. g \in DOMAIN counts /\ counts[g] > 0
                    BY <3>3, <3>4, <4>1, <5>1 DEF UsesOf, Held
                <5>3. UsesOf(r, g)' = UsesOf(r, g) - 1
                    BY <4>1, <4>2, <5>2 DEF UsesOf, Held, RemoveFileKeys
                <5>4. QED
                    BY <2>1, <3>1, <3>2, <3>3, <3>4, <5>1, <5>3 DEF Balanced
            <4>3. CASE g \notin Files[p]
                <5>1. One(p, r, g) = 0
                    BY <4>3 DEF One
                <5>2. UsesOf(r, g)' = UsesOf(r, g)
                    BY <4>1, <4>3 DEF UsesOf, Held, RemoveFileKeys
                <5>3. QED
                    BY <2>1, <3>1, <3>2, <3>3, <3>4, <5>1, <5>2 DEF Balanced
            <4>4. QED
                BY <4>2, <4>3
        <3>7. QED
            BY <3>5, <3>6
    <2>2. CountsKnown' /\ SourceCleared'
        BY <2>c, <2>i
    <2>3. RetrackKnown'
        BY <1>p, <1>23 DEF RemoveSrcOne, disk, memory, walk, history, Load, Unload, Lose,
           RetrackKnown, Retracking, JobPlaced
    <2>4. RemovalPlaced'
        BY <1>0, <2>1, <1>23 DEF RemoveSrcOne, RemovalPlaced
    <2>5. QED
        BY <2>2, <2>3, <2>4
<1>24. ASSUME NEW s \in Source, RemoveTrack(s) PROVE Good
    <2>1. \A r \in Source : CountsOf(r)' = CountsOf(r)
        BY <1>p, <1>0, <1>24 DEF RemoveTrack, disk, Load, CountsOf, Loaded, MemoryPlaced
    <2>2. \A r \in Source : \A g \in FileKey :
              UsesOf(r, g)' = UsesOf(r, g) /\ Coming(r, g) = 0 /\ Going(r, g) = 0
        BY <1>p, <2>1, <1>24, SameUses DEF RemoveTrack, Coming, Going, MemoryPlaced
    <2>3. /\ UNCHANGED <<packages, outdated, misfiled>> /\ Emptying' /\ ~Emptying
        BY <1>24 DEF RemoveTrack, disk, history, Emptying
    <2>4. \A r \in Source : \A g \in FileKey :
              UsesOf(r, g) \in Nat /\ Cardinality(UsersIn(packages, r, g)) \in Nat
        BY CountTypes
    <2>5. SourceCleared'
        BY <1>0, <2>2, <2>3, <2>4 DEF SourceCleared, CountsKnown, Balanced
    <2>6. CountsKnown'
        BY <2>3 DEF CountsKnown
    <2>7. CountsKnown' /\ SourceCleared'
        BY <2>5, <2>6
    <2>8. RetrackKnown'
        BY <1>p, <1>24 DEF RemoveTrack, disk, memory, walk, history, Load, Unload, Lose,
           RetrackKnown, Retracking, JobPlaced
    <2>9. RemovalPlaced'
        BY <1>p, <1>0, <1>24 DEF RemoveTrack, disk, memory, walk, history, Load, Unload,
           Lose, RemovalPlaced, JobPlaced
    <2>10. QED
        BY <2>7, <2>8, <2>9
<1>25. ASSUME NEW s \in Source, RemoveSrc(s) PROVE Good
    <2>h. \A r \in Source : CountsOf(r)' = CountsOf(r)
        BY <1>25, <1>0, <1>p DEF RemoveSrc, disk, memory, walk, history, Load, Unload, Lose,
           CountsOf, Loaded, MemoryPlaced
    <2>i. \A r \in Source : \A g \in FileKey :
              Coming(r, g)' = 0 /\ Coming(r, g) = 0 /\ Going(r, g)' = Going(r, g)
        BY <1>25 DEF RemoveSrc, disk, memory, walk, history, Load, Unload, Lose, Coming,
           Going
    <2>j. /\ UNCHANGED packages /\ (outdated => outdated') /\ misfiled \subseteq misfiled'
          /\ ~Emptying /\ ~Emptying'
        BY <1>25, <1>p DEF RemoveSrc, disk, memory, walk, history, Load, Unload, Lose,
           Emptying, JobPlaced
    <2>k. \A r \in Source : \A g \in FileKey : UsesOf(r, g)' = UsesOf(r, g)
        BY <2>h, SameUses
    <2>1. CountsKnown' /\ SourceCleared'
        BY UntouchedCounts, <1>0, <2>h, <2>i, <2>j, <2>k
    <2>2. RetrackKnown'
        BY <1>p, <1>25 DEF RemoveSrc, disk, memory, walk, history, Load, Unload, Lose,
           RetrackKnown, Retracking, JobPlaced
    <2>3. RemovalPlaced'
        BY <1>p, <1>0, <1>25 DEF RemoveSrc, disk, memory, walk, history, Load, Unload, Lose,
           RemovalPlaced, JobPlaced
    <2>4. QED
        BY <2>1, <2>2, <2>3
<1>26. ASSUME RemoveSrcEnd PROVE Good
    <2>1. /\ UNCHANGED <<packages, outdated, misfiled, tracks, old>> /\ pc = "removesrc" /\ current \in Source
          /\ job = "removesrc"
        BY <1>p, <1>26 DEF RemoveSrcEnd, disk, history, MemoryPlaced, JobPlaced
    <2>2. \A r \in Source : \A g \in FileKey :
              Coming(r, g) = 0 /\ Going(r, g) = 0
        BY <1>p, <2>1 DEF Coming, Going, MemoryPlaced
    <2>3. ~outdated => \A r \in Source \ misfiled : \A g \in FileKey :
              UsesOf(r, g) = Cardinality(UsersIn(packages, r, g))
        BY <1>0, <2>1, <2>2, CountTypes DEF CountsKnown, Balanced, Emptying
    <2>4. ASSUME pc' = "tidy" PROVE CountsKnown' /\ SourceCleared'
        <3>1. /\ UNCHANGED <<job, current>>
              /\ counts' = [g \in DOMAIN counts |->
                              IF FileType[g] \in {"package", "source"} THEN 0 ELSE counts[g]]
            BY <2>4, <1>26 DEF RemoveSrcEnd
        <3>2. \A r \in Source \ {current} : CountsOf(r)' = CountsOf(r)
            BY <2>1, <3>1 DEF CountsOf, Loaded
        <3>3. \A g \in FileKey : \A r \in Source : r = current =>
                  UsesOf(r, g)' = 0 \/ UsesOf(r, g)' = UsesOf(r, g)
            BY <3>1 DEF UsesOf, Held, CountsOf
        <3>4. \A r \in Source \ {current} : \A g \in FileKey : UsesOf(r, g)' = UsesOf(r, g)
            BY <3>2 DEF UsesOf, Held
        <3>5. SourceCleared'
            BY <2>1, <2>3, <3>1, <3>3, <3>4 DEF SourceCleared
        <3>6. QED
            BY <2>1, <2>4, <3>1, <3>5 DEF CountsKnown, Emptying
    <2>5. ASSUME pc' = "idle", counts = Loaded(current), Unload
          PROVE  CountsKnown' /\ SourceCleared'
        <3>1. \A r \in Source : CountsOf(r)' = CountsOf(r)
            BY <1>0, <2>1, <2>5 DEF CountsOf, Loaded, Unload
        <3>2. \A r \in Source : \A g \in FileKey :
                /\ UsesOf(r, g)' + Coming(r, g)' = UsesOf(r, g) + Coming(r, g)
                /\ Going(r, g)' = Going(r, g)
            BY <2>1, <2>2, <2>5, <3>1, SameUses DEF Going, Coming
        <3>3. ~Emptying /\ ~Emptying'
            BY <2>1, <2>5 DEF Emptying
        <3>4. QED
            BY UntouchedCounts, <1>0, <2>1, <3>2, <3>3
    <2>6. CountsKnown' /\ SourceCleared'
        BY <2>4, <2>5, <1>26 DEF RemoveSrcEnd
    <2>7. CountsKnown' /\ SourceCleared'
        BY <2>6
    <2>8. RetrackKnown'
        BY <1>p, <1>26 DEF RemoveSrcEnd, disk, memory, walk, history, Load, Unload, Lose,
           RetrackKnown, Retracking, JobPlaced
    <2>9. RemovalPlaced'
        BY <1>p, <1>0, <1>26 DEF RemoveSrcEnd, disk, memory, walk, history, Load, Unload,
           Lose, RemovalPlaced, JobPlaced
    <2>10. QED
        BY <2>7, <2>8, <2>9
<1>27. ASSUME Rereference PROVE Good
    <2>h. \A r \in Source : CountsOf(r)' = CountsOf(r)
        BY <1>27, <1>0, <1>p DEF Rereference, disk, memory, walk, history, Load, Unload,
           Lose, CountsOf, Loaded, MemoryPlaced
    <2>i. \A r \in Source : \A g \in FileKey :
              Coming(r, g)' = 0 /\ Coming(r, g) = 0 /\ Going(r, g)' = Going(r, g)
        BY <1>27 DEF Rereference, disk, memory, walk, history, Load, Unload, Lose, Coming,
           Going
    <2>j. /\ UNCHANGED packages /\ (outdated => outdated') /\ misfiled \subseteq misfiled'
          /\ ~Emptying /\ ~Emptying'
        BY <1>27, <1>p DEF Rereference, disk, memory, walk, history, Load, Unload, Lose,
           Emptying, JobPlaced
    <2>k. \A r \in Source : \A g \in FileKey : UsesOf(r, g)' = UsesOf(r, g)
        BY <2>h, SameUses
    <2>1. CountsKnown' /\ SourceCleared'
        BY UntouchedCounts, <1>0, <2>h, <2>i, <2>j, <2>k
    <2>2. RetrackKnown'
        BY <1>p, <1>27 DEF Rereference, disk, memory, walk, history, Load, Unload, Lose,
           RetrackKnown, Retracking, JobPlaced
    <2>3. RemovalPlaced'
        BY <1>p, <1>0, <1>27 DEF Rereference, disk, memory, walk, history, Load, Unload,
           Lose, RemovalPlaced, JobPlaced
    <2>4. QED
        BY <2>1, <2>2, <2>3
<1>28. ASSUME DropTracks PROVE Good
    <2>1. /\ UNCHANGED <<packages, old>> /\ ~Emptying' /\ pc' # "insert"
          /\ ~outdated' => packages = {}
        BY <1>28 DEF DropTracks, Emptying
    <2>2. \A r \in Source : \A g \in FileKey :
              UsesOf(r, g)' = 0 /\ Coming(r, g)' = 0 /\ Going(r, g)' = 0
        BY <1>p, <1>0, <2>1, <1>28 DEF DropTracks, memory, UsesOf, Held, CountsOf, Loaded, NoFiles,
           Coming, Going, MemoryPlaced
    <2>3. packages = {} => \A r \in Source : \A g \in FileKey :
              Cardinality(UsersIn(packages, r, g)) = 0
        BY FS_EmptySet DEF UsersIn
    <2>4. CountsKnown' /\ SourceCleared'
        BY <2>1, <2>2, <2>3 DEF CountsKnown, SourceCleared, Balanced
    <2>5. RetrackKnown'
        BY <1>p, <1>28 DEF DropTracks, disk, memory, walk, history, Load, Unload, Lose,
           RetrackKnown, Retracking, JobPlaced
    <2>6. RemovalPlaced'
        BY <1>p, <1>0, <1>28 DEF DropTracks, disk, memory, walk, history, Load, Unload,
           Lose, RemovalPlaced, JobPlaced
    <2>7. QED
        BY <2>4, <2>5, <2>6
<1>29. ASSUME NEW s \in Source, ForgetOne(s) PROVE Good
    <2>h. \A r \in Source : CountsOf(r)' = CountsOf(r)
        BY <1>29, <1>0, <1>p DEF ForgetOne, disk, memory, walk, history, Load, Unload, Lose,
           CountsOf, Loaded, MemoryPlaced
    <2>i. \A r \in Source : \A g \in FileKey :
              Coming(r, g)' = 0 /\ Coming(r, g) = 0 /\ Going(r, g)' = Going(r, g)
        BY <1>29 DEF ForgetOne, disk, memory, walk, history, Load, Unload, Lose, Coming,
           Going
    <2>j. /\ UNCHANGED packages /\ (outdated => outdated') /\ misfiled \subseteq misfiled'
          /\ ~Emptying /\ ~Emptying'
        BY <1>29, <1>p DEF ForgetOne, disk, memory, walk, history, Load, Unload, Lose,
           Emptying, JobPlaced
    <2>k. \A r \in Source : \A g \in FileKey : UsesOf(r, g)' = UsesOf(r, g)
        BY <2>h, SameUses
    <2>1. CountsKnown' /\ SourceCleared'
        BY UntouchedCounts, <1>0, <2>h, <2>i, <2>j, <2>k
    <2>2. RetrackKnown'
        BY <1>p, <1>29 DEF ForgetOne, disk, memory, walk, history, Load, Unload, Lose,
           RetrackKnown, Retracking, JobPlaced
    <2>3. RemovalPlaced'
        BY <1>p, <1>0, <1>29 DEF ForgetOne, disk, memory, walk, history, Load, Unload, Lose,
           RemovalPlaced, JobPlaced
    <2>4. QED
        BY <2>1, <2>2, <2>3
<1>30. ASSUME NEW s \in Source, RecreateOne(s) PROVE Good
    <2>h. \A r \in Source : CountsOf(r)' = CountsOf(r)
        BY <1>30, <1>0, <1>p DEF RecreateOne, disk, memory, walk, history, Load, Unload,
           Lose, CountsOf, Loaded, MemoryPlaced
    <2>i. \A r \in Source : \A g \in FileKey :
              Coming(r, g)' = 0 /\ Coming(r, g) = 0 /\ Going(r, g)' = Going(r, g)
        BY <1>30 DEF RecreateOne, disk, memory, walk, history, Load, Unload, Lose, Coming,
           Going
    <2>j. /\ UNCHANGED packages /\ (outdated => outdated') /\ misfiled \subseteq misfiled'
          /\ ~Emptying /\ ~Emptying'
        BY <1>30, <1>p DEF RecreateOne, disk, memory, walk, history, Load, Unload, Lose,
           Emptying, JobPlaced
    <2>k. \A r \in Source : \A g \in FileKey : UsesOf(r, g)' = UsesOf(r, g)
        BY <2>h, SameUses
    <2>1. CountsKnown' /\ SourceCleared'
        BY UntouchedCounts, <1>0, <2>h, <2>i, <2>j, <2>k
    <2>2. RetrackKnown'
        BY <1>p, <1>30 DEF RecreateOne, disk, memory, walk, history, Load, Unload, Lose,
           RetrackKnown, Retracking, JobPlaced
    <2>3. RemovalPlaced'
        BY <1>p, <1>0, <1>30 DEF RecreateOne, disk, memory, walk, history, Load, Unload,
           Lose, RemovalPlaced, JobPlaced
    <2>4. QED
        BY <2>1, <2>2, <2>3
<1>31. ASSUME ForgetEnd PROVE Good
    <2>h. \A r \in Source : CountsOf(r)' = CountsOf(r)
        BY <1>31, <1>0, <1>p DEF ForgetEnd, disk, memory, walk, history, Load, Unload, Lose,
           CountsOf, Loaded, MemoryPlaced
    <2>i. \A r \in Source : \A g \in FileKey :
              Coming(r, g)' = 0 /\ Coming(r, g) = 0 /\ Going(r, g)' = Going(r, g)
        BY <1>31 DEF ForgetEnd, disk, memory, walk, history, Load, Unload, Lose, Coming,
           Going
    <2>j. /\ UNCHANGED packages /\ (outdated => outdated') /\ misfiled \subseteq misfiled'
          /\ ~Emptying /\ ~Emptying'
        BY <1>31, <1>p DEF ForgetEnd, disk, memory, walk, history, Load, Unload, Lose,
           Emptying, JobPlaced
    <2>k. \A r \in Source : \A g \in FileKey : UsesOf(r, g)' = UsesOf(r, g)
        BY <2>h, SameUses
    <2>1. CountsKnown' /\ SourceCleared'
        BY UntouchedCounts, <1>0, <2>h, <2>i, <2>j, <2>k
    <2>2. RetrackKnown'
        BY <1>p, <1>31 DEF ForgetEnd, disk, memory, walk, history, Load, Unload, Lose,
           RetrackKnown, Retracking, JobPlaced
    <2>3. RemovalPlaced'
        BY <1>p, <1>0, <1>31 DEF ForgetEnd, disk, memory, walk, history, Load, Unload, Lose,
           RemovalPlaced, JobPlaced
    <2>4. QED
        BY <2>1, <2>2, <2>3
<1>32. ASSUME RecreateEnd PROVE Good
    <2>h. \A r \in Source : CountsOf(r)' = CountsOf(r)
        BY <1>32, <1>0, <1>p DEF RecreateEnd, disk, memory, walk, history, Load, Unload,
           Lose, CountsOf, Loaded, MemoryPlaced
    <2>i. \A r \in Source : \A g \in FileKey :
              Coming(r, g)' = 0 /\ Coming(r, g) = 0 /\ Going(r, g)' = Going(r, g)
        BY <1>32 DEF RecreateEnd, disk, memory, walk, history, Load, Unload, Lose, Coming,
           Going
    <2>j. /\ UNCHANGED packages /\ (outdated => outdated') /\ misfiled \subseteq misfiled'
          /\ ~Emptying /\ ~Emptying'
        BY <1>32, <1>p DEF RecreateEnd, disk, memory, walk, history, Load, Unload, Lose,
           Emptying, JobPlaced
    <2>k. \A r \in Source : \A g \in FileKey : UsesOf(r, g)' = UsesOf(r, g)
        BY <2>h, SameUses
    <2>1. CountsKnown' /\ SourceCleared'
        BY UntouchedCounts, <1>0, <2>h, <2>i, <2>j, <2>k
    <2>2. RetrackKnown'
        BY <1>p, <1>32 DEF RecreateEnd, disk, memory, walk, history, Load, Unload, Lose,
           RetrackKnown, Retracking, JobPlaced
    <2>3. RemovalPlaced'
        BY <1>p, <1>0, <1>32 DEF RecreateEnd, disk, memory, walk, history, Load, Unload,
           Lose, RemovalPlaced, JobPlaced
    <2>4. QED
        BY <2>1, <2>2, <2>3
<1>33. ASSUME Crash PROVE Good
    <2>1. UNCHANGED <<disk, misfiled>> /\ Lose
        BY <1>33 DEF Crash
    <2>2. CountsKnown' /\ SourceCleared'
        BY LostCounts, <1>0, <1>p, <2>1
    <2>3. CountsKnown' /\ SourceCleared'
        BY <2>2
    <2>4. RetrackKnown'
        BY <2>1 DEF Lose, RetrackKnown, Retracking
    <2>5. RemovalPlaced'
        BY <2>1 DEF Lose, RemovalPlaced
    <2>6. QED
        BY <2>3, <2>4, <2>5
<1>34. QED
    <2> HIDE DEF Good
    <2>1. Good
        BY SettingType, <1>1, <1>2, <1>3, <1>4, <1>5, <1>6, <1>7, <1>8, <1>9, <1>10, <1>11,
           <1>12, <1>13, <1>14, <1>15, <1>16, <1>17, <1>18, <1>19, <1>20, <1>21, <1>22,
           <1>23, <1>24, <1>25, <1>26, <1>27, <1>28, <1>29, <1>30, <1>31, <1>32, <1>33 DEF
           Next, Command
    <2>2. QED
        BY <2>1 DEF Good

-----------------------------------------------------------------------------
(* Tidiness: what is not needed any more is known to be looked at again    *)

LEMMA UntidyUnchanged ==
    ASSUME UNCHANGED setting, NEW s, NEW c, tracks'[s] = c
    PROVE  Untidy(tracks[s])' = Untidy(c)
BY DEF Untidy, Needed, InUse, mode

(* What the steps that change no record on disk have to show *)
LEMMA UntouchedRecords ==
    ASSUME UntidyRemembered, UNCHANGED <<setting, tracks>>,
           \/ outdated'
           \/ /\ ~outdated
              /\ \A s \in DOMAIN tracks :
                    s \in remembered \/ (pc = "tidy" /\ s = current)
                        => s \in remembered' \/ (pc' = "tidy" /\ s = current')
    PROVE  UntidyRemembered'
<1>1. \A s \in DOMAIN tracks : Untidy(tracks[s])' = Untidy(tracks[s])
    BY UntidyUnchanged
<1>2. QED
    BY <1>1 DEF UntidyRemembered

(* A tidied record is tidy. *)
LEMMA TidiedIsTidy ==
    ASSUME UNCHANGED setting, Record(counts), ~Gone(counts), NEW s, tracks'[s] = Kept
    PROVE  Untidy(tracks[s])' = {}
<1>1. Untidy(tracks[s])' = Untidy(Kept)
    BY UntidyUnchanged
<1>2. job # "removetrack" /\ (mode = "keep" \/ InUse(counts))
    BY DEF Gone
<1>3. DOMAIN Kept = DOMAIN counts \ Untidy(counts) /\ \A f \in DOMAIN Kept : Kept[f] = counts[f]
    BY <1>2 DEF Kept
<1>4. InUse(counts) => InUse(Kept)
    BY <1>3 DEF InUse, Untidy, Needed
<1>5. mode = "minimal" /\ InUse(counts) => \A f \in DOMAIN Kept : Needed(Kept, f)
    BY <1>3 DEF Untidy, Needed
<1>6. QED
    BY <1>1, <1>2, <1>4, <1>5 DEF Untidy


LEMMA TidyStep ==
    ASSUME TypeOK, Placed, ResetKnown, UntidyRemembered, Next
    PROVE  UntidyRemembered' /\ ResetKnown'
<1> DEFINE Good == UntidyRemembered' /\ ResetKnown'
<1>s. UNCHANGED setting
    BY DEF Next
<1>0. /\ TypeMemory /\ TypeWalk /\ TypePlace /\ TypeHistory /\ Records(tracks)
      /\ ResetKnown /\ UntidyRemembered
    BY TypeParts
<1>p. JobPlaced /\ MemoryPlaced /\ LoadedKept /\ TodoPlaced
    BY DEF Placed
<1>1. ASSUME NEW s \in Source, Summon(s) PROVE Good
    <2>1. UNCHANGED tracks
        BY <1>1 DEF Summon, disk, memory, walk, history, Load, Unload, Lose
    <2>2. \/ outdated'
          \/ /\ ~outdated
             /\ \A r \in DOMAIN tracks :
                    r \in remembered \/ (pc = "tidy" /\ r = current)
                        => r \in remembered' \/ (pc' = "tidy" /\ r = current')
        BY <1>1 DEF Summon, disk, memory, walk, history, Load, Unload, Lose
    <2>3. UntidyRemembered'
        BY UntouchedRecords, <1>0, <1>s, <2>1, <2>2
    <2>4. ResetKnown'
        BY <1>p, <1>0, <1>1 DEF Summon, disk, memory, walk, history, Load, Unload, Lose,
           ResetKnown, Retracking, JobPlaced
    <2>5. QED
        BY <2>3, <2>4
<1>2. ASSUME NEW s \in Source, Switch(s) PROVE Good
    <2>1. ASSUME tracks' # tracks PROVE UntidyRemembered'
        <3>1. /\ current \in Source /\ tracks' = Saved(current, counts)
              /\ remembered' = remembered \cup {current} /\ pc # "tidy" /\ UNCHANGED outdated
            BY <1>0, <2>1, <1>2 DEF Switch, TypeMemory, history
        <3>2. \A r \in DOMAIN tracks' \ {current} :
                  r \in DOMAIN tracks /\ Untidy(tracks[r])' = Untidy(tracks[r])
            BY <1>s, <3>1, UntidyUnchanged DEF Saved
        <3>3. QED
            BY <1>0, <3>1, <3>2 DEF UntidyRemembered
    <2>2. ASSUME tracks' = tracks PROVE UntidyRemembered'
        <3>1. UNCHANGED outdated /\ pc # "tidy" /\ remembered \subseteq remembered'
            BY <1>2 DEF Switch, history, memory
        <3>2. QED
            BY UntouchedRecords, <1>0, <1>s, <2>2, <3>1
    <2>3. UntidyRemembered'
        BY <2>1, <2>2
    <2>4. ResetKnown'
        BY <1>p, <1>0, <1>2 DEF Switch, disk, memory, walk, history, Load, Unload, Lose,
           ResetKnown, Retracking, JobPlaced
    <2>5. QED
        BY <2>3, <2>4
<1>3. ASSUME New PROVE Good
    <2>1. UNCHANGED tracks
        BY <1>3 DEF New, disk, memory, walk, history, Load, Unload, Lose
    <2>2. \/ outdated'
          \/ /\ ~outdated
             /\ \A r \in DOMAIN tracks :
                    r \in remembered \/ (pc = "tidy" /\ r = current)
                        => r \in remembered' \/ (pc' = "tidy" /\ r = current')
        BY <1>3 DEF New, disk, memory, walk, history, Load, Unload, Lose
    <2>3. UntidyRemembered'
        BY UntouchedRecords, <1>0, <1>s, <2>1, <2>2
    <2>4. ResetKnown'
        BY <1>p, <1>0, <1>3 DEF New, disk, memory, walk, history, Load, Unload, Lose,
           ResetKnown, Retracking, JobPlaced
    <2>5. QED
        BY <2>3, <2>4
<1>4. ASSUME NEW p \in Package, NEW q \in Package \cup {NoPackage},
             AddPackage(p, q)
      PROVE  Good
    <2>1. UNCHANGED tracks
        BY <1>4 DEF AddPackage, disk, memory, walk, history, Load, Unload, Lose
    <2>2. \/ outdated'
          \/ /\ ~outdated
             /\ \A r \in DOMAIN tracks :
                    r \in remembered \/ (pc = "tidy" /\ r = current)
                        => r \in remembered' \/ (pc' = "tidy" /\ r = current')
        BY <1>4 DEF AddPackage, disk, memory, walk, history, Load, Unload, Lose
    <2>3. UntidyRemembered'
        BY UntouchedRecords, <1>0, <1>s, <2>1, <2>2
    <2>4. ResetKnown'
        BY <1>p, <1>0, <1>4 DEF AddPackage, disk, memory, walk, history, Load, Unload, Lose,
           ResetKnown, Retracking, JobPlaced
    <2>5. QED
        BY <2>3, <2>4
<1>5. ASSUME NEW p \in Package, NEW q \in Package \cup {NoPackage},
             ChangeUntracked(p, q)
      PROVE  Good
    <2>1. UNCHANGED tracks
        BY <1>5 DEF ChangeUntracked, disk, memory, walk, history, Load, Unload, Lose
    <2>2. \/ outdated'
          \/ /\ ~outdated
             /\ \A r \in DOMAIN tracks :
                    r \in remembered \/ (pc = "tidy" /\ r = current)
                        => r \in remembered' \/ (pc' = "tidy" /\ r = current')
        BY <1>5 DEF ChangeUntracked, disk, memory, walk, history, Load, Unload, Lose
    <2>3. UntidyRemembered'
        BY UntouchedRecords, <1>0, <1>s, <2>1, <2>2
    <2>4. ResetKnown'
        BY <1>p, <1>0, <1>5 DEF ChangeUntracked, disk, memory, walk, history, Load, Unload,
           Lose, ResetKnown, Retracking, JobPlaced
    <2>5. QED
        BY <2>3, <2>4
<1>6. ASSUME NEW p \in Package, RemovePackage(p) PROVE Good
    <2>1. UNCHANGED tracks
        BY <1>6 DEF RemovePackage, disk, memory, walk, history, Load, Unload, Lose
    <2>2. \/ outdated'
          \/ /\ ~outdated
             /\ \A r \in DOMAIN tracks :
                    r \in remembered \/ (pc = "tidy" /\ r = current)
                        => r \in remembered' \/ (pc' = "tidy" /\ r = current')
        BY <1>6 DEF RemovePackage, disk, memory, walk, history, Load, Unload, Lose
    <2>3. UntidyRemembered'
        BY UntouchedRecords, <1>0, <1>s, <2>1, <2>2
    <2>4. ResetKnown'
        BY <1>p, <1>0, <1>6 DEF RemovePackage, disk, memory, walk, history, Load, Unload,
           Lose, ResetKnown, Retracking, JobPlaced
    <2>5. QED
        BY <2>3, <2>4
<1>7. ASSUME NEW f \in FileKey, InsertFile(f) PROVE Good
    <2>1. UNCHANGED tracks
        BY <1>7 DEF InsertFile, disk, memory, walk, history, Load, Unload, Lose
    <2>2. \/ outdated'
          \/ /\ ~outdated
             /\ \A r \in DOMAIN tracks :
                    r \in remembered \/ (pc = "tidy" /\ r = current)
                        => r \in remembered' \/ (pc' = "tidy" /\ r = current')
        BY <1>7 DEF InsertFile, disk, memory, walk, history, Load, Unload, Lose
    <2>3. UntidyRemembered'
        BY UntouchedRecords, <1>0, <1>s, <2>1, <2>2
    <2>4. ResetKnown'
        BY <1>p, <1>0, <1>7 DEF InsertFile, disk, memory, walk, history, Load, Unload, Lose,
           ResetKnown, Retracking, JobPlaced
    <2>5. QED
        BY <2>3, <2>4
<1>8. ASSUME NEW f \in FileKey, TidyFile(f) PROVE Good
    <2>1. UNCHANGED tracks
        BY <1>8 DEF TidyFile, disk, memory, walk, history, Load, Unload, Lose
    <2>2. \/ outdated'
          \/ /\ ~outdated
             /\ \A r \in DOMAIN tracks :
                    r \in remembered \/ (pc = "tidy" /\ r = current)
                        => r \in remembered' \/ (pc' = "tidy" /\ r = current')
        BY <1>8 DEF TidyFile, disk, memory, walk, history, Load, Unload, Lose
    <2>3. UntidyRemembered'
        BY UntouchedRecords, <1>0, <1>s, <2>1, <2>2
    <2>4. ResetKnown'
        BY <1>p, <1>0, <1>8 DEF TidyFile, disk, memory, walk, history, Load, Unload, Lose,
           ResetKnown, Retracking, JobPlaced
    <2>5. QED
        BY <2>3, <2>4
<1>9. ASSUME NEW f \in FileKey, AddExtra(f) PROVE Good
    <2>1. UNCHANGED tracks
        BY <1>9 DEF AddExtra, disk, memory, walk, history, Load, Unload, Lose
    <2>2. \/ outdated'
          \/ /\ ~outdated
             /\ \A r \in DOMAIN tracks :
                    r \in remembered \/ (pc = "tidy" /\ r = current)
                        => r \in remembered' \/ (pc' = "tidy" /\ r = current')
        BY <1>9 DEF AddExtra, disk, memory, walk, history, Load, Unload, Lose
    <2>3. UntidyRemembered'
        BY UntouchedRecords, <1>0, <1>s, <2>1, <2>2
    <2>4. ResetKnown'
        BY <1>p, <1>0, <1>9 DEF AddExtra, disk, memory, walk, history, Load, Unload, Lose,
           ResetKnown, Retracking, JobPlaced
    <2>5. QED
        BY <2>3, <2>4
<1>10. ASSUME InsertEnd PROVE Good
    <2>1. UNCHANGED tracks
        BY <1>10 DEF InsertEnd, disk, memory, walk, history, Load, Unload, Lose
    <2>2. \/ outdated'
          \/ /\ ~outdated
             /\ \A r \in DOMAIN tracks :
                    r \in remembered \/ (pc = "tidy" /\ r = current)
                        => r \in remembered' \/ (pc' = "tidy" /\ r = current')
        BY <1>10 DEF InsertEnd, disk, memory, walk, history, Load, Unload, Lose
    <2>3. UntidyRemembered'
        BY UntouchedRecords, <1>0, <1>s, <2>1, <2>2
    <2>4. ResetKnown'
        BY <1>p, <1>0, <1>10 DEF InsertEnd, disk, memory, walk, history, Load, Unload, Lose,
           ResetKnown, Retracking, JobPlaced
    <2>5. QED
        BY <2>3, <2>4
<1>11. ASSUME DropOld PROVE Good
    <2>1. pc = "drop" /\ pc' = "open" /\ remembered \subseteq remembered' /\ (outdated => outdated')
        <3>1. outdated => outdated'
            BY Zenon, <1>11 DEF DropOld
        <3>2. QED
            BY <3>1, <1>11 DEF DropOld
    <2>2. ASSUME tracks' = tracks PROVE UntidyRemembered'
        BY UntouchedRecords, <1>0, <1>s, <2>1, <2>2
    <2>3. ASSUME tracks' # tracks PROVE UntidyRemembered'
        <3>1. PICK d : /\ tracks' = Saved(d, RemoveFileKeys(tracks[d], Files[old]))
                       /\ d \in remembered'
            BY <2>3, <1>11 DEF DropOld
        <3>2. \A r \in DOMAIN tracks' \ {d} :
                  r \in DOMAIN tracks /\ Untidy(tracks[r])' = Untidy(tracks[r])
            BY <1>s, <3>1, UntidyUnchanged DEF Saved
        <3>3. QED
            BY <1>0, <2>1, <3>1, <3>2 DEF UntidyRemembered
    <2>4. UntidyRemembered'
        BY <2>2, <2>3
    <2>5. ResetKnown'
        BY <1>p, <1>0, <1>11 DEF DropOld, disk, memory, walk, history, Load, Unload, Lose,
           ResetKnown, Retracking, JobPlaced
    <2>6. QED
        BY <2>4, <2>5
<1>12. ASSUME Abandon PROVE Good
    <2>1. UNCHANGED tracks
        BY <1>12 DEF Abandon, disk, memory, walk, history, Load, Unload, Lose
    <2>2. \/ outdated'
          \/ /\ ~outdated
             /\ \A r \in DOMAIN tracks :
                    r \in remembered \/ (pc = "tidy" /\ r = current)
                        => r \in remembered' \/ (pc' = "tidy" /\ r = current')
        BY <1>12 DEF Abandon, disk, memory, walk, history, Load, Unload, Lose
    <2>3. UntidyRemembered'
        BY UntouchedRecords, <1>0, <1>s, <2>1, <2>2
    <2>4. ResetKnown'
        BY <1>p, <1>0, <1>12 DEF Abandon, disk, memory, walk, history, Load, Unload, Lose,
           ResetKnown, Retracking, JobPlaced
    <2>5. QED
        BY <2>3, <2>4
<1>13. ASSUME Finish PROVE Good
    <2>1. UNCHANGED tracks
        BY <1>13 DEF Finish, disk, memory, walk, history, Load, Unload, Lose
    <2>2. \/ outdated'
          \/ /\ ~outdated
             /\ \A r \in DOMAIN tracks :
                    r \in remembered \/ (pc = "tidy" /\ r = current)
                        => r \in remembered' \/ (pc' = "tidy" /\ r = current')
        BY <1>13 DEF Finish, disk, memory, walk, history, Load, Unload, Lose
    <2>3. UntidyRemembered'
        BY UntouchedRecords, <1>0, <1>s, <2>1, <2>2
    <2>4. ResetKnown'
        BY <1>p, <1>0, <1>13 DEF Finish, disk, memory, walk, history, Load, Unload, Lose,
           ResetKnown, Retracking, JobPlaced
    <2>5. QED
        BY <2>3, <2>4
<1>14. ASSUME FinishNext PROVE Good
    <2>1. UNCHANGED tracks
        BY <1>14 DEF FinishNext, disk, memory, walk, history, Load, Unload, Lose
    <2>2. \/ outdated'
          \/ /\ ~outdated
             /\ \A r \in DOMAIN tracks :
                    r \in remembered \/ (pc = "tidy" /\ r = current)
                        => r \in remembered' \/ (pc' = "tidy" /\ r = current')
        BY <1>14 DEF FinishNext, disk, memory, walk, history, Load, Unload, Lose
    <2>3. UntidyRemembered'
        BY UntouchedRecords, <1>0, <1>s, <2>1, <2>2
    <2>4. ResetKnown'
        BY <1>p, <1>0, <1>14 DEF FinishNext, disk, memory, walk, history, Load, Unload,
           Lose, ResetKnown, Retracking, JobPlaced
    <2>5. QED
        BY <2>3, <2>4
<1>15. ASSUME TidySave PROVE Good
    <2>1. PICK c : c = current
        OBVIOUS
    <2>2. c \in Source /\ pc = "tidy" /\ UNCHANGED remembered /\ Record(counts)
        BY <1>0, <1>p, <2>1, <1>15 DEF TidySave, MemoryPlaced, TypeMemory
    <2>3. outdated' \/ /\ ~outdated
                       /\ tracks' = IF Gone(counts) THEN Unsaved(c) ELSE Saved(c, Kept)
        BY <2>1, <1>15 DEF TidySave
    <2>4. ASSUME ~outdated' PROVE UntidyRemembered'
        <3>1. \A r \in DOMAIN tracks' \ {c} :
                  r \in DOMAIN tracks /\ Untidy(tracks[r])' = Untidy(tracks[r])
            BY <1>s, <2>3, <2>4, UntidyUnchanged DEF Saved, Unsaved
        <3>2. c \in DOMAIN tracks' => Untidy(tracks[c])' = {}
            <4>1. SUFFICES ASSUME c \in DOMAIN tracks' PROVE Untidy(tracks[c])' = {}
                OBVIOUS
            <4>2. ~Gone(counts) /\ tracks'[c] = Kept
                BY <2>3, <2>4, <4>1 DEF Saved, Unsaved
            <4>3. QED
                BY TidiedIsTidy, <1>s, <2>2, <4>2
        <3>3. QED
            BY <1>0, <2>1, <2>2, <2>3, <2>4, <3>1, <3>2 DEF UntidyRemembered
    <2>5. UntidyRemembered'
        BY <2>4 DEF UntidyRemembered
    <2>6. ResetKnown'
        BY <1>p, <1>0, <1>15 DEF TidySave, disk, memory, walk, history, Load, Unload, Lose,
           ResetKnown, Retracking, JobPlaced, AfterSave, MemoryPlaced, Saved
    <2>7. QED
        BY <2>5, <2>6
<1>16. ASSUME TidyTracks PROVE Good
    <2>1. UNCHANGED tracks
        BY <1>16 DEF TidyTracks, disk, memory, walk, history, Load, Unload, Lose
    <2>2. \/ outdated'
          \/ /\ ~outdated
             /\ \A r \in DOMAIN tracks :
                    r \in remembered \/ (pc = "tidy" /\ r = current)
                        => r \in remembered' \/ (pc' = "tidy" /\ r = current')
        BY <1>16 DEF TidyTracks, disk, memory, walk, history, Load, Unload, Lose
    <2>3. UntidyRemembered'
        BY UntouchedRecords, <1>0, <1>s, <2>1, <2>2
    <2>4. ResetKnown'
        BY <1>p, <1>0, <1>16 DEF TidyTracks, disk, memory, walk, history, Load, Unload,
           Lose, ResetKnown, Retracking, JobPlaced
    <2>5. QED
        BY <2>3, <2>4
<1>17. ASSUME Retrack PROVE Good
    <2>1. UNCHANGED tracks
        BY <1>17 DEF Retrack, disk, memory, walk, history, Load, Unload, Lose
    <2>2. \/ outdated'
          \/ /\ ~outdated
             /\ \A r \in DOMAIN tracks :
                    r \in remembered \/ (pc = "tidy" /\ r = current)
                        => r \in remembered' \/ (pc' = "tidy" /\ r = current')
        BY <1>17 DEF Retrack, disk, memory, walk, history, Load, Unload, Lose
    <2>3. UntidyRemembered'
        BY UntouchedRecords, <1>0, <1>s, <2>1, <2>2
    <2>4. ResetKnown'
        BY <1>p, <1>0, <1>17 DEF Retrack, disk, memory, walk, history, Load, Unload, Lose,
           ResetKnown, Retracking, JobPlaced
    <2>5. QED
        BY <2>3, <2>4
<1>18. ASSUME ResetEnd PROVE Good
    <2>1. UNCHANGED tracks
        BY <1>18 DEF ResetEnd, disk, memory, walk, history, Load, Unload, Lose
    <2>2. \/ outdated'
          \/ /\ ~outdated
             /\ \A r \in DOMAIN tracks :
                    r \in remembered \/ (pc = "tidy" /\ r = current)
                        => r \in remembered' \/ (pc' = "tidy" /\ r = current')
        BY <1>18 DEF ResetEnd, disk, memory, walk, history, Load, Unload, Lose
    <2>3. UntidyRemembered'
        BY UntouchedRecords, <1>0, <1>s, <2>1, <2>2
    <2>4. ResetKnown'
        BY <1>p, <1>0, <1>18 DEF ResetEnd, disk, memory, walk, history, Load, Unload, Lose,
           ResetKnown, Retracking, JobPlaced
    <2>5. QED
        BY <2>3, <2>4
<1>19. ASSUME SaveRetracked PROVE Good
    <2>1. UntidyRemembered'
        BY <1>0, <1>19 DEF SaveRetracked, history, ResetKnown, Retracking, UntidyRemembered
    <2>2. ResetKnown'
        BY <1>p, <1>0, <1>19 DEF SaveRetracked, disk, memory, walk, history, Load, Unload,
           Lose, ResetKnown, Retracking, JobPlaced
    <2>3. QED
        BY <2>1, <2>2
<1>20. ASSUME RetrackEnd PROVE Good
    <2>1. UntidyRemembered'
        BY <1>20 DEF RetrackEnd, disk, UntidyRemembered
    <2>2. ResetKnown'
        BY <1>p, <1>0, <1>20 DEF RetrackEnd, disk, memory, walk, history, Load, Unload,
           Lose, ResetKnown, Retracking, JobPlaced
    <2>3. QED
        BY <2>1, <2>2
<1>21. ASSUME NEW s \in Source, ResetOne(s) PROVE Good
    <2>1. UntidyRemembered'
        BY <1>0, <1>21 DEF ResetOne, history, ResetKnown, Retracking, UntidyRemembered
    <2>2. ResetKnown'
        BY <1>p, <1>0, <1>21 DEF ResetOne, disk, memory, walk, history, Load, Unload, Lose,
           ResetKnown, Retracking, JobPlaced, AfterSave, MemoryPlaced, Saved
    <2>3. QED
        BY <2>1, <2>2
<1>22. ASSUME NEW p \in Package, RetrackOne(p) PROVE Good
    <2>1. UNCHANGED tracks
        BY <1>22 DEF RetrackOne, disk, memory, walk, history, Load, Unload, Lose
    <2>2. \/ outdated'
          \/ /\ ~outdated
             /\ \A r \in DOMAIN tracks :
                    r \in remembered \/ (pc = "tidy" /\ r = current)
                        => r \in remembered' \/ (pc' = "tidy" /\ r = current')
        BY <1>22 DEF RetrackOne, disk, memory, walk, history, Load, Unload, Lose
    <2>3. UntidyRemembered'
        BY UntouchedRecords, <1>0, <1>s, <2>1, <2>2
    <2>4. ResetKnown'
        BY <1>p, <1>0, <1>22 DEF RetrackOne, disk, memory, walk, history, Load, Unload,
           Lose, ResetKnown, Retracking, JobPlaced
    <2>5. QED
        BY <2>3, <2>4
<1>23. ASSUME NEW p \in Package, RemoveSrcOne(p) PROVE Good
    <2>1. UNCHANGED tracks
        BY <1>23 DEF RemoveSrcOne, disk, memory, walk, history, Load, Unload, Lose
    <2>2. \/ outdated'
          \/ /\ ~outdated
             /\ \A r \in DOMAIN tracks :
                    r \in remembered \/ (pc = "tidy" /\ r = current)
                        => r \in remembered' \/ (pc' = "tidy" /\ r = current')
        BY <1>23 DEF RemoveSrcOne, disk, memory, walk, history, Load, Unload, Lose
    <2>3. UntidyRemembered'
        BY UntouchedRecords, <1>0, <1>s, <2>1, <2>2
    <2>4. ResetKnown'
        BY <1>p, <1>0, <1>23 DEF RemoveSrcOne, disk, memory, walk, history, Load, Unload,
           Lose, ResetKnown, Retracking, JobPlaced
    <2>5. QED
        BY <2>3, <2>4
<1>24. ASSUME NEW s \in Source, RemoveTrack(s) PROVE Good
    <2>1. UNCHANGED tracks
        BY <1>24 DEF RemoveTrack, disk, memory, walk, history, Load, Unload, Lose
    <2>2. \/ outdated'
          \/ /\ ~outdated
             /\ \A r \in DOMAIN tracks :
                    r \in remembered \/ (pc = "tidy" /\ r = current)
                        => r \in remembered' \/ (pc' = "tidy" /\ r = current')
        BY <1>24 DEF RemoveTrack, disk, memory, walk, history, Load, Unload, Lose
    <2>3. UntidyRemembered'
        BY UntouchedRecords, <1>0, <1>s, <2>1, <2>2
    <2>4. ResetKnown'
        BY <1>p, <1>0, <1>24 DEF RemoveTrack, disk, memory, walk, history, Load, Unload,
           Lose, ResetKnown, Retracking, JobPlaced
    <2>5. QED
        BY <2>3, <2>4
<1>25. ASSUME NEW s \in Source, RemoveSrc(s) PROVE Good
    <2>1. UNCHANGED tracks
        BY <1>25 DEF RemoveSrc, disk, memory, walk, history, Load, Unload, Lose
    <2>2. \/ outdated'
          \/ /\ ~outdated
             /\ \A r \in DOMAIN tracks :
                    r \in remembered \/ (pc = "tidy" /\ r = current)
                        => r \in remembered' \/ (pc' = "tidy" /\ r = current')
        BY <1>25 DEF RemoveSrc, disk, memory, walk, history, Load, Unload, Lose
    <2>3. UntidyRemembered'
        BY UntouchedRecords, <1>0, <1>s, <2>1, <2>2
    <2>4. ResetKnown'
        BY <1>p, <1>0, <1>25 DEF RemoveSrc, disk, memory, walk, history, Load, Unload, Lose,
           ResetKnown, Retracking, JobPlaced
    <2>5. QED
        BY <2>3, <2>4
<1>26. ASSUME RemoveSrcEnd PROVE Good
    <2>1. UNCHANGED tracks
        BY <1>26 DEF RemoveSrcEnd, disk, memory, walk, history, Load, Unload, Lose
    <2>2. \/ outdated'
          \/ /\ ~outdated
             /\ \A r \in DOMAIN tracks :
                    r \in remembered \/ (pc = "tidy" /\ r = current)
                        => r \in remembered' \/ (pc' = "tidy" /\ r = current')
        BY <1>26 DEF RemoveSrcEnd, disk, memory, walk, history, Load, Unload, Lose
    <2>3. UntidyRemembered'
        BY UntouchedRecords, <1>0, <1>s, <2>1, <2>2
    <2>4. ResetKnown'
        BY <1>p, <1>0, <1>26 DEF RemoveSrcEnd, disk, memory, walk, history, Load, Unload,
           Lose, ResetKnown, Retracking, JobPlaced
    <2>5. QED
        BY <2>3, <2>4
<1>27. ASSUME Rereference PROVE Good
    <2>1. UNCHANGED tracks
        BY <1>27 DEF Rereference, disk, memory, walk, history, Load, Unload, Lose
    <2>2. \/ outdated'
          \/ /\ ~outdated
             /\ \A r \in DOMAIN tracks :
                    r \in remembered \/ (pc = "tidy" /\ r = current)
                        => r \in remembered' \/ (pc' = "tidy" /\ r = current')
        BY <1>27 DEF Rereference, disk, memory, walk, history, Load, Unload, Lose
    <2>3. UntidyRemembered'
        BY UntouchedRecords, <1>0, <1>s, <2>1, <2>2
    <2>4. ResetKnown'
        BY <1>p, <1>0, <1>27 DEF Rereference, disk, memory, walk, history, Load, Unload,
           Lose, ResetKnown, Retracking, JobPlaced
    <2>5. QED
        BY <2>3, <2>4
<1>28. ASSUME DropTracks PROVE Good
    <2>1. UntidyRemembered'
        BY <1>28 DEF DropTracks, UntidyRemembered
    <2>2. ResetKnown'
        BY <1>p, <1>0, <1>28 DEF DropTracks, disk, memory, walk, history, Load, Unload,
           Lose, ResetKnown, Retracking, JobPlaced
    <2>3. QED
        BY <2>1, <2>2
<1>29. ASSUME NEW s \in Source, ForgetOne(s) PROVE Good
    <2>1. UNCHANGED tracks
        BY <1>29 DEF ForgetOne, disk, memory, walk, history, Load, Unload, Lose
    <2>2. \/ outdated'
          \/ /\ ~outdated
             /\ \A r \in DOMAIN tracks :
                    r \in remembered \/ (pc = "tidy" /\ r = current)
                        => r \in remembered' \/ (pc' = "tidy" /\ r = current')
        BY <1>29 DEF ForgetOne, disk, memory, walk, history, Load, Unload, Lose
    <2>3. UntidyRemembered'
        BY UntouchedRecords, <1>0, <1>s, <2>1, <2>2
    <2>4. ResetKnown'
        BY <1>p, <1>0, <1>29 DEF ForgetOne, disk, memory, walk, history, Load, Unload, Lose,
           ResetKnown, Retracking, JobPlaced
    <2>5. QED
        BY <2>3, <2>4
<1>30. ASSUME NEW s \in Source, RecreateOne(s) PROVE Good
    <2>1. UNCHANGED tracks
        BY <1>30 DEF RecreateOne, disk, memory, walk, history, Load, Unload, Lose
    <2>2. \/ outdated'
          \/ /\ ~outdated
             /\ \A r \in DOMAIN tracks :
                    r \in remembered \/ (pc = "tidy" /\ r = current)
                        => r \in remembered' \/ (pc' = "tidy" /\ r = current')
        BY <1>30 DEF RecreateOne, disk, memory, walk, history, Load, Unload, Lose
    <2>3. UntidyRemembered'
        BY UntouchedRecords, <1>0, <1>s, <2>1, <2>2
    <2>4. ResetKnown'
        BY <1>p, <1>0, <1>30 DEF RecreateOne, disk, memory, walk, history, Load, Unload,
           Lose, ResetKnown, Retracking, JobPlaced
    <2>5. QED
        BY <2>3, <2>4
<1>31. ASSUME ForgetEnd PROVE Good
    <2>1. UNCHANGED tracks
        BY <1>31 DEF ForgetEnd, disk, memory, walk, history, Load, Unload, Lose
    <2>2. \/ outdated'
          \/ /\ ~outdated
             /\ \A r \in DOMAIN tracks :
                    r \in remembered \/ (pc = "tidy" /\ r = current)
                        => r \in remembered' \/ (pc' = "tidy" /\ r = current')
        BY <1>31 DEF ForgetEnd, disk, memory, walk, history, Load, Unload, Lose
    <2>3. UntidyRemembered'
        BY UntouchedRecords, <1>0, <1>s, <2>1, <2>2
    <2>4. ResetKnown'
        BY <1>p, <1>0, <1>31 DEF ForgetEnd, disk, memory, walk, history, Load, Unload, Lose,
           ResetKnown, Retracking, JobPlaced
    <2>5. QED
        BY <2>3, <2>4
<1>32. ASSUME RecreateEnd PROVE Good
    <2>1. UNCHANGED tracks
        BY <1>32 DEF RecreateEnd, disk, memory, walk, history, Load, Unload, Lose
    <2>2. \/ outdated'
          \/ /\ ~outdated
             /\ \A r \in DOMAIN tracks :
                    r \in remembered \/ (pc = "tidy" /\ r = current)
                        => r \in remembered' \/ (pc' = "tidy" /\ r = current')
        BY <1>32 DEF RecreateEnd, disk, memory, walk, history, Load, Unload, Lose
    <2>3. UntidyRemembered'
        BY UntouchedRecords, <1>0, <1>s, <2>1, <2>2
    <2>4. ResetKnown'
        BY <1>p, <1>0, <1>32 DEF RecreateEnd, disk, memory, walk, history, Load, Unload,
           Lose, ResetKnown, Retracking, JobPlaced
    <2>5. QED
        BY <2>3, <2>4
<1>33. ASSUME Crash PROVE Good
    <2>1. UNCHANGED tracks
        BY <1>33 DEF Crash, disk, memory, walk, history, Load, Unload, Lose
    <2>2. \/ outdated'
          \/ /\ ~outdated
             /\ \A r \in DOMAIN tracks :
                    r \in remembered \/ (pc = "tidy" /\ r = current)
                        => r \in remembered' \/ (pc' = "tidy" /\ r = current')
        BY <1>33 DEF Crash, disk, memory, walk, history, Load, Unload, Lose
    <2>3. UntidyRemembered'
        BY UntouchedRecords, <1>0, <1>s, <2>1, <2>2
    <2>4. ResetKnown'
        BY <1>p, <1>0, <1>33 DEF Crash, disk, memory, walk, history, Load, Unload, Lose,
           ResetKnown, Retracking, JobPlaced
    <2>5. QED
        BY <2>3, <2>4
<1>34. QED
    <2> HIDE DEF Good
    <2>1. Good
        BY SettingType, <1>1, <1>2, <1>3, <1>4, <1>5, <1>6, <1>7, <1>8, <1>9, <1>10, <1>11,
           <1>12, <1>13, <1>14, <1>15, <1>16, <1>17, <1>18, <1>19, <1>20, <1>21, <1>22,
           <1>23, <1>24, <1>25, <1>26, <1>27, <1>28, <1>29, <1>30, <1>31, <1>32, <1>33 DEF
           Next, Command
    <2>2. QED
        BY <2>1 DEF Good

-----------------------------------------------------------------------------
(* The theorems                                                            *)

IInv ==
    /\ TypeOK /\ Placed
    /\ NoExcess /\ HeldReferenced /\ Rereferencing
    /\ ResetKnown /\ UntidyRemembered

LEMMA InitInv == Init => IInv
<1> SUFFICES ASSUME Init PROVE IInv
    OBVIOUS
<1>1. TypeOK
    BY InitType
<1>2. Placed
    BY SourceAssumption
       DEF Init, Placed, JobPlaced, MemoryPlaced, LoadedKept, TodoPlaced, Loaded, NoFiles
<1>3. \A s \in Source : Held(s) = {}
    BY DEF Init, Held, CountsOf, Loaded, NoFiles
<1>4. NoExcess /\ HeldReferenced /\ Rereferencing
    BY <1>3 DEF Init, NoExcess, AtMostOnce, HeldReferenced, Rereferencing
<1>5. ResetKnown /\ UntidyRemembered
    BY DEF Init, ResetKnown, Retracking, UntidyRemembered
<1>6. QED
    BY <1>1, <1>2, <1>4, <1>5 DEF IInv

LEMMA StepInv == IInv /\ [Next]_vars => IInv'
<1> SUFFICES ASSUME IInv, [Next]_vars PROVE IInv'
    OBVIOUS
<1>1. TypeOK'
    BY StepType DEF IInv, Placed
<1>2. CASE Next
    BY <1>1, <1>2, PlacedStep, ReferencesStep, TidyStep DEF IInv, Placed
<1>3. CASE UNCHANGED vars
    <2>1. Placed'
        BY <1>3 DEF IInv, vars, disk, memory, walk, history, Placed, JobPlaced, MemoryPlaced,
           LoadedKept, TodoPlaced, Loaded, ToDrop, Untidy, Needed, InUse, mode
    <2>2. \A s \in Source : Held(s)' = Held(s)
        BY <1>3 DEF vars, disk, memory, Held, CountsOf, Loaded
    <2>3. ToDrop' = ToDrop
        BY <1>3 DEF vars, memory, ToDrop, Untidy, Needed, InUse, mode
    <2>4. NoExcess'
        <3> SUFFICES ASSUME NEW s \in Source, NEW f \in FileKey PROVE AtMostOnce(s, f)'
            BY DEF NoExcess
        <3>1. AtMostOnce(s, f)
            BY DEF IInv, NoExcess
        <3>2. UNCHANGED <<pc, current, todo, trackrefs, orphaned>>
            BY <1>3 DEF vars, disk, memory, walk, history
        <3>3. QED
            BY <2>2, <2>3, <3>1, <3>2 DEF AtMostOnce
    <2>5. HeldReferenced' /\ Rereferencing'
        BY <1>3, <2>2 DEF IInv, vars, disk, memory, walk, history, HeldReferenced, Referenced,
           Rereferencing
    <2>6. ResetKnown'
        BY <1>3 DEF IInv, vars, disk, memory, walk, history, ResetKnown, Retracking
    <2>7. UntidyRemembered'
        <3>1. outdated' \/ ~outdated
            BY Zenon, <1>3 DEF vars, history
        <3>2. QED
            BY <1>3, <3>1, UntouchedRecords DEF IInv, vars, disk, memory, walk
    <2>8. QED
        BY <1>1, <2>1, <2>4, <2>5, <2>6, <2>7 DEF IInv
<1>4. QED
    BY <1>2, <1>3

THEOREM TrackingInvariant == Spec => []IInv
BY InitInv, StepInv, PTL DEF Spec

(* Every variable has its type in every reachable state. *)
THEOREM TypeCorrect == Spec => []TypeOK
<1>1. IInv => TypeOK
    BY DEF IInv
<1>2. QED
    BY <1>1, TrackingInvariant, PTL

(* Whatever fails or dies, every file in a record is referenced by it, and *)
(* between commands a track holds exactly one reference to each of its     *)
(* files and none to others, but for the files something failed at.        *)
THEOREM TracksHoldTheirFiles == Spec => []ReferencesExact
<1>1. ASSUME IInv PROVE ReferencesExact
    <2>0. /\ Records(tracks) /\ trackrefs \in [Source -> [FileKey -> Nat]]
          /\ NoExcess /\ HeldReferenced /\ LoadedKept /\ MemoryPlaced /\ NoSource \notin Source
        BY <1>1, TypeParts, SourceAssumption DEF IInv, Placed
    <2>1. RecordsReferenced
        <3> SUFFICES ASSUME NEW s \in DOMAIN tracks, NEW f \in DOMAIN tracks[s]
                     PROVE  trackrefs[s][f] > 0 \/ <<s, f>> \in exposed
            BY DEF RecordsReferenced
        <3>1. s \in Source /\ f \in Held(s)
            BY <2>0 DEF Records, LoadedKept, Held, CountsOf, Loaded
        <3>2. QED
            BY <2>0, <3>1 DEF HeldReferenced, Referenced
    <2>2. ASSUME pc = "idle", NEW s \in Source, NEW f \in FileKey,
                 <<s, f>> \notin exposed \cup orphaned
          PROVE  trackrefs[s][f] = IF <<s, f>> \in Tracked THEN 1 ELSE 0
        <3>1. /\ current = NoSource /\ Held(s) = DOMAIN Loaded(s)
              /\ <<s, f>> \in Tracked <=> f \in Held(s)
            BY <2>0, <2>2 DEF MemoryPlaced, Held, CountsOf, Loaded, NoFiles, Tracked
        <3>2. AtMostOnce(s, f) /\ trackrefs[s][f] \in Nat
            BY <2>0 DEF NoExcess
        <3>3. f \in Held(s) => trackrefs[s][f] > 0
            BY <2>0, <2>2 DEF HeldReferenced, Referenced
        <3>4. QED
            BY <2>2, <3>1, <3>2, <3>3 DEF AtMostOnce
    <2>3. QED
        BY <2>1, <2>2 DEF ReferencesExact
<1>2. QED
    BY <1>1, TrackingInvariant, PTL

(* Between commands, as long as the tracking data is not known to be       *)
(* outdated, no record is left that nothing uses, and in mode minimal no   *)
(* file that is not needed.                                                *)
THEOREM NothingUnneededStays == Spec => []OnlyNeededTracked
<1>1. IInv => OnlyNeededTracked
    BY DEF IInv, Placed, MemoryPlaced, UntidyRemembered, OnlyNeededTracked, JobPlaced
<1>2. QED
    BY <1>1, TrackingInvariant, PTL

LEMMA CountsInvariant == Spec => []CountsInv
<1>1. Init => CountsInv
    <2> SUFFICES ASSUME Init PROVE CountsInv
        OBVIOUS
    <2>1. \A s \in Source : \A f \in FileKey : Balanced(s, f)
        <3>1. \A s \in Source : \A f \in FileKey :
                  /\ UsesOf(s, f) = 0 /\ Coming(s, f) = 0 /\ Going(s, f) = 0
                  /\ UsersIn(packages, s, f) = {}
            BY DEF Init, UsesOf, Held, CountsOf, Loaded, NoFiles, Coming, Going, UsersIn
        <3>2. QED
            BY <3>1, FS_EmptySet DEF Balanced
    <2>2. QED
        BY <2>1 DEF Init, CountsInv, CountsKnown, SourceCleared, Emptying, RetrackKnown,
           Retracking, RemovalPlaced
<1>2. IInv /\ CountsInv /\ [Next]_vars => CountsInv'
    <2> SUFFICES ASSUME IInv, CountsInv, [Next]_vars PROVE CountsInv'
        OBVIOUS
    <2>1. CASE Next
        BY <2>1, CountsStep DEF IInv, CountsInv
    <2>2. CASE UNCHANGED vars
        <3>1. \A r \in Source : CountsOf(r)' = CountsOf(r)
            BY <2>2 DEF vars, disk, memory, CountsOf, Loaded
        <3>2. \A r \in Source : \A g \in FileKey :
                  /\ UsesOf(r, g)' = UsesOf(r, g)
                  /\ Coming(r, g)' = Coming(r, g) /\ Going(r, g)' = Going(r, g)
            BY <2>2, <3>1, SameUses DEF vars, memory, walk, Coming, Going
        <3>3. CountsKnown' /\ SourceCleared'
            BY <2>2, <3>2 DEF CountsInv, vars, disk, memory, history, CountsKnown, SourceCleared,
               Emptying, Balanced
        <3>4. RetrackKnown' /\ RemovalPlaced'
            BY <2>2, <3>2 DEF CountsInv, vars, disk, memory, walk, RetrackKnown, Retracking,
               RemovalPlaced
        <3>5. QED
            BY <3>3, <3>4 DEF CountsInv
    <2>3. QED
        BY <2>1, <2>2
<1>3. QED
    BY <1>1, <1>2, TrackingInvariant, PTL DEF Spec

(* A record counts for each file the listed packages of its source that    *)
(* use it, as long as the tracking data is not known to be outdated.       *)
(* Excepted, until a retrack, are the records a package copied, moved or   *)
(* archived under another version than that of its source concerns: the    *)
(* one it was counted in, and the one it was not.                          *)
THEOREM UsesAreCounted == Spec => []CountsExact
<1>1. ASSUME IInv, CountsInv PROVE CountsExact
    <2> SUFFICES ASSUME pc \in {"idle", "open"}, ~outdated, NEW s \in Source \ misfiled, NEW f \in FileKey
                 PROVE  (IF f \in DOMAIN CountsOf(s) THEN CountsOf(s)[f] ELSE 0)
                            = Cardinality(Users(s, f))
        BY DEF CountsExact
    <2>1. Balanced(s, f) /\ old = NoPackage
        BY <1>1 DEF IInv, Placed, MemoryPlaced, CountsInv, CountsKnown, Emptying
    <2>2. Coming(s, f) = 0 /\ Going(s, f) = 0
        BY <2>1 DEF Coming, Going
    <2>3. UsesOf(s, f) \in Nat /\ Cardinality(UsersIn(packages, s, f)) \in Nat
        BY <1>1, CountTypes DEF IInv
    <2>4. UsersIn(packages, s, f) = Users(s, f)
        BY DEF UsersIn, Users
    <2>5. QED
        BY <2>1, <2>2, <2>3, <2>4 DEF Balanced, UsesOf, Held
<1>2. QED
    BY <1>1, TrackingInvariant, CountsInvariant, PTL

(* Every package lists a file, if only its own. *)
FilesListed == \A p \in Package : Files[p] # {}

(* What a tidying of current data drops is not used by a listed package.   *)
LEMMA DroppedUnused ==
    ASSUME IInv, CountsInv, FilesListed, pc = "tidy", ~outdated, current \notin misfiled,
           job \notin {"removetrack", "removesrc"}, NEW f \in Untidy(counts), f \in FileKey
    PROVE  \/ mode = "minimal" /\ Users(current, f) = {}
           \/ mode = "all" /\ \A p \in packages : SourceOf[p] # current
<1>0. /\ current \in Source /\ old = NoPackage /\ Record(counts) /\ packages \subseteq Package
      /\ mode \in {"keep", "all", "minimal"} /\ TypeOK
    BY TypeParts, SettingType DEF IInv, Placed, MemoryPlaced, TypeMemory
<1>1. ASSUME NEW g \in FileKey PROVE UsesOf(current, g) = 0 => Users(current, g) = {}
    <2>1. Balanced(current, g)
        BY <1>0 DEF CountsInv, CountsKnown, Emptying
    <2>2. Coming(current, g) = 0 /\ Going(current, g) = 0
        BY <1>0 DEF Coming, Going
    <2>3. UsesOf(current, g) \in Nat /\ Cardinality(UsersIn(packages, current, g)) \in Nat
        BY <1>0, CountTypes
    <2>4. UsesOf(current, g) = Cardinality(UsersIn(packages, current, g))
        BY <2>1, <2>2, <2>3 DEF Balanced
    <2>5. UsersIn(packages, current, g) = Users(current, g)
        BY DEF UsersIn, Users
    <2>6. QED
        BY <1>0, <2>4, <2>5, UsersNat, FS_EmptySet
<1>2. ASSUME NEW g \in FileKey PROVE ~(g \in DOMAIN counts /\ counts[g] > 0) => UsesOf(current, g) = 0
    BY <1>0 DEF UsesOf, Held, CountsOf, Record
<1>3. mode # "keep"
    BY DEF Untidy
<1>4. CASE ~InUse(counts)
    <2>1. \A g \in FileKey : Users(current, g) = {}
        BY <1>1, <1>2, <1>4 DEF InUse
    <2>2. ASSUME NEW p \in packages PROVE SourceOf[p] # current
        <3>1. PICK g : g \in Files[p]
            BY <1>0 DEF FilesListed
        <3>2. g \in FileKey
            BY <1>0, <3>1, SourceAssumption
        <3>3. QED
            BY <2>1, <3>1, <3>2 DEF Users
    <2>3. QED
        BY <1>0, <1>3, <2>1, <2>2
<1>5. CASE InUse(counts)
    <2>1. mode = "minimal" /\ ~Needed(counts, f)
        BY <1>3, <1>5 DEF Untidy
    <2>2. Users(current, f) = {}
        BY <1>1, <1>2, <2>1 DEF Needed
    <2>3. QED
        BY <2>1, <2>2
<1>6. QED
    BY <1>4, <1>5

(* A track gives up a file only when no package of its source (in mode     *)
(* minimal: none that has the file) is listed, or when told to, as long as *)
(* the tracking data is not known to be outdated.  Excepted, until a       *)
(* retrack, are the records concerned by a package copied, moved or        *)
(* archived under another version than that of its source.                 *)
THEOREM TracksKeepFiles == FilesListed /\ Spec => FilesKept
<1> DEFINE GivenUp(s, f) ==
        trackrefs'[s][f] < trackrefs[s][f] /\ ~outdated
            => \/ job \in {"removetrack", "removesrc", "rereference"}
               \/ mode = "minimal" /\ Users(s, f) = {}
               \/ mode = "all" /\ \A p \in packages : SourceOf[p] # s
<1>1. ASSUME IInv, CountsInv, FilesListed, [Next]_vars,
             NEW s \in Source \ misfiled, NEW f \in FileKey
      PROVE  GivenUp(s, f)
    <2>0. trackrefs \in [Source -> [FileKey -> Nat]] /\ JobPlaced /\ MemoryPlaced /\ TodoPlaced
        BY <1>1, TypeParts DEF IInv, Placed
    <2>n. trackrefs[s][f] \in Nat
        BY <2>0
    <2>1. ASSUME NEW g \in FileKey, TidyFile(g) PROVE GivenUp(s, f)
        <3>1. pc = "tidy" /\ g \in todo /\ current \in Source
            BY <2>0, <2>1 DEF TidyFile, MemoryPlaced
        <3>2. s # current \/ f # g => trackrefs'[s][f] = trackrefs[s][f]
            BY <2>0, <2>1, <3>1 DEF TidyFile
        <3>3. job \notin {"removetrack", "removesrc"} => g \in Untidy(counts)
            BY <2>0, <3>1 DEF TodoPlaced, ToDrop
        <3>4. CASE s = current /\ f = g
            BY <1>1, <3>1, <3>3, <3>4, DroppedUnused
        <3>5. QED
            BY <2>n, <3>2, <3>4
    <2>2. ASSUME NEW g \in FileKey, InsertFile(g) \/ AddExtra(g) PROVE GivenUp(s, f)
        <3>1. current \in Source
            BY <1>1, <2>0, <2>2, TypeParts DEF InsertFile, AddExtra, MemoryPlaced, IInv, TypeMemory
        <3>2. trackrefs'[s][f] = trackrefs[s][f] \/ trackrefs'[s][f] = trackrefs[s][f] + 1
            <4>1. trackrefs' = trackrefs \/ trackrefs' = [trackrefs EXCEPT ![current][g] = @ + 1]
                BY Zenon, <2>2 DEF InsertFile, AddExtra
            <4>2. QED
                BY <2>0, <3>1, <4>1
        <3>3. QED
            BY <2>n, <3>2
    <2>3. ASSUME NEW r \in Source, ForgetOne(r) \/ RecreateOne(r) PROVE GivenUp(s, f)
        BY <2>0, <2>3 DEF ForgetOne, RecreateOne, JobPlaced
    <2>4. ASSUME UNCHANGED trackrefs PROVE GivenUp(s, f)
        BY <2>n, <2>4
    <2>5. CASE UNCHANGED vars
        BY <2>4, <2>5 DEF vars, disk
    <2>6. CASE Next
        <3>1. /\ \A r, p, q : \/ Summon(r) \/ Switch(r) \/ New \/ AddPackage(p, q)
                              \/ ChangeUntracked(p, q) \/ RemovePackage(p)
                 => UNCHANGED trackrefs
              /\ InsertEnd \/ DropOld \/ Abandon \/ Finish \/ FinishNext \/ TidySave \/ TidyTracks
                 => UNCHANGED trackrefs
              /\ \A r, p : \/ Retrack \/ ResetOne(r) \/ ResetEnd \/ RetrackOne(p) \/ SaveRetracked
                           \/ RetrackEnd \/ RemoveTrack(r) \/ RemoveSrc(r) \/ RemoveSrcOne(p)
                 => UNCHANGED trackrefs
              /\ RemoveSrcEnd \/ Rereference \/ DropTracks \/ ForgetEnd \/ RecreateEnd \/ Crash
                 => UNCHANGED trackrefs
            BY ZenonT(40) DEF Summon, Switch, New, AddPackage, ChangeUntracked, RemovePackage, InsertEnd,
               DropOld, Abandon, Finish, FinishNext, TidySave, TidyTracks, Retrack, ResetOne,
               ResetEnd, RetrackOne, SaveRetracked, RetrackEnd, RemoveTrack, RemoveSrc,
               RemoveSrcOne, RemoveSrcEnd, Rereference, DropTracks, ForgetEnd, RecreateEnd,
               Crash, disk
        <3> HIDE DEF GivenUp
        <3>2. setting.extras \subseteq FileKey
            BY <1>1, SettingType DEF IInv
        <3>3. QED
            BY <2>1, <2>2, <2>3, <2>4, <2>6, <3>1, <3>2 DEF Next, Command
    <2>7. QED
        BY <1>1, <2>5, <2>6
<1>2. FilesListed => []FilesListed
    <2>1. FilesListed => FilesListed'
        BY DEF FilesListed
    <2>2. QED
        BY <2>1, PTL
<1>3. IInv /\ CountsInv /\ FilesListed /\ [Next]_vars
          => [\A s \in Source \ misfiled : \A f \in FileKey : GivenUp(s, f)]_vars
    <2> HIDE DEF GivenUp
    <2> QED
        BY <1>1
<1>4. QED
    BY <1>2, <1>3, TrackingInvariant, CountsInvariant, PTL DEF Spec, FilesKept
=============================================================================
