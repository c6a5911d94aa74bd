---------------------------- MODULE PoolRunProofs ----------------------------
(***************************************************************************)
(* Proofs about PoolRun for any number of distributions, packages and      *)
(* files, and any number of failures, signals and crashes.                 *)
(*                                                                         *)
(* The files a walk over the pool is about to delete lie between three     *)
(* records that are written at different times: the references, the        *)
(* checksums database and the pool itself.  The inductive invariant says   *)
(* what each record may lack of the others at every point of a run.        *)
(***************************************************************************)
EXTENDS PoolRun, FiniteSetTheorems, TLAPS

USE RunAssumption

-----------------------------------------------------------------------------
(* The inductive invariant                                                 *)

(* A walk that deletes files is under way. *)
Deleting ==
    \/ phase \in {"tidy", "cleanup"}
    \/ phase = "action" /\ command = "deleteunreferenced"

(* What it has not settled yet *)
Walked == todo \cup (IF busy = NoFile THEN {} ELSE {busy})

(* A file lies in the pool that is to be registered next. *)
Adding == phase = "action" /\ command = "include" /\ busy # NoFile

Has(flag, f) == flag \in flags[f]

(* Where in the course of a run there is work, and between which writes *)
WorkPlaced ==
    /\ phase = "off" => busy = NoFile /\ flags = NoFlags /\ hook = NoHook /\ ~interrupted
    /\ phase \in {"off", "export"} => todo = {} /\ busy = NoFile
    /\ phase = "action" /\ busy # NoFile => command \in {"include", "deleteunreferenced"}
    /\ phase = "action" /\ command \in {"include", "change", "gensnapshot"} => todo = {}
    /\ phase = "action" /\ command = "gensnapshot" => snapshot = NoSnapshot
    /\ phase = "action" /\ command = "reference" =>
          /\ todo \cup snapshot.references \subseteq snapshot.files
          /\ \A f \in todo : \E t \in Target : f \in FilesIn(packages[t])
    /\ phase = "action" /\ command = "unreferencesnapshot" => todo \subseteq snapshot.references

(* The marks of pool.c are true. *)
FlagsTrue ==
    \A f \in FileKey :
        /\ Has("ADDED", f) => command = "include"
        /\ Has("ADDED", f) /\ ~Has("DELETED", f) => f \in checksums
        /\ Has("DELETED", f) => f \notin checksums /\ ~Has("UNREFERENCED", f)
        /\ Has("DELETED", f) /\ phase = "action" => command = "deleteunreferenced"
        /\ Has("UNREFERENCED", f) =>
              /\ damaged = {} => f \in checksums
              /\ command \in {"include", "change", "unreferencesnapshot"}

(* What a walk deletes has no reference, and is registered as long as no   *)
(* distribution is damaged.                                                *)
DoomedUnused ==
    Deleting => \A f \in Walked :
        /\ ~Used(f)
        /\ f \in checksums \/ (phase = "cleanup" /\ damaged # {})
        /\ phase = "tidy" => Has("ADDED", f)

AddedUnregistered == Adding => busy \in pool \ checksums

RegisteredThere == \A f \in checksums : f \in pool \cup halfdeleted \/ f = busy

(* Every package has its references, *)
Covered ==
    \A t \in Target \ damaged : \A f \in FileKey : Owners(packages[t], f) =< refs[t][f]

(* and what is referenced, also by what is left of a package or a snapshot *)
(* that could not be removed or made, is registered.                       *)
UsedRegistered ==
    /\ \A t \in Target \ damaged : \A f \in FileKey : refs[t][f] > 0 => f \in checksums
    /\ (bare => damaged = {}) => snapshot.references \subseteq checksums

Kept ==
    /\ WorkPlaced /\ FlagsTrue /\ DoomedUnused
    /\ AddedUnregistered /\ RegisteredThere /\ Covered /\ UsedRegistered

(* What an index names that is not known to be stale *)
PublishedKnown ==
    \A t \in Target \ (unexported \cup damaged) :
        /\ t \notin dirty => published[t] = packages[t]
        /\ \A f \in FilesIn(published[t]) :
              /\ f \in checksums
              /\ phase \in {"action", "tidy"} => ~Has("ADDED", f)

(* A target this run changed will be exported before anything it dropped   *)
(* is deleted.                                                             *)
ChangesExported ==
    /\ phase = "off" => dirty = {}
    /\ phase = "action" /\ command \notin {"include", "change"} => dirty = {}
    /\ phase \in {"action", "tidy", "export"} /\ ~error /\ ~interrupted => dirty \subseteq modified
    /\ phase = "cleanup" /\ (busy # NoFile \/ (todo # {} /\ ~interrupted)) =>
          dirty = {}

(* What a snapshot names is referenced, or will be.                        *)
SnapshotReferenced ==
    /\ ~bare => snapshot.files \subseteq snapshot.references
    /\ phase = "action" /\ command = "reference" /\ todo # {} =>
          snapshot.files \subseteq snapshot.references \cup todo
    /\ phase = "action" /\ command = "unreferencesnapshot" => snapshot.files = {}

ExportInv == PublishedKnown /\ ChangesExported /\ SnapshotReferenced

(* A file without reference that had one, or was not registered, when the  *)
(* run started is on the way out.                                          *)
OnTheWayOut(f) ==
    /\ phase = "action" => Has("ADDED", f) \/ Has("UNREFERENCED", f)
    /\ phase = "tidy" => f \in Walked \/ Has("UNREFERENCED", f)
    /\ phase = "export" => Has("UNREFERENCED", f)
    /\ phase = "cleanup" => f \in Walked \/ command = "unreferencesnapshot"

GarbageMarked ==
    ~error /\ ~interrupted /\ ~lossy /\ ~KeepUnreferenced /\ ~KeepUnusedNew
    => \A f \in checksums \ garbage : Used(f) \/ phase = "off" \/ OnTheWayOut(f)

(* As long as nothing went wrong, the pool and its database agree but for  *)
(* the file in between.                                                    *)
PoolKnown ==
    ~lossy =>
        /\ halfdeleted = {}
        /\ busy = NoFile => pool = checksums
        /\ Adding => pool = checksums \cup {busy}
        /\ Deleting /\ busy # NoFile => pool = checksums \ {busy}

(* A file this run added that is deleted again is not deleted after the    *)
(* outhook was to learn of it.                                             *)
AddedInTime ==
    ~lossy /\ ~interrupted /\ ~KeepUnusedNew =>
        \A f \in FileKey : Has("ADDED", f) =>
            /\ phase = "tidy" /\ f \in checksums => Used(f) \/ f \in Walked
            /\ phase = "export" /\ f \in checksums => Used(f)
            /\ phase = "cleanup" => f \notin Walked

Added == {f \in FileKey : Has("ADDED", f)}

(* What the mirror was told, and will be, makes up for what it lacks.      *)
MirrorTold ==
    ~lossy /\ ~interrupted /\ ~KeepUnusedNew =>
        /\ phase \in {"off", "action", "tidy"} =>
              /\ hook.new = {}
              /\ command # "deleteunreferenced" => hook.del = {}
              /\ mirror \ hook.del = pool \ (Added \cup (IF Adding THEN {busy} ELSE {}))
        /\ phase \in {"export", "cleanup"} =>
              /\ hook.new \subseteq Added
              /\ (mirror \cup hook.new) \ hook.del = pool

IInv ==
    /\ TypeOK /\ Kept /\ ExportInv
    /\ GarbageMarked /\ PoolKnown /\ AddedInTime /\ MirrorTold

-----------------------------------------------------------------------------
(* Types                                                                   *)

LEMMA FilesInType == ASSUME NEW S \in SUBSET Package PROVE FilesIn(S) \in SUBSET FileKey
BY DEF FilesIn

LEMMA DereferencedType ==
    ASSUME TypeOK, NEW S PROVE Dereferenced(S) \in [FileKey -> SUBSET Flag]
BY DEF TypeOK, Dereferenced, Flag

LEMMA FaultType == ASSUME TypeOK, Fault PROVE faults' \in 0..MaxFaults
BY DEF TypeOK, Fault

-----------------------------------------------------------------------------
(* Counting references                                                     *)

LEMMA InFiles ==
    ASSUME NEW S, NEW f PROVE f \in FilesIn(S) <=> \E p \in S : f \in Files[p]
BY DEF FilesIn

(* Only targets and snapshots hold references. *)
LEMMA UsedSame ==
    ASSUME UNCHANGED refs, snapshot.references' = snapshot.references
    PROVE  \A f : Used(f)' <=> Used(f)
BY DEF Used

LEMMA OwnersFinite ==
    ASSUME NEW S \in SUBSET Package, NEW f
    PROVE  IsFiniteSet({q \in S : f \in Files[q]}) /\ Owners(S, f) \in Nat
<1>1. IsFiniteSet(Package)
    BY DEF RunAssumption
<1>2. {q \in S : f \in Files[q]} \in SUBSET Package
    OBVIOUS
<1>3. IsFiniteSet({q \in S : f \in Files[q]})
    BY <1>1, <1>2, FS_Subset
<1>4. QED
    BY <1>3, FS_CardinalityType DEF Owners

(* A file has an owner iff a package names it. *)
LEMMA OwnersThere ==
    ASSUME NEW S \in SUBSET Package, NEW f
    PROVE  Owners(S, f) > 0 <=> f \in FilesIn(S)
<1> DEFINE O == {q \in S : f \in Files[q]}
<1>1. IsFiniteSet(O) /\ Owners(S, f) \in Nat /\ Owners(S, f) = Cardinality(O)
    BY OwnersFinite DEF Owners
<1>2. Owners(S, f) = 0 <=> O = {}
    BY <1>1, FS_EmptySet
<1>3. O # {} <=> f \in FilesIn(S)
    BY InFiles
<1>4. QED
    BY <1>1, <1>2, <1>3

LEMMA OwnersMinus ==
    ASSUME NEW S \in SUBSET Package, NEW T \in SUBSET S, NEW f
    PROVE  Owners(S \ T, f) = Owners(S, f) - Owners(T, f)
<1> DEFINE O == {q \in S : f \in Files[q]}
           L == {q \in T : f \in Files[q]}
<1>1. IsFiniteSet(O)
    BY OwnersFinite
<1>2. {q \in S \ T : f \in Files[q]} = O \ L /\ O \cap L = L
    OBVIOUS
<1> HIDE DEF O, L
<1>3. Cardinality(O \ L) = Cardinality(O) - Cardinality(O \cap L)
    BY <1>1, FS_Difference
<1>4. QED
    BY <1>2, <1>3 DEF Owners, O, L

LEMMA OwnersPlus ==
    ASSUME NEW S \in SUBSET Package, NEW p \in Package, p \notin S, NEW f
    PROVE  Owners(S \cup {p}, f) = Owners(S, f) + One(f, Files[p])
<1> DEFINE O == {q \in S : f \in Files[q]}
<1>1. IsFiniteSet(O)
    BY OwnersFinite
<1>2. p \notin O
    OBVIOUS
<1>3. CASE f \in Files[p]
    <2>1. {q \in S \cup {p} : f \in Files[q]} = O \cup {p}
        BY <1>3
    <2> HIDE DEF O
    <2>2. Cardinality(O \cup {p}) = Cardinality(O) + 1
        BY <1>1, <1>2, FS_AddElement
    <2>3. QED
        BY <1>3, <2>1, <2>2 DEF Owners, One, O
<1>4. CASE f \notin Files[p]
    <2>1. {q \in S \cup {p} : f \in Files[q]} = O
        BY <1>4
    <2>2. Owners(S, f) \in Nat /\ One(f, Files[p]) = 0
        BY <1>4, OwnersFinite DEF One
    <2>3. Owners(S \cup {p}, f) = Owners(S, f)
        BY <2>1 DEF Owners
    <2>4. QED
        BY <2>2, <2>3
<1>5. QED
    BY <1>3, <1>4

LEMMA OwnersOne ==
    ASSUME NEW p \in Package, NEW f PROVE Owners({p}, f) = One(f, Files[p])
<1>1. {q \in {} : f \in Files[q]} = {} /\ {} \cup {p} = {p}
    OBVIOUS
<1>2. Owners({}, f) = 0
    BY <1>1, FS_EmptySet DEF Owners
<1>3. Owners({} \cup {p}, f) = Owners({}, f) + One(f, Files[p])
    BY OwnersPlus
<1>4. QED
    BY <1>1, <1>2, <1>3 DEF One

(* What references_insert and references_delete leave of a target's        *)
(* references                                                              *)
LEMMA ReferencedIs ==
    ASSUME TypeOK, NEW t \in Target, NEW trimmed \in SUBSET packages[t],
           NEW new \in SUBSET FileKey, NEW lost \in SUBSET FileKey,
           refs' = Referenced(t, new, lost, trimmed)
    PROVE  /\ refs' \in [Target -> [FileKey -> Nat]]
           /\ \A u \in Target \ {t} : refs'[u] = refs[u]
           /\ \A f \in FileKey :
                 /\ refs'[t][f] = Less(refs[t][f] + One(f, new),
                                       One(f, lost) + Owners(trimmed, f))
                 /\ refs'[t][f] > 0 => refs[t][f] > 0 \/ f \in new
                 /\ refs[t][f] > 0 /\ ~(refs'[t][f] > 0) => f \in lost \cup FilesIn(trimmed)
<1>1. trimmed \in SUBSET Package
    BY DEF TypeOK
<1>2. \A f \in FileKey : refs[t][f] \in Nat
    BY DEF TypeOK
<1>3. \A f \in FileKey : Owners(trimmed, f) \in Nat /\ (Owners(trimmed, f) > 0 <=> f \in FilesIn(trimmed))
    BY <1>1, OwnersFinite, OwnersThere
<1> DEFINE r == [f \in FileKey |-> Less(refs[t][f] + One(f, new), One(f, lost) + Owners(trimmed, f))]
<1>4. refs' = [refs EXCEPT ![t] = r]
    BY DEF Referenced
<1>5. \A f \in FileKey : r[f] = Less(refs[t][f] + One(f, new), One(f, lost) + Owners(trimmed, f))
    OBVIOUS
<1>6. \A f \in FileKey : r[f] \in Nat
    BY <1>2, <1>3, <1>5 DEF Less, One
<1>7. r \in [FileKey -> Nat]
    BY <1>6
<1>8. ASSUME NEW f \in FileKey
      PROVE  /\ r[f] > 0 => refs[t][f] > 0 \/ f \in new
             /\ refs[t][f] > 0 /\ ~(r[f] > 0) => f \in lost \cup FilesIn(trimmed)
    <2>1. r[f] = Less(refs[t][f] + One(f, new), One(f, lost) + Owners(trimmed, f))
        OBVIOUS
    <2>2. refs[t][f] \in Nat /\ Owners(trimmed, f) \in Nat
        BY <1>2, <1>3
    <2>3. One(f, new) = (IF f \in new THEN 1 ELSE 0) /\ One(f, lost) = (IF f \in lost THEN 1 ELSE 0)
        BY DEF One
    <2> HIDE DEF r
    <2>4. QED
        BY <1>3, <2>1, <2>2, <2>3 DEF Less
<1> HIDE DEF r
<1>9. refs'[t] = r /\ \A u \in Target \ {t} : refs'[u] = refs[u]
    BY <1>4 DEF TypeOK
<1>10. refs' \in [Target -> [FileKey -> Nat]]
    BY <1>4, <1>7 DEF TypeOK
<1>11. QED
    BY <1>5, <1>8, <1>9, <1>10

-----------------------------------------------------------------------------
(* Adding and removing a package, with or without failure, drop references *)
(* and mark files alike.                                                   *)

Records(t, p) == AddPackage(t, p) \/ AddPackageFails(t, p) \/ RemovePackage(t, p)

LEMMA RecordsForm ==
    ASSUME TypeOK, NEW t \in Target, NEW p \in Package, Records(t, p)
    PROVE  \E new \in SUBSET FileKey : \E lost \in SUBSET FileKey :
           \E trimmed \in SUBSET packages[t] :
              /\ new \subseteq Files[p]
              /\ refs' = Referenced(t, new, lost, trimmed)
              /\ flags' = Dereferenced(Held(t, lost \cup FilesIn(trimmed)))
<1>p. Files[p] \in SUBSET FileKey
    BY DEF RunAssumption
<1>f. \A S \in SUBSET packages[t] : FilesIn(S) \in SUBSET FileKey
    BY FilesInType DEF TypeOK
<1>e. {} \in SUBSET FileKey /\ {} \in SUBSET packages[t] /\ FilesIn({}) = {}
    BY DEF FilesIn
<1>1. CASE AddPackage(t, p)
    <2>1. PICK old \in SUBSET packages[t] : \E trimmed \in SUBSET packages[t] :
              /\ refs' = Referenced(t, Files[p] \ FilesIn(old), FilesIn(old) \ Files[p], trimmed)
              /\ flags' = Dereferenced(Held(t, (FilesIn(old) \ Files[p]) \cup FilesIn(trimmed)))
        BY <1>1 DEF AddPackage
    <2>2. Files[p] \ FilesIn(old) \in SUBSET FileKey /\ FilesIn(old) \ Files[p] \in SUBSET FileKey
        BY <1>p, <1>f
    <2>3. QED
        BY <2>1, <2>2
<1>2. CASE AddPackageFails(t, p)
    <2> DEFINE new(old) == Files[p] \ FilesIn(old)
               lost(old) == FilesIn(old) \ Files[p]
               Form(n, l, trimmed) ==
                  /\ refs' = Referenced(t, n, l, trimmed)
                  /\ flags' = Dereferenced(Held(t, l \cup FilesIn(trimmed)))
    <2>1. PICK old \in SUBSET packages[t] : \E trimmed \in SUBSET packages[t] :
              \/ /\ \E some \in SUBSET new(old) : refs' = Referenced(t, some, {}, trimmed)
                 /\ flags' = Dereferenced(Held(t, FilesIn(trimmed)))
              \/ /\ refs' = Referenced(t, new(old), lost(old), trimmed)
                 /\ flags' = Dereferenced(Held(t, lost(old) \cup FilesIn(trimmed)))
              \/ /\ refs' = Referenced(t, new(old), {}, trimmed)
                 /\ flags' = Dereferenced(Held(t, FilesIn(trimmed)))
              \/ \E some \in SUBSET lost(old) :
                    /\ refs' = Referenced(t, new(old), some, trimmed)
                    /\ flags' = Dereferenced(Held(t, some \cup FilesIn(trimmed)))
        BY <1>2 DEF AddPackageFails
    <2>2. new(old) \in SUBSET FileKey /\ lost(old) \in SUBSET FileKey /\ new(old) \subseteq Files[p]
        BY <1>p, <1>f
    <2>3. \A S : {} \cup S = S
        OBVIOUS
    <2> HIDE DEF new, lost
    <2>4. PICK trimmed \in SUBSET packages[t] :
              \/ \E some \in SUBSET new(old) : Form(some, {}, trimmed)
              \/ Form(new(old), lost(old), trimmed)
              \/ Form(new(old), {}, trimmed)
              \/ \E some \in SUBSET lost(old) : Form(new(old), some, trimmed)
        BY <2>1, <2>3
    <2>5. \E n \in SUBSET FileKey : \E l \in SUBSET FileKey :
              n \subseteq Files[p] /\ Form(n, l, trimmed)
        <3> HIDE DEF Form
        <3>1. QED
            BY <2>2, <2>4, <1>e
    <2>6. QED
        BY <2>5
<1>3. CASE RemovePackage(t, p)
    <2>1. PICK kept \in SUBSET Files[p] :
              /\ refs' = Referenced(t, {}, Files[p] \ kept, {})
              /\ flags' = Dereferenced(Held(t, Files[p] \ kept))
        BY <1>3 DEF RemovePackage
    <2>2. Files[p] \ kept \in SUBSET FileKey /\ (Files[p] \ kept) \cup FilesIn({}) = Files[p] \ kept
        BY <1>p, <1>e
    <2>3. QED
        BY <2>1, <2>2, <1>e
<1>4. QED
    BY <1>1, <1>2, <1>3 DEF Records

(* What any of them may do to references and marks, to the record of which *)
(* targets changed, and to nothing else                                    *)
LEMMA RecordsReferences ==
    ASSUME TypeOK, NEW t \in Target, NEW p \in Package, Records(t, p)
    PROVE  /\ refs' \in [Target -> [FileKey -> Nat]]
           /\ flags' \in [FileKey -> SUBSET Flag]
           /\ \A u \in Target \ {t} : refs'[u] = refs[u]
           /\ \A f \in FileKey :
                 /\ refs'[t][f] > 0 => refs[t][f] > 0 \/ f \in Files[p]
                 /\ refs[t][f] > 0 /\ ~(refs'[t][f] > 0) => Has("UNREFERENCED", f)'
                 /\ Has("UNREFERENCED", f) => Has("UNREFERENCED", f)'
                 /\ Has("UNREFERENCED", f)' => Has("UNREFERENCED", f) \/ refs[t][f] > 0
                 /\ Has("ADDED", f)' <=> Has("ADDED", f)
                 /\ Has("DELETED", f)' <=> Has("DELETED", f)
<1>1. PICK new \in SUBSET FileKey, lost \in SUBSET FileKey : \E trimmed \in SUBSET packages[t] :
              /\ new \subseteq Files[p]
              /\ refs' = Referenced(t, new, lost, trimmed)
              /\ flags' = Dereferenced(Held(t, lost \cup FilesIn(trimmed)))
    BY RecordsForm
<1>2. PICK trimmed \in SUBSET packages[t] :
              /\ refs' = Referenced(t, new, lost, trimmed)
              /\ flags' = Dereferenced(Held(t, lost \cup FilesIn(trimmed)))
    BY <1>1
<1>3. new \subseteq Files[p]
    BY <1>1
<1>4. /\ refs' \in [Target -> [FileKey -> Nat]]
      /\ \A u \in Target \ {t} : refs'[u] = refs[u]
      /\ \A f \in FileKey :
           /\ refs'[t][f] > 0 => refs[t][f] > 0 \/ f \in new
           /\ refs[t][f] > 0 /\ ~(refs'[t][f] > 0) => f \in lost \cup FilesIn(trimmed)
    BY <1>2, ReferencedIs
<1>5. flags' \in [FileKey -> SUBSET Flag]
    BY <1>2, DereferencedType
<1>6. ASSUME NEW f \in FileKey
      PROVE  /\ f \in lost \cup FilesIn(trimmed) /\ refs[t][f] > 0 => Has("UNREFERENCED", f)'
             /\ Has("UNREFERENCED", f) => Has("UNREFERENCED", f)'
             /\ Has("UNREFERENCED", f)' => Has("UNREFERENCED", f) \/ refs[t][f] > 0
             /\ Has("ADDED", f)' <=> Has("ADDED", f)
             /\ Has("DELETED", f)' <=> Has("DELETED", f)
    <2>1. flags'[f] = IF f \in Held(t, lost \cup FilesIn(trimmed))
                      THEN flags[f] \cup {"UNREFERENCED"} ELSE flags[f]
        BY <1>2 DEF Dereferenced
    <2>2. QED
        BY <2>1 DEF Held, Has
<1>7. QED
    BY <1>3, <1>4, <1>5, <1>6

LEMMA RecordsFrame ==
    ASSUME TypeOK, NEW t \in Target, NEW p \in Package, Records(t, p)
    PROVE  /\ packages' \in [Target -> SUBSET Package]
           /\ \A u \in Target \ {t} : packages'[u] = packages[u]
           /\ t \notin dirty' => packages'[t] = packages[t]
           /\ dirty' \in {dirty, dirty \cup {t}} /\ modified' \in {modified, modified \cup {t}}
           /\ ~error' => ~error /\ modified' = modified \cup {t}
           /\ error' \in BOOLEAN /\ faults' \in 0..MaxFaults
           /\ damaged' \in {damaged, damaged \cup {t}}
           /\ t \notin damaged' => Files[p] \subseteq checksums \/ p \in packages[t]
           /\ phase = "action" /\ busy = NoFile /\ command \in {"include", "change"}
           /\ UNCHANGED <<checksums, pool, published, snapshot, mirror, phase, command,
                          interrupted, todo, busy, hook>>
           /\ UNCHANGED <<unexported, halfdeleted, garbage, bare, lossy>>
<1>1. CASE AddPackage(t, p)
    <2>1. PICK old \in SUBSET packages[t] : \E trimmed \in SUBSET packages[t] :
              packages' = [packages EXCEPT ![t] = (@ \ (old \cup trimmed)) \cup {p}]
        BY <1>1 DEF AddPackage
    <2>2. /\ packages' \in [Target -> SUBSET Package]
          /\ \A u \in Target \ {t} : packages'[u] = packages[u]
        BY <2>1 DEF TypeOK
    <2>3. t \notin damaged' => Files[p] \subseteq checksums
        BY <1>1 DEF AddPackage, Damaged
    <2>4. damaged' \in {damaged, damaged \cup {t}}
        BY <1>1 DEF AddPackage, Damaged
    <2>5. QED
        BY <1>1, <2>2, <2>3, <2>4 DEF AddPackage, InAction, TypeOK
<1>2. CASE AddPackageFails(t, p)
    <2>1. \E S \in SUBSET Package : packages' = [packages EXCEPT ![t] = S]
        <3>1. PICK old \in SUBSET packages[t] : \E trimmed \in SUBSET packages[t] :
                 \/ packages' = [packages EXCEPT ![t] = @ \ trimmed]
                 \/ packages' = [packages EXCEPT ![t] = (@ \ trimmed) \cup {p}]
                 \/ packages' = [packages EXCEPT ![t] = @ \ (old \cup trimmed)]
                 \/ packages' = [packages EXCEPT ![t] = (@ \ (old \cup trimmed)) \cup {p}]
            BY <1>2 DEF AddPackageFails
        <3>2. PICK trimmed \in SUBSET packages[t] :
                 \/ packages' = [packages EXCEPT ![t] = packages[t] \ trimmed]
                 \/ packages' = [packages EXCEPT ![t] = (packages[t] \ trimmed) \cup {p}]
                 \/ packages' = [packages EXCEPT ![t] = packages[t] \ (old \cup trimmed)]
                 \/ packages' = [packages EXCEPT ![t] = (packages[t] \ (old \cup trimmed)) \cup {p}]
            BY <3>1
        <3>3. packages[t] \in SUBSET Package
            BY DEF TypeOK
        <3>4. /\ packages[t] \ trimmed \in SUBSET Package
              /\ (packages[t] \ trimmed) \cup {p} \in SUBSET Package
              /\ packages[t] \ (old \cup trimmed) \in SUBSET Package
              /\ (packages[t] \ (old \cup trimmed)) \cup {p} \in SUBSET Package
            BY <3>3
        <3>5. QED
            BY <3>2, <3>4
    <2>2. /\ packages' \in [Target -> SUBSET Package]
          /\ \A u \in Target \ {t} : packages'[u] = packages[u]
        BY <2>1 DEF TypeOK
    <2>3. /\ damaged' \in {damaged, damaged \cup {t}}
          /\ t \notin damaged' => Files[p] \subseteq checksums
        <3>1. damaged' \in {Damaged(t, p), damaged \cup {t}}
            BY <1>2 DEF AddPackageFails
        <3>2. QED
            BY <3>1 DEF Damaged
    <2>4. modified' \in {modified, modified \cup {t}}
        BY <1>2 DEF AddPackageFails
    <2>5. dirty' \in {dirty, dirty \cup {t}} /\ (t \notin dirty' => packages'[t] = packages[t])
        BY <1>2 DEF AddPackageFails
    <2>6. /\ error' = TRUE /\ phase = "action" /\ busy = NoFile /\ command \in {"include", "change"}
          /\ UNCHANGED <<checksums, pool, published, snapshot, mirror, phase, command,
                         interrupted, todo, busy, hook>>
          /\ UNCHANGED <<unexported, halfdeleted, garbage, bare, lossy>>
        BY <1>2 DEF AddPackageFails, InAction
    <2>7. faults' \in 0..MaxFaults
        BY <1>2, FaultType DEF AddPackageFails
    <2>8. QED
        BY <2>2, <2>3, <2>4, <2>5, <2>6, <2>7
<1>3. CASE RemovePackage(t, p)
    <2>1. /\ packages' \in [Target -> SUBSET Package]
          /\ \A u \in Target \ {t} : packages'[u] = packages[u]
        BY <1>3 DEF RemovePackage, TypeOK
    <2>2. \/ UNCHANGED <<error, faults>>
          \/ Fault /\ error' = TRUE
        BY <1>3 DEF RemovePackage
    <2>3. /\ error' \in BOOLEAN /\ faults' \in 0..MaxFaults
          /\ ~error' => ~error
        BY <2>2, FaultType DEF TypeOK
    <2>4. QED
        BY <1>3, <2>1, <2>3 DEF RemovePackage, InAction
<1>4. QED
    BY <1>1, <1>2, <1>3 DEF Records

(* Every package a target that is not damaged lists keeps its references,  *)
(* one for each package that names the file.                               *)
LEMMA RecordsCovered ==
    ASSUME TypeOK, NEW t \in Target, NEW p \in Package, Records(t, p),
           t \notin damaged', NEW f \in FileKey, Owners(packages[t], f) =< refs[t][f]
    PROVE  Owners(packages'[t], f) =< refs'[t][f]
<1>t. packages[t] \in SUBSET Package /\ refs[t][f] \in Nat /\ Owners(packages[t], f) \in Nat
    <2>1. packages[t] \in SUBSET Package /\ refs[t][f] \in Nat
        BY DEF TypeOK
    <2>2. QED
        BY <2>1, OwnersFinite
<1>p. Files[p] \in SUBSET FileKey
    BY DEF RunAssumption
<1>f. \A S \in SUBSET packages[t] : FilesIn(S) \in SUBSET FileKey
    BY FilesInType DEF TypeOK
<1>o. \A S \in SUBSET packages[t] :
         /\ Owners(S, f) \in Nat
         /\ Owners(packages[t] \ S, f) = Owners(packages[t], f) - Owners(S, f)
    BY <1>t, OwnersFinite, OwnersMinus
<1>1. CASE RemovePackage(t, p)
    <2>1. PICK kept \in SUBSET Files[p] : refs' = Referenced(t, {}, Files[p] \ kept, {})
        BY <1>1 DEF RemovePackage
    <2>2. p \in packages[t] /\ packages'[t] = packages[t] \ {p}
        BY <1>1 DEF RemovePackage, TypeOK
    <2>3. refs'[t][f] = Less(refs[t][f] + One(f, {}), One(f, Files[p] \ kept) + Owners({}, f))
        <3>1. {} \in SUBSET FileKey /\ Files[p] \ kept \in SUBSET FileKey /\ {} \in SUBSET packages[t]
            BY <1>p
        <3>2. \A g \in FileKey : refs'[t][g]
                 = Less(refs[t][g] + One(g, {}), One(g, Files[p] \ kept) + Owners({}, g))
            BY <2>1, <3>1 DEF Referenced, TypeOK
        <3>3. QED
            BY <3>2
    <2>4. Owners(packages'[t], f) = Owners(packages[t], f) - One(f, Files[p])
        <3>1. {p} \in SUBSET packages[t]
            BY <2>2
        <3>2. QED
            BY <1>o, <2>2, <3>1, OwnersOne
    <2>5. Owners({}, f) = 0
        <3>1. {q \in {} : f \in Files[q]} = {}
            OBVIOUS
        <3>2. QED
            BY <3>1, FS_EmptySet DEF Owners
    <2>6. /\ One(f, {}) = 0 /\ One(f, Files[p]) \in {0, 1} /\ One(f, Files[p] \ kept) \in {0, 1}
          /\ One(f, Files[p] \ kept) =< One(f, Files[p])
        BY DEF One
    <2>7. QED
        BY <1>t, <2>3, <2>4, <2>5, <2>6 DEF Less
(* old is none or one version, and trimmed are others. *)
<1>2. ASSUME NEW old \in SUBSET packages[t], NEW trimmed \in SUBSET packages[t],
             OldVersions(t, p, old, trimmed),
             NEW new \in SUBSET FileKey, NEW lost \in SUBSET FileKey,
             refs' = Referenced(t, new, lost, trimmed)
      PROVE  /\ refs'[t][f] = Less(refs[t][f] + One(f, new), One(f, lost) + Owners(trimmed, f))
             /\ Owners(packages[t] \ trimmed, f) = Owners(packages[t], f) - Owners(trimmed, f)
             /\ Owners(packages[t] \ (old \cup trimmed), f)
                   = Owners(packages[t], f) - (One(f, FilesIn(old)) + Owners(trimmed, f))
    <2>1. refs'[t][f] = Less(refs[t][f] + One(f, new), One(f, lost) + Owners(trimmed, f))
        <3>1. \A g \in FileKey :
                 refs'[t][g] = Less(refs[t][g] + One(g, new), One(g, lost) + Owners(trimmed, g))
            BY <1>2 DEF Referenced, TypeOK
        <3>2. QED
            BY <3>1
    <2>2. Owners(packages[t] \ trimmed, f) = Owners(packages[t], f) - Owners(trimmed, f)
        BY <1>o
    <2>3. Owners(packages[t] \ (old \cup trimmed), f)
             = Owners(packages[t] \ trimmed, f) - One(f, FilesIn(old))
        <3>1. CASE old = {}
            <4>1. old \cup trimmed = trimmed /\ FilesIn(old) = {}
                BY <3>1 DEF FilesIn
            <4>2. QED
                BY <1>o, <4>1 DEF One
        <3>2. CASE old # {}
            <4>1. IsFiniteSet(old) /\ Cardinality(old) \in Nat /\ Cardinality(old) <= 1
                <5>1. IsFiniteSet(Package) /\ old \in SUBSET Package
                    BY <1>t DEF RunAssumption
                <5>2. QED
                    BY <1>2, <5>1, FS_Subset, FS_CardinalityType DEF OldVersions
            <4>2. PICK o \in old : TRUE
                BY <3>2
            <4>3. old = {o}
                <5>1. Cardinality(old \ {o}) = Cardinality(old) - 1 /\ IsFiniteSet(old \ {o})
                    BY <4>1, <4>2, FS_RemoveElement
                <5>2. Cardinality(old \ {o}) \in Nat
                    BY <5>1, FS_CardinalityType
                <5>3. Cardinality(old \ {o}) = 0
                    BY <4>1, <5>1, <5>2
                <5>4. old \ {o} = {}
                    BY <5>1, <5>3, FS_EmptySet
                <5>5. QED
                    BY <4>2, <5>4
            <4>4. FilesIn(old) = Files[o] /\ o \in packages[t] \ trimmed
                BY <1>2, <4>3 DEF FilesIn, OldVersions
            <4>5. packages[t] \ (old \cup trimmed) = (packages[t] \ trimmed) \ {o}
                BY <4>3
            <4>6. Owners((packages[t] \ trimmed) \ {o}, f)
                     = Owners(packages[t] \ trimmed, f) - Owners({o}, f)
                <5>1. packages[t] \ trimmed \in SUBSET Package /\ {o} \in SUBSET (packages[t] \ trimmed)
                    BY <1>t, <4>4
                <5>2. QED
                    BY <5>1, OwnersMinus
            <4>7. Owners({o}, f) = One(f, Files[o])
                BY <1>t, <4>4, OwnersOne
            <4>8. QED
                BY <4>4, <4>5, <4>6, <4>7
        <3>3. QED
            BY <3>1, <3>2
    <2>4. One(f, FilesIn(old)) \in Nat /\ Owners(trimmed, f) \in Nat
        BY <1>o DEF One
    <2>5. QED
        BY <1>t, <2>1, <2>2, <2>3, <2>4
(* A new record goes in, for another or beside the others. *)
<1>3. ASSUME NEW S \in SUBSET packages[t], p \notin S
      PROVE  Owners(S \cup {p}, f) = Owners(S, f) + One(f, Files[p])
    BY <1>t, <1>3, OwnersPlus
<1>4. ASSUME NEW old \in SUBSET packages[t], NEW trimmed \in SUBSET packages[t],
             OldVersions(t, p, old, trimmed), p \notin packages[t],
             NEW new \in SUBSET FileKey, NEW lost \in SUBSET FileKey,
             refs' = Referenced(t, new, lost, trimmed),
             \/ packages'[t] = packages[t] \ trimmed /\ lost = {}
             \/ packages'[t] = packages[t] \ (old \cup trimmed) /\ lost = {}
             \/ /\ packages'[t] = (packages[t] \ (old \cup trimmed)) \cup {p}
                /\ new = Files[p] \ FilesIn(old) /\ lost \subseteq FilesIn(old) \ Files[p]
      PROVE  Owners(packages'[t], f) =< refs'[t][f]
    <2>1. /\ refs'[t][f] = Less(refs[t][f] + One(f, new), One(f, lost) + Owners(trimmed, f))
          /\ Owners(packages[t] \ trimmed, f) = Owners(packages[t], f) - Owners(trimmed, f)
          /\ Owners(packages[t] \ (old \cup trimmed), f)
                = Owners(packages[t], f) - (One(f, FilesIn(old)) + Owners(trimmed, f))
        BY <1>2, <1>4
    <2>2. /\ Owners(trimmed, f) \in Nat
          /\ One(f, FilesIn(old)) \in {0, 1} /\ One(f, Files[p]) \in {0, 1}
          /\ One(f, new) \in {0, 1} /\ One(f, lost) \in {0, 1}
        BY <1>o DEF One
    <2>3. CASE packages'[t] = packages[t] \ trimmed /\ lost = {}
        <3>1. One(f, lost) = 0
            BY <2>3 DEF One
        <3>2. QED
            BY <1>t, <2>1, <2>2, <2>3, <3>1 DEF Less
    <2>4. CASE packages'[t] = packages[t] \ (old \cup trimmed) /\ lost = {}
        <3>1. One(f, lost) = 0
            BY <2>4 DEF One
        <3>2. QED
            BY <1>t, <2>1, <2>2, <2>4, <3>1 DEF Less
    <2>5. CASE /\ packages'[t] = (packages[t] \ (old \cup trimmed)) \cup {p}
               /\ new = Files[p] \ FilesIn(old) /\ lost \subseteq FilesIn(old) \ Files[p]
        <3>1. Owners(packages'[t], f)
                 = Owners(packages[t] \ (old \cup trimmed), f) + One(f, Files[p])
            BY <1>3, <1>4, <2>5
        <3>2. One(f, Files[p]) + One(f, lost) =< One(f, FilesIn(old)) + One(f, new)
            BY <2>5 DEF One
        <3>3. QED
            BY <1>t, <2>1, <2>2, <3>1, <3>2 DEF Less
    <2>6. QED
        BY <1>4, <2>3, <2>4, <2>5
<1>5. CASE AddPackage(t, p)
    <2>1. PICK old \in SUBSET packages[t] : \E trimmed \in SUBSET packages[t] :
              /\ OldVersions(t, p, old, trimmed)
              /\ packages' = [packages EXCEPT ![t] = (@ \ (old \cup trimmed)) \cup {p}]
              /\ refs' = Referenced(t, Files[p] \ FilesIn(old), FilesIn(old) \ Files[p], trimmed)
        BY <1>5 DEF AddPackage
    <2>2. PICK trimmed \in SUBSET packages[t] :
              /\ OldVersions(t, p, old, trimmed)
              /\ packages' = [packages EXCEPT ![t] = (@ \ (old \cup trimmed)) \cup {p}]
              /\ refs' = Referenced(t, Files[p] \ FilesIn(old), FilesIn(old) \ Files[p], trimmed)
        BY <2>1
    <2>3. packages'[t] = (packages[t] \ (old \cup trimmed)) \cup {p}
        BY <2>2 DEF TypeOK
    <2>4. Files[p] \ FilesIn(old) \in SUBSET FileKey /\ FilesIn(old) \ Files[p] \in SUBSET FileKey
        BY <1>p, <1>f
    <2>5. CASE p \in packages[t]
        (* It goes in for itself. *)
        <3>1. old = {p} /\ trimmed = {}
            BY <2>2, <2>5 DEF OldVersions
        <3>2. packages'[t] = packages[t] /\ FilesIn(old) = Files[p] /\ Files[p] \ FilesIn(old) = {}
            BY <2>3, <2>5, <3>1 DEF FilesIn
        <3>3. refs'[t][f] = Less(refs[t][f] + One(f, {}), One(f, {}) + Owners({}, f))
            <4>1. {} \in SUBSET FileKey /\ {} \in SUBSET packages[t]
                  /\ refs' = Referenced(t, {}, {}, {})
                BY <2>2, <3>1, <3>2
            <4>2. \A g \in FileKey :
                     refs'[t][g] = Less(refs[t][g] + One(g, {}), One(g, {}) + Owners({}, g))
                BY <4>1 DEF Referenced, TypeOK
            <4>3. QED
                BY <4>2
        <3>4. Owners({}, f) = 0 /\ One(f, {}) = 0
            <4>1. {q \in {} : f \in Files[q]} = {}
                OBVIOUS
            <4>2. QED
                BY <4>1, FS_EmptySet DEF Owners, One
        <3>5. QED
            BY <1>t, <3>2, <3>3, <3>4 DEF Less
    <2>6. CASE p \notin packages[t]
        BY <1>4, <2>2, <2>3, <2>4, <2>6
    <2>7. QED
        BY <2>5, <2>6
<1>6. CASE AddPackageFails(t, p)
    <2> DEFINE N(old) == Files[p] \ FilesIn(old)
               L(old) == FilesIn(old) \ Files[p]
               Out(trimmed) == packages' = [packages EXCEPT ![t] = packages[t] \ trimmed]
               Gone(old, trimmed) ==
                  packages' = [packages EXCEPT ![t] = packages[t] \ (old \cup trimmed)]
               In(old, trimmed) ==
                  packages' = [packages EXCEPT ![t] = (packages[t] \ (old \cup trimmed)) \cup {p}]
    <2>1. PICK old \in SUBSET packages[t] : \E trimmed \in SUBSET packages[t] :
              /\ OldVersions(t, p, old, trimmed)
              /\ \/ /\ Out(trimmed)
                    /\ \E some \in SUBSET N(old) : refs' = Referenced(t, some, {}, trimmed)
                 \/ /\ Gone(old, trimmed)
                    /\ refs' = Referenced(t, N(old), {}, trimmed)
                 \/ /\ In(old, trimmed)
                    /\ \E some \in SUBSET L(old) : refs' = Referenced(t, N(old), some, trimmed)
                 \/ damaged' = damaged \cup {t}
        BY <1>6 DEF AddPackageFails
    <2>2. PICK trimmed \in SUBSET packages[t] :
              /\ OldVersions(t, p, old, trimmed)
              /\ \/ /\ Out(trimmed)
                    /\ \E some \in SUBSET N(old) : refs' = Referenced(t, some, {}, trimmed)
                 \/ /\ Gone(old, trimmed)
                    /\ refs' = Referenced(t, N(old), {}, trimmed)
                 \/ /\ In(old, trimmed)
                    /\ \E some \in SUBSET L(old) : refs' = Referenced(t, N(old), some, trimmed)
        BY <2>1
    <2>3. p \notin packages[t]
        BY <1>6 DEF AddPackageFails
    <2>4. /\ Out(trimmed) => packages'[t] = packages[t] \ trimmed
          /\ Gone(old, trimmed) => packages'[t] = packages[t] \ (old \cup trimmed)
          /\ In(old, trimmed) => packages'[t] = (packages[t] \ (old \cup trimmed)) \cup {p}
        BY DEF TypeOK
    <2>5. /\ N(old) \in SUBSET FileKey /\ L(old) \in SUBSET FileKey /\ {} \in SUBSET FileKey
          /\ \A some \in SUBSET N(old) : some \in SUBSET FileKey
          /\ \A some \in SUBSET L(old) : some \in SUBSET FileKey
        BY <1>p, <1>f
    <2> HIDE DEF N, L, Out, Gone, In
    <2>6. CASE Out(trimmed) /\ \E some \in SUBSET N(old) : refs' = Referenced(t, some, {}, trimmed)
        <3>1. PICK some \in SUBSET N(old) : refs' = Referenced(t, some, {}, trimmed)
            BY <2>6
        <3>2. packages'[t] = packages[t] \ trimmed /\ some \in SUBSET FileKey
            BY <2>4, <2>5, <2>6
        <3>3. QED
            BY <1>4, <2>2, <2>3, <2>5, <3>1, <3>2
    <2>7. CASE Gone(old, trimmed) /\ refs' = Referenced(t, N(old), {}, trimmed)
        <3>1. packages'[t] = packages[t] \ (old \cup trimmed)
            BY <2>4, <2>7
        <3>2. QED
            BY <1>4, <2>2, <2>3, <2>5, <2>7, <3>1
    <2>8. CASE /\ In(old, trimmed)
               /\ \E some \in SUBSET L(old) : refs' = Referenced(t, N(old), some, trimmed)
        <3>1. PICK some \in SUBSET L(old) : refs' = Referenced(t, N(old), some, trimmed)
            BY <2>8
        <3>2. packages'[t] = (packages[t] \ (old \cup trimmed)) \cup {p} /\ some \in SUBSET FileKey
            BY <2>4, <2>5, <2>8
        <3>3. N(old) = Files[p] \ FilesIn(old) /\ some \subseteq FilesIn(old) \ Files[p]
            BY <3>1 DEF N, L
        <3>4. QED
            BY <1>4, <2>2, <2>3, <2>5, <3>1, <3>2, <3>3
    <2>9. QED
        BY <2>2, <2>6, <2>7, <2>8
<1>7. QED
    BY <1>1, <1>5, <1>6 DEF Records

(* Every step keeps every variable in its type, for DeletePoolFile as the  *)
(* three walks use it.                                                     *)
LEMMA DeleteType ==
    ASSUME TypeOK, NEW f \in FileKey, NEW new, DeletePoolFile(f, new) PROVE TypeOK'
BY FaultType DEF TypeOK, DeletePoolFile

LEMMA StepType == TypeOK /\ Next => TypeOK'
<1> SUFFICES ASSUME TypeOK, Next PROVE TypeOK'
    OBVIOUS
<1>1. ASSUME NEW c \in Command, StartRun(c) PROVE TypeOK'
    BY <1>1 DEF StartRun, TypeOK, Phase, Command, NoFlags, NoHook, Unused
<1>2. ASSUME NEW f \in FileKey, CopyFile(f) PROVE TypeOK'
    BY <1>2 DEF CopyFile, TypeOK, history
<1>3. ASSUME NEW f \in FileKey, ExpectFile(f) PROVE TypeOK'
    BY <1>3 DEF ExpectFile, TypeOK, history, disk
<1>4. ASSUME NEW f \in FileKey, RecopyFile(f) PROVE TypeOK'
    BY <1>4 DEF RecopyFile, TypeOK, process
<1>5. ASSUME AddChecksums PROVE TypeOK'
    <2>1. busy \in FileKey
        BY <1>5 DEF AddChecksums, TypeOK
    <2>2. /\ flags' \in [FileKey -> SUBSET Flag]
          /\ error' \in BOOLEAN /\ lossy' \in BOOLEAN
        <3>1. \A g \in SUBSET Flag :
                [flags EXCEPT ![busy] = g] \in [FileKey -> SUBSET Flag]
            BY DEF TypeOK
        <3>2. flags[busy] \in SUBSET Flag
            BY <2>1 DEF TypeOK
        <3>3. flags' \in [FileKey -> SUBSET Flag]
            BY <1>5, <3>1, <3>2 DEF AddChecksums, TypeOK, Flag
        <3>4. error' \in BOOLEAN /\ lossy' \in BOOLEAN
            BY <1>5 DEF AddChecksums, TypeOK
        <3>5. QED
            BY <3>3, <3>4
    <2>3. faults' \in 0..MaxFaults /\ checksums' \subseteq FileKey
        BY <1>5, <2>1, FaultType DEF AddChecksums, TypeOK
    <2>4. QED
        BY <1>5, <2>2, <2>3 DEF AddChecksums, TypeOK
<1>6. ASSUME NEW t \in Target, NEW p \in Package, Records(t, p) PROVE TypeOK'
    <2>1. /\ packages' \in [Target -> SUBSET Package]
          /\ refs' \in [Target -> [FileKey -> Nat]]
          /\ flags' \in [FileKey -> SUBSET Flag]
          /\ error' \in BOOLEAN /\ faults' \in 0..MaxFaults
        BY <1>6, RecordsReferences, RecordsFrame
    <2>2. dirty' \subseteq Target /\ modified' \subseteq Target /\ damaged' \subseteq Target
        <3>1. /\ dirty' \in {dirty, dirty \cup {t}} /\ modified' \in {modified, modified \cup {t}}
              /\ damaged' \in {damaged, damaged \cup {t}}
            BY <1>6, RecordsFrame
        <3>2. QED
            BY <3>1 DEF TypeOK
    <2>3. /\ UNCHANGED <<checksums, pool, published, snapshot, mirror, phase, command,
                         interrupted, todo, busy, hook>>
          /\ UNCHANGED <<unexported, halfdeleted, garbage, bare, lossy>>
        BY <1>6, RecordsFrame
    <2>4. QED
        BY <2>1, <2>2, <2>3 DEF TypeOK
<1>7. ASSUME NEW t \in Target, GenerateSnapshot(t) PROVE TypeOK'
    <2>1. FilesIn(packages[t]) \in SUBSET FileKey
        BY FilesInType DEF TypeOK
    <2>2. QED
        BY <1>7, <2>1, FaultType DEF GenerateSnapshot, TypeOK, InAction, Command
<1>8. ASSUME NEW f \in FileKey, ReferenceSnapshotFile(f) PROVE TypeOK'
    <2>1. snapshot' \in [files : SUBSET FileKey, references : SUBSET FileKey]
        BY <1>8 DEF ReferenceSnapshotFile, TypeOK
    <2>2. faults' \in 0..MaxFaults /\ error' \in BOOLEAN
        BY <1>8, FaultType DEF ReferenceSnapshotFile, TypeOK
    <2>3. QED
        BY <1>8, <2>1, <2>2 DEF ReferenceSnapshotFile, TypeOK
<1>9. ASSUME NEW f \in FileKey, UnreferenceSnapshotFile(f) PROVE TypeOK'
    <2>1. flags' \in [FileKey -> SUBSET Flag]
        BY <1>9, DereferencedType DEF UnreferenceSnapshotFile, TypeOK
    <2>2. QED
        <3>1. snapshot' \in [files : SUBSET FileKey, references : SUBSET FileKey]
            BY <1>9 DEF UnreferenceSnapshotFile, TypeOK
        <3>2. faults' \in 0..MaxFaults /\ error' \in BOOLEAN
            BY <1>9, FaultType DEF UnreferenceSnapshotFile, TypeOK
        <3>3. QED
            BY <1>9, <2>1, <3>1, <3>2 DEF UnreferenceSnapshotFile, TypeOK
<1>10. ASSUME NEW f \in FileKey, DeleteUnreferenced(f) PROVE TypeOK'
    BY <1>10, DeleteType DEF DeleteUnreferenced
<1>11. ASSUME NEW f \in FileKey, TidyAdded(f) PROVE TypeOK'
    BY <1>11, DeleteType DEF TidyAdded
<1>12. ASSUME NEW f \in FileKey, RemoveUnreferenced(f) PROVE TypeOK'
    BY <1>12, DeleteType DEF RemoveUnreferenced
<1>13. ASSUME ForgetFile PROVE TypeOK'
    <2>1. busy \in FileKey
        BY <1>13 DEF ForgetFile, TypeOK
    <2>2. /\ flags' \in [FileKey -> SUBSET Flag]
          /\ error' \in BOOLEAN /\ lossy' \in BOOLEAN
        <3>1. \A g \in SUBSET Flag :
                [flags EXCEPT ![busy] = g] \in [FileKey -> SUBSET Flag]
            BY DEF TypeOK
        <3>2. (flags[busy] \cup {"DELETED"}) \ {"UNREFERENCED"} \in SUBSET Flag
            BY <2>1 DEF TypeOK, Flag
        <3>3. flags' \in [FileKey -> SUBSET Flag]
            BY ZenonT(40), <1>13, <3>1, <3>2 DEF ForgetFile, TypeOK
        <3>4. error' \in BOOLEAN /\ lossy' \in BOOLEAN
            BY <1>13 DEF ForgetFile, TypeOK
        <3>5. QED
            BY <3>3, <3>4
    <2>3. /\ faults' \in 0..MaxFaults
          /\ checksums' \subseteq FileKey /\ halfdeleted' \subseteq FileKey
        BY <1>13, <2>1, FaultType DEF ForgetFile, TypeOK
    <2>4. QED
        BY <1>13, <2>2, <2>3 DEF ForgetFile, TypeOK
<1>14. ASSUME NEW failed \in BOOLEAN, EndAction(failed) PROVE TypeOK'
    BY <1>14 DEF EndAction, TypeOK, disk, history, UnusedNew, Phase
<1>15. ASSUME NEW when \in ExportWhen, SendNewFiles(when) PROVE TypeOK'
    <2>1. modified' \subseteq Target /\ unexported' \subseteq Target /\ dirty' \subseteq Target
        BY <1>15 DEF SendNewFiles, ToExport, TypeOK
    <2>2. hook' \in [new : SUBSET FileKey, del : SUBSET FileKey]
        BY <1>15 DEF SendNewFiles, TypeOK
    <2>3. QED
        BY <1>15, <2>1, <2>2 DEF SendNewFiles, TypeOK, disk, Phase
<1>16. ASSUME NEW t \in Target, Export(t) PROVE TypeOK'
    BY <1>16, FaultType DEF Export, TypeOK
<1>17. ASSUME EndExport PROVE TypeOK'
    BY <1>17 DEF EndExport, TypeOK, disk, history, Phase
<1>18. ASSUME EndRun PROVE TypeOK'
    <2>1. lossy' \in BOOLEAN /\ faults' \in 0..MaxFaults
        BY <1>18, FaultType DEF EndRun, TypeOK
    <2>2. mirror' \subseteq FileKey
        BY <1>18 DEF EndRun, TypeOK
    <2>3. QED
        BY <1>18, <2>1, <2>2 DEF EndRun, TypeOK, NoFlags, NoHook, Phase, Command
<1>19. ASSUME Interrupt PROVE TypeOK'
    BY <1>19 DEF Interrupt, TypeOK, disk, Fault
<1>20. ASSUME Crash PROVE TypeOK'
    BY <1>20, FaultType DEF Crash, TypeOK, NoFlags, NoHook, Phase, Command
<1>21. QED
    BY <1>1, <1>2, <1>3, <1>4, <1>5, <1>6, <1>7, <1>8, <1>9, <1>10, <1>11, <1>12, <1>13,
       <1>14, <1>15, <1>16, <1>17, <1>18, <1>19, <1>20 DEF Next, Records

(* No other step changes packages or references. *)
LEMMA RecordsOnly ==
    ASSUME Next
    PROVE  \/ \E t \in Target : \E p \in Package : Records(t, p)
           \/ UNCHANGED <<packages, refs, damaged>>
<1>1. CASE \E c \in Command : StartRun(c)
    BY <1>1 DEF StartRun
<1>2. CASE \E f \in FileKey : CopyFile(f) \/ ExpectFile(f) \/ RecopyFile(f)
    BY <1>2 DEF CopyFile, ExpectFile, RecopyFile, history, disk, process
<1>3. CASE AddChecksums
    BY <1>3 DEF AddChecksums
<1>4. CASE \E t \in Target : GenerateSnapshot(t)
    BY <1>4 DEF GenerateSnapshot
<1>5. CASE \E f \in FileKey : ReferenceSnapshotFile(f) \/ UnreferenceSnapshotFile(f)
    BY <1>5 DEF ReferenceSnapshotFile, UnreferenceSnapshotFile
<1>6. CASE \E f \in FileKey : DeleteUnreferenced(f) \/ TidyAdded(f) \/ RemoveUnreferenced(f)
    BY <1>6 DEF DeleteUnreferenced, TidyAdded, RemoveUnreferenced,
       DeletePoolFile
<1>7. CASE ForgetFile
    BY <1>7 DEF ForgetFile
<1>8. CASE \E failed \in BOOLEAN : EndAction(failed)
    BY <1>8 DEF EndAction, disk, history
<1>9. CASE \E when \in ExportWhen : SendNewFiles(when)
    BY <1>9 DEF SendNewFiles, disk
<1>10. CASE \E t \in Target : Export(t)
    BY <1>10 DEF Export
<1>11. CASE EndExport
    BY <1>11 DEF EndExport, disk, history
<1>12. CASE EndRun
    BY <1>12 DEF EndRun
<1>13. CASE Interrupt
    BY <1>13 DEF Interrupt, disk
<1>14. CASE Crash
    BY <1>14 DEF Crash
<1>15. CASE \E t \in Target : \E p \in Package :
              AddPackage(t, p) \/ AddPackageFails(t, p) \/ RemovePackage(t, p)
    BY <1>15 DEF Records
<1>16. QED
    BY <1>1, <1>2, <1>3, <1>4, <1>5, <1>6, <1>7, <1>8,
       <1>9, <1>10, <1>11, <1>12, <1>13, <1>14, <1>15 DEF Next

LEMMA CoveredStep == TypeOK /\ Covered /\ Next => Covered'
<1> SUFFICES ASSUME TypeOK, Covered, Next PROVE Covered'
    OBVIOUS
<1>1. CASE UNCHANGED <<packages, refs, damaged>>
    BY <1>1 DEF Covered, Owners
<1>2. ASSUME NEW t \in Target, NEW p \in Package, Records(t, p) PROVE Covered'
    <2>1. /\ \A u \in Target \ {t} : packages'[u] = packages[u] /\ refs'[u] = refs[u]
          /\ damaged' \in {damaged, damaged \cup {t}}
        BY <1>2, RecordsFrame, RecordsReferences
    <2>2. ASSUME NEW u \in Target \ damaged', NEW f \in FileKey
          PROVE  Owners(packages'[u], f) =< refs'[u][f]
        <3>1. Owners(packages[u], f) =< refs[u][f]
            BY <2>1 DEF Covered
        <3>2. CASE u # t
            BY <2>1, <3>1, <3>2
        <3>3. CASE u = t
            <4>1. t \notin damaged' /\ Owners(packages[t], f) =< refs[t][f]
                BY <3>1, <3>3
            <4>2. Owners(packages'[t], f) =< refs'[t][f]
                BY <1>2, <4>1, RecordsCovered
            <4>3. QED
                BY <3>3, <4>2
        <3>4. QED
            BY <3>2, <3>3
    <2>3. QED
        BY <2>2 DEF Covered, Owners
<1>3. QED
    BY <1>1, <1>2, RecordsOnly

-----------------------------------------------------------------------------
(* References, registered files and the files of the pool                  *)

(* So what a target lists is referenced by it. *)
LEMMA ListedReferenced ==
    ASSUME TypeOK, Kept
    PROVE  \A t \in Target \ damaged : \A f \in FileKey :
              f \in FilesIn(packages[t]) => refs[t][f] > 0 /\ f \in checksums
<1> SUFFICES ASSUME NEW t \in Target \ damaged, NEW f \in FileKey, f \in FilesIn(packages[t])
             PROVE  refs[t][f] > 0 /\ f \in checksums
    OBVIOUS
<1>1. packages[t] \in SUBSET Package /\ refs[t][f] \in Nat
    BY DEF TypeOK
<1>2. Owners(packages[t], f) > 0 /\ Owners(packages[t], f) \in Nat
    BY <1>1, OwnersThere, OwnersFinite
<1>3. Owners(packages[t], f) =< refs[t][f]
    BY DEF Kept, Covered
<1>4. refs[t][f] > 0
    BY <1>1, <1>2, <1>3
<1>5. QED
    BY <1>4 DEF Kept, UsedRegistered

LEMMA KeptStep == TypeOK /\ Kept /\ Next => Kept'
<1> SUFFICES ASSUME TypeOK, Kept, Next PROVE Kept'
    OBVIOUS
<1>0. TypeOK /\ TypeOK'
    BY StepType
<1>k. /\ WorkPlaced /\ FlagsTrue /\ DoomedUnused
      /\ AddedUnregistered /\ RegisteredThere /\ Covered /\ UsedRegistered
    BY DEF Kept
<1>c. Covered'
    BY <1>k, CoveredStep
<1>1. ASSUME NEW c \in Command, StartRun(c) PROVE Kept'
    <2>1. \A g : Used(g)' <=> Used(g)
        BY <1>1, UsedSame DEF StartRun, NoFlags, NoHook, Unused, Command, NoSnapshot
    <2>2. WorkPlaced'
        <3>1. /\ phase' = "action" /\ command' = c /\ c # "reference" /\ busy' = NoFile
              /\ c \in {"include", "change", "gensnapshot"} => todo' = {}
              /\ c = "gensnapshot" => snapshot' = NoSnapshot
              /\ c = "unreferencesnapshot" => todo' = snapshot.references
            BY <1>1, <1>k DEF StartRun, WorkPlaced, Command
        <3>2. snapshot'.references = snapshot.references
            BY <1>0, <1>1 DEF StartRun, TypeOK
        <3>3. QED
            BY <3>1, <3>2 DEF WorkPlaced
    <2>3. FlagsTrue'
        BY <1>1, <1>k DEF StartRun, FlagsTrue, Has, NoFlags, NoHook, Unused, Command,
           NoSnapshot
    <2>4. DoomedUnused'
        BY <1>0, <1>1, <1>k, <2>1 DEF StartRun, InAction, DoomedUnused, Deleting, Walked,
           Has, WorkPlaced, NoFlags, NoHook, Unused, Command, NoSnapshot, TypeOK
    <2>5. AddedUnregistered'
        BY <1>0, <1>1, <1>k DEF StartRun, InAction, AddedUnregistered, Adding, WorkPlaced,
           NoFlags, NoHook, Unused, Command, NoSnapshot, TypeOK
    <2>6. RegisteredThere'
        BY <1>1, <1>k DEF StartRun, RegisteredThere, NoFlags, NoHook, Unused, Command,
           NoSnapshot
    <2>7. UsedRegistered'
        <3>1. /\ UNCHANGED <<refs, checksums, damaged>>
              /\ bare' = (bare /\ c # "gensnapshot")
              /\ c = "gensnapshot" => snapshot.references = {}
            BY <1>1 DEF StartRun, NoSnapshot
        <3>2. snapshot'.references = snapshot.references
            BY <1>0, <1>1 DEF StartRun, TypeOK
        <3>3. QED
            BY <1>k, <3>1, <3>2 DEF UsedRegistered
    <2>8. QED
        BY <1>c, <2>2, <2>3, <2>4, <2>5, <2>6, <2>7 DEF Kept
<1>2. ASSUME NEW f \in FileKey, CopyFile(f) PROVE Kept'
    <2>1. \A g : Used(g)' <=> Used(g)
        BY <1>2, UsedSame DEF CopyFile
    <2>2. WorkPlaced'
        BY <1>2, <1>k, <2>1 DEF CopyFile, InAction, WorkPlaced
    <2>3. FlagsTrue'
        BY <1>2, <1>k DEF CopyFile, FlagsTrue, Has, history
    <2>4. DoomedUnused'
        BY <1>2, <1>k, <2>1 DEF CopyFile, InAction, DoomedUnused, Deleting, Walked, Has
    <2>5. AddedUnregistered'
        BY <1>2, <1>k DEF CopyFile, AddedUnregistered, Adding
    <2>6. RegisteredThere'
        <3>1. busy = NoFile /\ checksums' = checksums /\ pool' = pool \cup {f}
              /\ halfdeleted' = halfdeleted
            BY <1>2 DEF CopyFile, InAction, history
        <3>2. NoFile \notin checksums
            BY <1>0 DEF TypeOK
        <3>3. QED
            BY <1>k, <3>1, <3>2 DEF RegisteredThere
    <2>7. UsedRegistered'
        BY <1>2, <1>k DEF CopyFile, UsedRegistered, history
    <2>8. QED
        BY <1>c, <2>2, <2>3, <2>4, <2>5, <2>6, <2>7 DEF Kept
<1>3. ASSUME NEW f \in FileKey, ExpectFile(f) PROVE Kept'
    <2>1. \A g : Used(g)' <=> Used(g)
        BY <1>3, UsedSame DEF ExpectFile, disk, history
    <2>2. WorkPlaced'
        BY <1>3, <1>k, <2>1 DEF ExpectFile, InAction, WorkPlaced, disk, history
    <2>3. FlagsTrue'
        BY <1>3, <1>k DEF ExpectFile, FlagsTrue, Has, disk, history
    <2>4. DoomedUnused'
        BY <1>3, <1>k, <2>1 DEF ExpectFile, InAction, DoomedUnused, Deleting, Walked, Has,
           disk, history
    <2>5. AddedUnregistered'
        BY <1>3, <1>k DEF ExpectFile, AddedUnregistered, Adding, disk, history
    <2>6. RegisteredThere'
        BY <1>0, <1>3, <1>k DEF ExpectFile, InAction, RegisteredThere, disk, history, TypeOK
    <2>7. UsedRegistered'
        BY <1>3, <1>k, <2>1 DEF ExpectFile, UsedRegistered, disk, history
    <2>8. QED
        BY <1>c, <2>2, <2>3, <2>4, <2>5, <2>6, <2>7 DEF Kept
<1>4. ASSUME NEW f \in FileKey, RecopyFile(f) PROVE Kept'
    <2>1. \A g : Used(g)' <=> Used(g)
        BY <1>4, UsedSame DEF RecopyFile, process
    <2>2. WorkPlaced'
        BY <1>4, <1>k DEF RecopyFile, WorkPlaced, process
    <2>3. FlagsTrue'
        BY <1>4, <1>k DEF RecopyFile, FlagsTrue, Has, process
    <2>4. DoomedUnused'
        BY <1>4, <1>k, <2>1 DEF RecopyFile, DoomedUnused, Deleting, Walked, Has, process
    <2>5. AddedUnregistered'
        BY <1>4, <1>k DEF RecopyFile, AddedUnregistered, Adding, process
    <2>6. RegisteredThere'
        BY <1>4, <1>k DEF RecopyFile, RegisteredThere, process
    <2>7. UsedRegistered'
        BY <1>4, <1>k, <2>1 DEF RecopyFile, UsedRegistered, process
    <2>8. QED
        BY <1>c, <2>2, <2>3, <2>4, <2>5, <2>6, <2>7 DEF Kept
<1>5. ASSUME AddChecksums PROVE Kept'
    <2>1. \A g : Used(g)' <=> Used(g)
        BY <1>5, UsedSame DEF AddChecksums
    <2>2. WorkPlaced'
        BY <1>5, <1>k DEF AddChecksums, WorkPlaced
    <2>3. FlagsTrue'
        BY <1>0, <1>5, <1>k, <2>1 DEF AddChecksums, InAction, FlagsTrue, Has, TypeOK
    <2>4. DoomedUnused'
        BY <1>5, <1>k DEF AddChecksums, DoomedUnused, Deleting, Walked, Has
    <2>5. AddedUnregistered'
        BY <1>5, <1>k DEF AddChecksums, AddedUnregistered, Adding
    <2>6. RegisteredThere'
        BY <1>0, <1>5, <1>k DEF AddChecksums, InAction, RegisteredThere, AddedUnregistered,
           Adding, TypeOK
    <2>7. UsedRegistered'
        BY <1>5, <1>k, <2>1 DEF AddChecksums, UsedRegistered
    <2>8. QED
        BY <1>c, <2>2, <2>3, <2>4, <2>5, <2>6, <2>7 DEF Kept
<1>6. ASSUME NEW t \in Target, NEW p \in Package, Records(t, p) PROVE Kept'
    <2>1. /\ phase = "action" /\ busy = NoFile /\ command \in {"include", "change"}
          /\ UNCHANGED <<checksums, pool, published, snapshot, mirror, phase, command,
                         interrupted, todo, busy, hook>>
          /\ UNCHANGED <<unexported, halfdeleted, garbage, bare, lossy>>
          /\ damaged' \in {damaged, damaged \cup {t}}
          /\ t \notin damaged' => Files[p] \subseteq checksums \/ p \in packages[t]
        BY <1>6, RecordsFrame
    <2>2. /\ \A u \in Target \ {t} : refs'[u] = refs[u]
          /\ \A f \in FileKey :
                 /\ refs'[t][f] > 0 => refs[t][f] > 0 \/ f \in Files[p]
                 /\ Has("UNREFERENCED", f)' => Has("UNREFERENCED", f) \/ refs[t][f] > 0
                 /\ Has("ADDED", f)' <=> Has("ADDED", f)
                 /\ Has("DELETED", f)' <=> Has("DELETED", f)
        BY <1>6, RecordsReferences
    <2>3. WorkPlaced' /\ DoomedUnused' /\ AddedUnregistered' /\ RegisteredThere'
        <3>1. WorkPlaced'
            BY <1>k, <2>1 DEF WorkPlaced
        <3>2. DoomedUnused' /\ AddedUnregistered'
            BY <2>1 DEF DoomedUnused, Deleting, AddedUnregistered, Adding
        <3>3. RegisteredThere'
            BY <1>k, <2>1 DEF RegisteredThere
        <3>4. QED
            BY <3>1, <3>2, <3>3
    <2>4. t \notin damaged' => \A f \in Files[p] : f \in FileKey => f \in checksums
        <3> SUFFICES ASSUME t \notin damaged', p \in packages[t],
                            NEW f \in Files[p], f \in FileKey
                     PROVE  f \in checksums
            BY <2>1
        <3>1. t \notin damaged /\ f \in FilesIn(packages[t])
            BY <2>1 DEF FilesIn
        <3>2. QED
            BY <3>1, ListedReferenced
    <2>5. FlagsTrue'
        BY <1>k, <2>1, <2>2 DEF FlagsTrue, UsedRegistered
    <2>6. UsedRegistered'
        <3>1. ASSUME NEW u \in Target \ damaged', NEW f \in FileKey, refs'[u][f] > 0
              PROVE  f \in checksums
            <4>1. u \notin damaged
                BY <2>1
            <4>2. CASE u # t
                BY <1>k, <2>2, <3>1, <4>1, <4>2 DEF UsedRegistered
            <4>3. CASE u = t
                BY <1>k, <2>2, <2>4, <3>1, <4>1, <4>3 DEF UsedRegistered
            <4>4. QED
                BY <4>2, <4>3
        <3>2. (bare => damaged' = {}) => snapshot.references \subseteq checksums
            BY <1>k, <2>1 DEF UsedRegistered
        <3>3. QED
            BY <2>1, <3>1, <3>2 DEF UsedRegistered
    <2>7. QED
        BY <1>c, <2>3, <2>5, <2>6 DEF Kept
<1>7. ASSUME NEW t \in Target, GenerateSnapshot(t) PROVE Kept'
    <2>1. WorkPlaced'
        <3>1. /\ phase' = "action" /\ command' = "reference" /\ busy' = NoFile /\ snapshot = NoSnapshot
              /\ phase = "action" /\ command = "gensnapshot" /\ todo = {}
            BY <1>7, <1>k DEF GenerateSnapshot, InAction, WorkPlaced
        <3>2. \/ snapshot' = [snapshot EXCEPT !.files = FilesIn(packages[t])]
              \/ snapshot' = snapshot
            BY <1>7 DEF GenerateSnapshot
        <3>3. snapshot'.references = {}
            BY <3>1, <3>2 DEF NoSnapshot
        <3>4. \/ todo' = {}
              \/ todo' = FilesIn(packages[t]) /\ snapshot'.files = FilesIn(packages[t])
            BY <1>7, <3>1 DEF GenerateSnapshot, NoSnapshot
        <3>5. packages' = packages
            BY <1>7 DEF GenerateSnapshot
        <3>6. QED
            BY <3>1, <3>3, <3>4, <3>5 DEF WorkPlaced, FilesIn
    <2>2. FlagsTrue'
        BY <1>7, <1>k DEF GenerateSnapshot, InAction, FlagsTrue, Has
    <2>3. DoomedUnused'
        BY <1>7, <1>k DEF GenerateSnapshot, InAction, DoomedUnused, Deleting, Walked, Has
    <2>4. AddedUnregistered'
        BY <1>7, <1>k DEF GenerateSnapshot, AddedUnregistered, Adding
    <2>5. RegisteredThere'
        BY <1>7, <1>k DEF GenerateSnapshot, RegisteredThere
    <2>6. UsedRegistered'
        <3>1. snapshot'.references = {} /\ UNCHANGED <<refs, checksums, damaged>>
            <4>1. snapshot = NoSnapshot
                BY <1>7, <1>k DEF GenerateSnapshot, InAction, WorkPlaced
            <4>2. QED
                BY <1>7, <4>1 DEF GenerateSnapshot, NoSnapshot
        <3>2. QED
            BY <1>k, <3>1 DEF UsedRegistered
    <2>7. QED
        BY <1>c, <2>1, <2>2, <2>3, <2>4, <2>5, <2>6 DEF Kept
<1>8. ASSUME NEW f \in FileKey, ReferenceSnapshotFile(f) PROVE Kept'
    <2>1. WorkPlaced'
        <3>1. phase = "action" /\ command = "reference" /\ busy = NoFile /\ f \in todo
              /\ UNCHANGED <<phase, command, busy, packages>>
            BY <1>8 DEF ReferenceSnapshotFile, InAction
        <3>2. /\ todo' \in {todo, todo \ {f}} /\ snapshot'.files = snapshot.files
              /\ snapshot'.references \subseteq snapshot.references \cup {f}
            BY <1>0, <1>8 DEF ReferenceSnapshotFile, TypeOK
        <3>3. QED
            BY <1>k, <3>1, <3>2 DEF WorkPlaced, FilesIn
    <2>2. FlagsTrue'
        BY <1>8, <1>k DEF ReferenceSnapshotFile, FlagsTrue, Has
    <2>3. DoomedUnused'
        BY <1>8, <1>k DEF ReferenceSnapshotFile, InAction, DoomedUnused, Deleting, Walked,
           Has
    <2>4. AddedUnregistered'
        BY <1>8, <1>k DEF ReferenceSnapshotFile, AddedUnregistered, Adding
    <2>5. RegisteredThere'
        BY <1>8, <1>k DEF ReferenceSnapshotFile, RegisteredThere
    <2>6. UsedRegistered'
        <3>1. /\ f \in todo /\ phase = "action" /\ command = "reference"
              /\ UNCHANGED <<refs, checksums, damaged>>
            BY <1>8 DEF ReferenceSnapshotFile, InAction
        <3>2. CASE UNCHANGED <<snapshot, bare>>
            BY <1>k, <3>1, <3>2 DEF UsedRegistered
        <3>3. CASE /\ snapshot' = [snapshot EXCEPT !.references = @ \cup {f}]
                   /\ bare' = (todo' # {} \/ ~(snapshot.files \subseteq checksums))
            <4>1. snapshot'.references = snapshot.references \cup {f}
                BY <1>0, <3>3 DEF TypeOK
            <4>2. CASE ~bare'
                <5>1. snapshot.references \cup {f} \subseteq snapshot.files
                    BY <1>k, <3>1 DEF WorkPlaced
                <5>2. QED
                    BY <1>k, <3>1, <3>3, <4>1, <4>2, <5>1 DEF UsedRegistered
            <4>3. CASE damaged = {}
                <5>1. PICK t \in Target : f \in FilesIn(packages[t])
                    BY <1>k, <3>1 DEF WorkPlaced
                <5>2. f \in checksums
                    BY <4>3, <5>1, ListedReferenced
                <5>3. QED
                    BY <1>k, <3>1, <4>1, <4>3, <5>2 DEF UsedRegistered
            <4>4. CASE bare' /\ damaged # {}
                BY <1>k, <3>1, <4>4 DEF UsedRegistered
            <4>5. QED
                BY <4>2, <4>3, <4>4
        <3>4. QED
            BY <1>8, <3>2, <3>3 DEF ReferenceSnapshotFile
    <2>7. QED
        BY <1>c, <2>1, <2>2, <2>3, <2>4, <2>5, <2>6 DEF Kept
<1>9. ASSUME NEW f \in FileKey, UnreferenceSnapshotFile(f) PROVE Kept'
    <2>1. WorkPlaced'
        BY <1>0, <1>9, <1>k, InFiles DEF UnreferenceSnapshotFile, InAction, WorkPlaced,
           Dereferenced, TypeOK, Used
    <2>2. FlagsTrue'
        BY <1>0, <1>9, <1>k, InFiles DEF UnreferenceSnapshotFile, InAction, Dereferenced,
           TypeOK, Has, Walked, Deleting, Adding, WorkPlaced, UsedRegistered, FlagsTrue,
           Used
    <2>3. DoomedUnused'
        BY <1>9, <1>k DEF UnreferenceSnapshotFile, InAction, DoomedUnused, Deleting,
           Walked, Has, Dereferenced
    <2>4. AddedUnregistered'
        BY <1>9, <1>k DEF UnreferenceSnapshotFile, AddedUnregistered, Adding, Dereferenced
    <2>5. RegisteredThere'
        BY <1>9, <1>k DEF UnreferenceSnapshotFile, RegisteredThere, Dereferenced
    <2>6. UsedRegistered'
        BY <1>0, <1>9, <1>k, InFiles DEF UnreferenceSnapshotFile, InAction, UsedRegistered,
           Dereferenced, TypeOK, Used
    <2>7. QED
        BY <1>c, <2>1, <2>2, <2>3, <2>4, <2>5, <2>6 DEF Kept
<1>10. ASSUME NEW f \in FileKey, DeleteUnreferenced(f) PROVE Kept'
    <2>1. \A g : Used(g)' <=> Used(g)
        BY <1>10, UsedSame DEF DeleteUnreferenced, DeletePoolFile
    <2>2. WorkPlaced'
        BY <1>10, <1>k, <2>1 DEF DeleteUnreferenced, InAction, WorkPlaced, DeletePoolFile
    <2>3. FlagsTrue'
        BY <1>10, <1>k DEF DeleteUnreferenced, FlagsTrue, Has, DeletePoolFile
    <2>4. DoomedUnused'
        BY <1>10, <1>k, <2>1 DEF DeleteUnreferenced, DoomedUnused, Deleting, Walked, Has,
           DeletePoolFile
    <2>5. AddedUnregistered'
        BY <1>10, <1>k DEF DeleteUnreferenced, InAction, AddedUnregistered, Adding,
           DeletePoolFile
    <2>6. RegisteredThere'
        BY <1>0, <1>10, <1>k DEF DeleteUnreferenced, InAction, RegisteredThere,
           DeletePoolFile, TypeOK
    <2>7. UsedRegistered'
        BY <1>10, <1>k, <2>1 DEF DeleteUnreferenced, UsedRegistered, DeletePoolFile
    <2>8. QED
        BY <1>c, <2>2, <2>3, <2>4, <2>5, <2>6, <2>7 DEF Kept
<1>11. ASSUME NEW f \in FileKey, TidyAdded(f) PROVE Kept'
    <2>1. \A g : Used(g)' <=> Used(g)
        BY <1>11, UsedSame DEF TidyAdded, DeletePoolFile
    <2>2. WorkPlaced'
        BY <1>11, <1>k DEF TidyAdded, WorkPlaced, DeletePoolFile
    <2>3. FlagsTrue'
        BY <1>11, <1>k DEF TidyAdded, FlagsTrue, Has, DeletePoolFile
    <2>4. DoomedUnused'
        BY <1>11, <1>k, <2>1 DEF TidyAdded, DoomedUnused, Deleting, Walked, Has,
           DeletePoolFile
    <2>5. AddedUnregistered'
        BY <1>11, <1>k DEF TidyAdded, AddedUnregistered, Adding, DeletePoolFile
    <2>6. RegisteredThere'
        BY <1>0, <1>11, <1>k DEF TidyAdded, InAction, RegisteredThere, DeletePoolFile,
           TypeOK
    <2>7. UsedRegistered'
        BY <1>11, <1>k, <2>1 DEF TidyAdded, UsedRegistered, DeletePoolFile
    <2>8. QED
        BY <1>c, <2>2, <2>3, <2>4, <2>5, <2>6, <2>7 DEF Kept
<1>12. ASSUME NEW f \in FileKey, RemoveUnreferenced(f) PROVE Kept'
    <2>1. \A g : Used(g)' <=> Used(g)
        BY <1>12, UsedSame DEF RemoveUnreferenced, DeletePoolFile
    <2>2. WorkPlaced'
        BY <1>12, <1>k DEF RemoveUnreferenced, WorkPlaced, DeletePoolFile
    <2>3. FlagsTrue'
        BY <1>12, <1>k DEF RemoveUnreferenced, FlagsTrue, Has, DeletePoolFile
    <2>4. DoomedUnused'
        BY <1>12, <1>k, <2>1 DEF RemoveUnreferenced, DoomedUnused, Deleting, Walked, Has,
           DeletePoolFile
    <2>5. AddedUnregistered'
        BY <1>12, <1>k DEF RemoveUnreferenced, AddedUnregistered, Adding, DeletePoolFile
    <2>6. RegisteredThere'
        BY <1>0, <1>12, <1>k DEF RemoveUnreferenced, InAction, RegisteredThere,
           DeletePoolFile, TypeOK
    <2>7. UsedRegistered'
        BY <1>12, <1>k, <2>1 DEF RemoveUnreferenced, UsedRegistered, DeletePoolFile
    <2>8. QED
        BY <1>c, <2>2, <2>3, <2>4, <2>5, <2>6, <2>7 DEF Kept
<1>13. ASSUME ForgetFile PROVE Kept'
    <2>1. \A g : Used(g)' <=> Used(g)
        BY <1>13, UsedSame DEF ForgetFile
    <2>2. WorkPlaced'
        BY <1>13, <1>k DEF ForgetFile, WorkPlaced
    <2>3. FlagsTrue'
        <3>1. busy \in FileKey /\ busy \in Walked /\ Deleting /\ command' = command
            BY <1>0, <1>13, <1>k DEF ForgetFile, TypeOK, Deleting, Walked
        <3>2. phase' = phase /\ damaged' = damaged
            BY <1>13 DEF ForgetFile
        <3>u. CASE UNCHANGED <<checksums, flags>>
            BY <1>k, <3>1, <3>2, <3>u DEF FlagsTrue, Has
        <3>3. CASE /\ checksums' = checksums \ {busy}
                   /\ flags' = [flags EXCEPT ![busy] = (@ \cup {"DELETED"}) \ {"UNREFERENCED"}]
            <4>1. \A g \in FileKey \ {busy} : flags'[g] = flags[g]
                BY <1>0, <3>3 DEF TypeOK
            <4>2. flags'[busy] = (flags[busy] \cup {"DELETED"}) \ {"UNREFERENCED"}
                BY <1>0, <3>1, <3>3 DEF TypeOK
            <4>3. \A g \in FileKey : g = busy =>
                     /\ Has("DELETED", g)' /\ ~Has("UNREFERENCED", g)'
                     /\ Has("ADDED", g)' => Has("ADDED", g)
                BY <4>2 DEF Has
            <4>4. \A g \in FileKey \ {busy} : \A flag : Has(flag, g)' <=> Has(flag, g)
                BY <4>1 DEF Has
            <4>5. phase' = phase /\ damaged' = damaged
                  /\ (phase = "action" => command = "deleteunreferenced")
                BY <1>13 DEF ForgetFile
            <4>6. busy \notin checksums' /\ \A g \in FileKey \ {busy} :
                                                g \in checksums' <=> g \in checksums
                BY <3>3
            <4> SUFFICES ASSUME NEW g \in FileKey
                         PROVE  /\ Has("ADDED", g)' => command' = "include"
                                /\ Has("ADDED", g)' /\ ~Has("DELETED", g)' => g \in checksums'
                                /\ Has("DELETED", g)' => g \notin checksums' /\ ~Has("UNREFERENCED", g)'
                                /\ Has("DELETED", g)' /\ phase' = "action" => command' = "deleteunreferenced"
                                /\ Has("UNREFERENCED", g)' =>
                                      /\ damaged' = {} => g \in checksums'
                                      /\ command' \in {"include", "change", "unreferencesnapshot"}
                BY DEF FlagsTrue
            <4>7. CASE g = busy
                BY <1>k, <3>1, <4>3, <4>5, <4>6, <4>7 DEF FlagsTrue
            <4>8. CASE g # busy
                BY <1>k, <3>1, <4>4, <4>5, <4>6, <4>8 DEF FlagsTrue
            <4>9. QED
                BY <4>7, <4>8
        <3>4. QED
            BY <1>13, <3>u, <3>3 DEF ForgetFile
    <2>4. DoomedUnused'
        BY <1>0, <1>13, <1>k, <2>1 DEF ForgetFile, InAction, DoomedUnused, Deleting, Walked,
           Has, TypeOK
    <2>5. AddedUnregistered'
        BY <1>13, <1>k DEF ForgetFile, AddedUnregistered, Adding
    <2>6. RegisteredThere'
        BY <1>13, <1>k DEF ForgetFile, RegisteredThere
    <2>7. UsedRegistered'
        <3>1. busy \in Walked /\ Deleting /\ ~Used(busy)
            BY <1>0, <1>13, <1>k DEF ForgetFile, Deleting, Walked, DoomedUnused
        <3>2. UNCHANGED <<refs, snapshot, damaged, bare>> /\ checksums \ {busy} \subseteq checksums'
            BY <1>13 DEF ForgetFile
        <3>3. QED
            BY <1>k, <3>1, <3>2 DEF UsedRegistered, Used
    <2>8. QED
        BY <1>c, <2>2, <2>3, <2>4, <2>5, <2>6, <2>7 DEF Kept
<1>14. ASSUME NEW failed \in BOOLEAN, EndAction(failed) PROVE Kept'
    <2>1. \A g : Used(g)' <=> Used(g)
        BY <1>14, UsedSame DEF EndAction, disk, history, UnusedNew
    <2>2. WorkPlaced'
        BY <1>14, <1>k DEF EndAction, WorkPlaced, disk, history, UnusedNew
    <2>3. FlagsTrue'
        BY <1>14, <1>k DEF EndAction, FlagsTrue, Has, disk, history, UnusedNew
    <2>4. DoomedUnused'
        BY <1>0, <1>14, <1>k, <2>1 DEF EndAction, InAction, DoomedUnused, Deleting, Walked,
           Has, FlagsTrue, disk, history, UnusedNew, TypeOK
    <2>5. AddedUnregistered'
        BY <1>14, <1>k DEF EndAction, AddedUnregistered, Adding, disk, history, UnusedNew
    <2>6. RegisteredThere'
        BY <1>14, <1>k DEF EndAction, RegisteredThere, disk, history, UnusedNew
    <2>7. UsedRegistered'
        BY <1>14, <1>k, <2>1 DEF EndAction, UsedRegistered, disk, history, UnusedNew
    <2>8. QED
        BY <1>c, <2>2, <2>3, <2>4, <2>5, <2>6, <2>7 DEF Kept
<1>15. ASSUME NEW when \in ExportWhen, SendNewFiles(when) PROVE Kept'
    <2>1. \A g : Used(g)' <=> Used(g)
        BY <1>15, UsedSame DEF SendNewFiles, disk, history
    <2>2. WorkPlaced'
        BY <1>15, <1>k DEF SendNewFiles, WorkPlaced, disk, history
    <2>3. FlagsTrue'
        BY <1>15, <1>k DEF SendNewFiles, FlagsTrue, Has, disk, history
    <2>4. DoomedUnused'
        BY <1>15, <1>k DEF SendNewFiles, DoomedUnused, Deleting, Walked, Has, disk, history
    <2>5. AddedUnregistered'
        BY <1>15, <1>k DEF SendNewFiles, AddedUnregistered, Adding, disk, history
    <2>6. RegisteredThere'
        BY <1>15, <1>k DEF SendNewFiles, RegisteredThere, disk, history
    <2>7. UsedRegistered'
        BY <1>15, <1>k, <2>1 DEF SendNewFiles, UsedRegistered, disk, history
    <2>8. QED
        BY <1>c, <2>2, <2>3, <2>4, <2>5, <2>6, <2>7 DEF Kept
<1>16. ASSUME NEW t \in Target, Export(t) PROVE Kept'
    <2>1. \A g : Used(g)' <=> Used(g)
        BY <1>16, UsedSame DEF Export
    <2>2. WorkPlaced'
        BY <1>16, <1>k DEF Export, WorkPlaced
    <2>3. FlagsTrue'
        BY <1>16, <1>k DEF Export, FlagsTrue, Has
    <2>4. DoomedUnused'
        BY <1>16, <1>k DEF Export, DoomedUnused, Deleting, Walked, Has
    <2>5. AddedUnregistered'
        BY <1>16, <1>k DEF Export, AddedUnregistered, Adding
    <2>6. RegisteredThere'
        BY <1>16, <1>k DEF Export, RegisteredThere
    <2>7. UsedRegistered'
        BY <1>16, <1>k, <2>1 DEF Export, UsedRegistered
    <2>8. QED
        BY <1>c, <2>2, <2>3, <2>4, <2>5, <2>6, <2>7 DEF Kept
<1>17. ASSUME EndExport PROVE Kept'
    <2>1. \A g : Used(g)' <=> Used(g)
        BY <1>17, UsedSame DEF EndExport, disk, history
    <2>2. WorkPlaced'
        BY <1>17, <1>k DEF EndExport, WorkPlaced, disk, history
    <2>3. FlagsTrue'
        BY <1>17, <1>k DEF EndExport, FlagsTrue, Has, disk, history
    <2>4. DoomedUnused'
        BY <1>0, <1>17, <1>k, <2>1 DEF EndExport, InAction, disk, history, TypeOK, Has,
           Walked, Deleting, Adding, WorkPlaced, UsedRegistered, FlagsTrue, DoomedUnused
    <2>5. AddedUnregistered'
        BY <1>17, <1>k DEF EndExport, AddedUnregistered, Adding, disk, history
    <2>6. RegisteredThere'
        BY <1>17, <1>k DEF EndExport, RegisteredThere, disk, history
    <2>7. UsedRegistered'
        BY <1>17, <1>k, <2>1 DEF EndExport, UsedRegistered, disk, history
    <2>8. QED
        BY <1>c, <2>2, <2>3, <2>4, <2>5, <2>6, <2>7 DEF Kept
<1>18. ASSUME EndRun PROVE Kept'
    <2>1. \A g : Used(g)' <=> Used(g)
        BY <1>18, UsedSame DEF EndRun, NoFlags, NoHook
    <2>2. WorkPlaced'
        BY <1>18, <1>k DEF EndRun, WorkPlaced, NoFlags, NoHook
    <2>3. FlagsTrue'
        BY <1>18, <1>k DEF EndRun, FlagsTrue, Has, NoFlags, NoHook
    <2>4. DoomedUnused'
        BY <1>18, <1>k DEF EndRun, DoomedUnused, Deleting, Walked, Has, NoFlags, NoHook
    <2>5. AddedUnregistered'
        BY <1>18, <1>k DEF EndRun, AddedUnregistered, Adding, NoFlags, NoHook
    <2>6. RegisteredThere'
        BY <1>18, <1>k DEF EndRun, RegisteredThere, NoFlags, NoHook
    <2>7. UsedRegistered'
        BY <1>18, <1>k, <2>1 DEF EndRun, UsedRegistered, NoFlags, NoHook
    <2>8. QED
        BY <1>c, <2>2, <2>3, <2>4, <2>5, <2>6, <2>7 DEF Kept
<1>19. ASSUME Interrupt PROVE Kept'
    <2>1. \A g : Used(g)' <=> Used(g)
        BY <1>19, UsedSame DEF Interrupt, disk
    <2>2. WorkPlaced'
        BY <1>19, <1>k DEF Interrupt, WorkPlaced, disk
    <2>3. FlagsTrue'
        BY <1>19, <1>k DEF Interrupt, FlagsTrue, Has, disk
    <2>4. DoomedUnused'
        BY <1>19, <1>k, <2>1 DEF Interrupt, DoomedUnused, Deleting, Walked, Has, disk
    <2>5. AddedUnregistered'
        BY <1>19, <1>k DEF Interrupt, AddedUnregistered, Adding, disk
    <2>6. RegisteredThere'
        BY <1>19, <1>k DEF Interrupt, RegisteredThere, disk
    <2>7. UsedRegistered'
        BY <1>19, <1>k, <2>1 DEF Interrupt, UsedRegistered, disk
    <2>8. QED
        BY <1>c, <2>2, <2>3, <2>4, <2>5, <2>6, <2>7 DEF Kept
<1>20. ASSUME Crash PROVE Kept'
    <2>1. \A g : Used(g)' <=> Used(g)
        BY <1>20, UsedSame DEF Crash, NoFlags, NoHook
    <2>2. WorkPlaced'
        BY <1>20, <1>k DEF Crash, WorkPlaced, NoFlags, NoHook
    <2>3. FlagsTrue'
        BY <1>20, <1>k DEF Crash, FlagsTrue, Has, NoFlags, NoHook
    <2>4. DoomedUnused'
        BY <1>20, <1>k DEF Crash, DoomedUnused, Deleting, Walked, Has, NoFlags, NoHook
    <2>5. AddedUnregistered'
        BY <1>20, <1>k DEF Crash, AddedUnregistered, Adding, NoFlags, NoHook
    <2>6. RegisteredThere'
        BY <1>20, <1>k DEF Crash, RegisteredThere, NoFlags, NoHook
    <2>7. UsedRegistered'
        BY <1>20, <1>k, <2>1 DEF Crash, UsedRegistered, NoFlags, NoHook
    <2>8. QED
        BY <1>c, <2>2, <2>3, <2>4, <2>5, <2>6, <2>7 DEF Kept
<1>21. QED
    BY <1>1, <1>2, <1>3, <1>4, <1>5, <1>6, <1>7, <1>8, <1>9, <1>10, <1>11, <1>12, <1>13,
       <1>14, <1>15, <1>16, <1>17, <1>18, <1>19, <1>20 DEF Next, Records

-----------------------------------------------------------------------------
(* Exported indexes and snapshots                                          *)

(* What is deleted is in no index that is known to be current: a new file  *)
(* was not registered when the index was written, and one without          *)
(* reference would be referenced if the index named it.                    *)
LEMMA DoomedUnpublished ==
    ASSUME TypeOK, Kept, ExportInv, Deleting, busy # NoFile
    PROVE  \A t \in Target \ (unexported \cup damaged) : busy \notin FilesIn(published[t])
<1> SUFFICES ASSUME NEW t \in Target \ (unexported \cup damaged), busy \in FilesIn(published[t])
             PROVE  FALSE
    OBVIOUS
<1>1. ~Used(busy) /\ (phase = "tidy" => Has("ADDED", busy))
    BY DEF Kept, DoomedUnused, Walked
<1>2. phase # "tidy" => dirty = {}
    BY DEF ExportInv, ChangesExported, Deleting
<1>3. ASSUME published[t] = packages[t] PROVE FALSE
    <2>1. refs[t][busy] > 0
        BY <1>3, ListedReferenced DEF TypeOK
    <2>2. QED
        BY <1>1, <2>1 DEF Used
<1>4. phase = "tidy"
    BY <1>2, <1>3 DEF ExportInv, PublishedKnown
<1>5. QED
    BY <1>1, <1>4 DEF ExportInv, PublishedKnown

LEMMA ExportStep == TypeOK /\ Kept /\ ExportInv /\ Next => ExportInv'
<1> SUFFICES ASSUME TypeOK, Kept, ExportInv, Next PROVE ExportInv'
    OBVIOUS
<1>0. TypeOK /\ TypeOK' /\ Kept'
    BY StepType, KeptStep
<1>k. /\ WorkPlaced /\ FlagsTrue /\ DoomedUnused
      /\ AddedUnregistered /\ RegisteredThere /\ Covered /\ UsedRegistered
    BY DEF Kept
<1>e. PublishedKnown /\ ChangesExported /\ SnapshotReferenced
    BY DEF ExportInv
<1>1. ASSUME NEW c \in Command, StartRun(c) PROVE ExportInv'
    <2>1. PublishedKnown'
        <3>1. /\ UNCHANGED <<published, packages, unexported, damaged, checksums>>
              /\ dirty' = {} /\ flags' = NoFlags /\ dirty = {}
            BY <1>1, <1>e DEF StartRun, ChangesExported
        <3>2. \A t \in Target : \A f \in FilesIn(published[t]) : f \in FileKey
            BY <1>0, FilesInType DEF TypeOK
        <3>3. QED
            BY <1>e, <3>1, <3>2 DEF PublishedKnown, Has, NoFlags
    <2>2. ChangesExported'
        BY <1>1, <1>e DEF StartRun, ChangesExported, NoFlags, NoHook, Unused, Command,
           NoSnapshot
    <2>3. SnapshotReferenced'
        BY <1>1, <1>e, <1>0 DEF StartRun, SnapshotReferenced, NoFlags, NoHook, Unused,
           Command, NoSnapshot, InAction, TypeOK
    <2>4. QED
        BY <2>1, <2>2, <2>3 DEF ExportInv
<1>2. ASSUME NEW f \in FileKey, CopyFile(f) PROVE ExportInv'
    <2>1. /\ UNCHANGED <<packages, published, snapshot, unexported, damaged, dirty>>
          /\ UNCHANGED <<checksums, flags>>
          /\ UNCHANGED <<phase, command, error, interrupted, modified, todo, bare>>
          /\ phase = "action"
        BY <1>2 DEF CopyFile, InAction, history
    <2>2. PublishedKnown'
        BY <1>e, <2>1 DEF PublishedKnown, Has
    <2>3. ChangesExported'
        BY <1>e, <2>1 DEF ChangesExported
    <2>4. SnapshotReferenced'
        BY <1>e, <2>1 DEF SnapshotReferenced
    <2>5. QED
        BY <2>2, <2>3, <2>4 DEF ExportInv
<1>3. ASSUME NEW f \in FileKey, ExpectFile(f) PROVE ExportInv'
    BY <1>3, <1>e DEF ExpectFile, ExportInv, InAction, disk, history, PublishedKnown,
       ChangesExported, SnapshotReferenced, Has
<1>4. ASSUME NEW f \in FileKey, RecopyFile(f) PROVE ExportInv'
    BY <1>4, <1>e DEF RecopyFile, ExportInv, InAction, process, PublishedKnown,
       ChangesExported, SnapshotReferenced, Has
<1>5. ASSUME AddChecksums PROVE ExportInv'
    <2>1. PublishedKnown'
        BY <1>5, <1>e, <1>0, <1>k DEF AddChecksums, PublishedKnown, Has, InAction, TypeOK,
           AddedUnregistered, Adding
    <2>2. ChangesExported'
        BY <1>5, <1>e DEF AddChecksums, ChangesExported
    <2>3. SnapshotReferenced'
        BY <1>5, <1>e DEF AddChecksums, SnapshotReferenced
    <2>4. QED
        BY <2>1, <2>2, <2>3 DEF ExportInv
<1>6. ASSUME NEW t \in Target, NEW p \in Package, Records(t, p) PROVE ExportInv'
    <2>1. /\ \A u \in Target \ {t} : packages'[u] = packages[u]
          /\ t \notin dirty' => packages'[t] = packages[t]
          /\ dirty' \in {dirty, dirty \cup {t}} /\ modified' \in {modified, modified \cup {t}}
          /\ ~error' => ~error /\ modified' = modified \cup {t}
          /\ damaged' \in {damaged, damaged \cup {t}}
          /\ phase = "action" /\ command \in {"include", "change"}
          /\ UNCHANGED <<checksums, published, snapshot, phase, command, interrupted, todo, busy>>
          /\ UNCHANGED <<unexported, bare>>
        BY <1>6, RecordsFrame
    <2>2. \A f \in FileKey : Has("ADDED", f)' <=> Has("ADDED", f)
        BY <1>6, RecordsReferences
    <2>3. PublishedKnown'
        <3>1. \A u \in Target : FilesIn(published[u]) \in SUBSET FileKey
            BY <1>0, FilesInType DEF TypeOK
        <3>2. ASSUME NEW u \in Target \ (unexported \cup damaged')
              PROVE  /\ u \notin dirty' => published[u] = packages'[u]
                     /\ \A f \in FilesIn(published[u]) :
                           f \in checksums /\ ~Has("ADDED", f)'
            <4>1. u \in Target \ (unexported \cup damaged)
                BY <2>1
            <4>2. u \notin dirty' => u \notin dirty /\ packages'[u] = packages[u]
                BY <2>1
            <4>3. QED
                BY <1>e, <2>1, <2>2, <3>1, <4>1, <4>2 DEF PublishedKnown
        <3>3. QED
            BY <2>1, <3>2 DEF PublishedKnown
    <2>4. ChangesExported'
        BY <1>e, <2>1 DEF ChangesExported
    <2>5. SnapshotReferenced'
        BY <1>e, <2>1 DEF SnapshotReferenced
    <2>6. QED
        BY <2>3, <2>4, <2>5 DEF ExportInv
<1>7. ASSUME NEW t \in Target, GenerateSnapshot(t) PROVE ExportInv'
    <2>1. PublishedKnown'
        BY <1>7, <1>e DEF GenerateSnapshot, PublishedKnown, Has
    <2>2. ChangesExported'
        BY <1>7, <1>e DEF GenerateSnapshot, ChangesExported, InAction
    <2>3. SnapshotReferenced'
        BY <1>7, <1>e, <1>0, <1>k DEF GenerateSnapshot, SnapshotReferenced, InAction,
           TypeOK, WorkPlaced
    <2>4. QED
        BY <2>1, <2>2, <2>3 DEF ExportInv
<1>8. ASSUME NEW f \in FileKey, ReferenceSnapshotFile(f) PROVE ExportInv'
    <2>1. PublishedKnown'
        BY <1>8, <1>e DEF ReferenceSnapshotFile, PublishedKnown, Has
    <2>2. ChangesExported'
        BY <1>8, <1>e DEF ReferenceSnapshotFile, ChangesExported
    <2>3. SnapshotReferenced'
        BY <1>8, <1>e, <1>0 DEF ReferenceSnapshotFile, SnapshotReferenced, InAction, TypeOK
    <2>4. QED
        BY <2>1, <2>2, <2>3 DEF ExportInv
<1>9. ASSUME NEW f \in FileKey, UnreferenceSnapshotFile(f) PROVE ExportInv'
    <2>1. PublishedKnown'
        BY <1>9, <1>e, <1>0 DEF UnreferenceSnapshotFile, PublishedKnown, Has, Dereferenced,
           InAction, TypeOK
    <2>2. ChangesExported'
        BY <1>9, <1>e DEF UnreferenceSnapshotFile, ChangesExported, Dereferenced
    <2>3. SnapshotReferenced'
        BY <1>9, <1>e, <1>0 DEF UnreferenceSnapshotFile, SnapshotReferenced, Dereferenced,
           InAction, TypeOK
    <2>4. QED
        BY <2>1, <2>2, <2>3 DEF ExportInv
<1>10. ASSUME NEW f \in FileKey, DeleteUnreferenced(f) PROVE ExportInv'
    BY <1>10, <1>e DEF DeleteUnreferenced, ExportInv, InAction, DeletePoolFile,
       PublishedKnown, ChangesExported, SnapshotReferenced, Has
<1>11. ASSUME NEW f \in FileKey, TidyAdded(f) PROVE ExportInv'
    BY <1>11, <1>e DEF TidyAdded, ExportInv, InAction, DeletePoolFile, PublishedKnown,
       ChangesExported, SnapshotReferenced, Has
<1>12. ASSUME NEW f \in FileKey, RemoveUnreferenced(f) PROVE ExportInv'
    BY <1>12, <1>e DEF RemoveUnreferenced, ExportInv, InAction, DeletePoolFile,
       PublishedKnown, ChangesExported, SnapshotReferenced, Has
<1>13. ASSUME ForgetFile PROVE ExportInv'
    <2>1. PublishedKnown'
        <3>1. UNCHANGED <<packages, published, unexported, damaged, dirty, phase>>
            BY <1>13 DEF ForgetFile
        <3>2. \A g : g # busy => (g \in checksums => g \in checksums')
            BY <1>13 DEF ForgetFile
        <3>3. \A g \in FileKey : Has("ADDED", g)' => Has("ADDED", g)
            <4>1. busy \in FileKey
                BY <1>0, <1>13 DEF ForgetFile, TypeOK
            <4>2. \A g \in FileKey :
                    flags'[g] \in {flags[g], (flags[g] \cup {"DELETED"}) \ {"UNREFERENCED"}}
                BY ZenonT(40), <1>0, <1>13, <4>1 DEF ForgetFile, TypeOK
            <4>3. QED
                BY <4>2 DEF Has
        <3>4. \A t \in Target \ (unexported \cup damaged) : busy \notin FilesIn(published[t])
            BY <1>13, DoomedUnpublished DEF ForgetFile, Deleting
        <3>5. \A t \in Target : \A g \in FilesIn(published[t]) : g \in FileKey
            BY <1>0, FilesInType DEF TypeOK
        <3>6. QED
            BY <1>e, <3>1, <3>2, <3>3, <3>4, <3>5 DEF PublishedKnown
    <2>2. ChangesExported'
        BY <1>13, <1>e DEF ForgetFile, ChangesExported
    <2>3. SnapshotReferenced'
        BY <1>13, <1>e DEF ForgetFile, SnapshotReferenced
    <2>4. QED
        BY <2>1, <2>2, <2>3 DEF ExportInv
<1>14. ASSUME NEW failed \in BOOLEAN, EndAction(failed) PROVE ExportInv'
    BY <1>14, <1>e DEF EndAction, ExportInv, InAction, disk, history, UnusedNew,
       PublishedKnown, ChangesExported, SnapshotReferenced, Has
<1>15. ASSUME NEW when \in ExportWhen, SendNewFiles(when) PROVE ExportInv'
    <2>1. /\ phase = "tidy" /\ phase' = "export" /\ busy' = NoFile
          /\ UNCHANGED <<published, packages, checksums, flags, snapshot, bare, damaged>>
          /\ UNCHANGED <<error, interrupted, command>>
        BY <1>15 DEF SendNewFiles, disk
    <2>2. \/ dirty' = {} /\ unexported' = unexported \cup dirty
          \/ /\ UNCHANGED <<dirty, unexported>>
             /\ ~error => modified' = modified
        BY <1>15 DEF SendNewFiles, ToExport
    <2>3. PublishedKnown'
        <3>1. \A t \in Target \ (unexported' \cup damaged') :
                 t \notin unexported \cup damaged /\ (t \notin dirty' => t \notin dirty)
            BY <2>1, <2>2
        <3>2. QED
            BY <1>e, <2>1, <3>1 DEF PublishedKnown
    <2>4. ChangesExported'
        BY <1>e, <2>1, <2>2 DEF ChangesExported
    <2>5. SnapshotReferenced'
        BY <1>e, <2>1 DEF SnapshotReferenced
    <2>6. QED
        BY <2>3, <2>4, <2>5 DEF ExportInv
<1>16. ASSUME NEW t \in Target, Export(t) PROVE ExportInv'
    <2>1. PublishedKnown'
        <3>1. phase' = "export" /\ UNCHANGED <<packages, checksums, flags, damaged>>
            BY <1>16 DEF Export
        <3>2. CASE UNCHANGED <<published, dirty, unexported>>
            BY <1>e, <3>1, <3>2 DEF PublishedKnown
        <3>3. CASE /\ published' = [published EXCEPT ![t] = packages[t]]
                   /\ dirty' = dirty \ {t} /\ unexported' = unexported \ {t}
            <4>1. /\ published'[t] = packages[t]
                  /\ \A u \in Target \ {t} : published'[u] = published[u]
                BY <1>0, <3>3 DEF TypeOK
            <4>2. t \notin damaged => \A f \in FilesIn(packages[t]) : f \in checksums
                <5>1. FilesIn(packages[t]) \subseteq FileKey
                    BY <1>0, FilesInType DEF TypeOK
                <5>2. QED
                    BY <5>1, ListedReferenced
            <4>3. QED
                BY <1>e, <3>1, <3>3, <4>1, <4>2 DEF PublishedKnown
        <3>4. QED
            BY <1>16, <3>2, <3>3 DEF Export
    <2>2. ChangesExported'
        BY <1>16, <1>e DEF Export, ChangesExported
    <2>3. SnapshotReferenced'
        BY <1>16, <1>e DEF Export, SnapshotReferenced
    <2>4. QED
        BY <2>1, <2>2, <2>3 DEF ExportInv
<1>17. ASSUME EndExport PROVE ExportInv'
    BY <1>0, <1>17, <1>e, <1>k DEF EndExport, ExportInv, InAction, disk, history,
       PublishedKnown, ChangesExported, SnapshotReferenced, Has, WorkPlaced
<1>18. ASSUME EndRun PROVE ExportInv'
    BY <1>18, <1>e DEF EndRun, ExportInv, InAction, NoFlags, NoHook, PublishedKnown,
       ChangesExported, SnapshotReferenced, Has
<1>19. ASSUME Interrupt PROVE ExportInv'
    BY <1>19, <1>e DEF Interrupt, ExportInv, InAction, disk, PublishedKnown,
       ChangesExported, SnapshotReferenced, Has
<1>20. ASSUME Crash PROVE ExportInv'
    BY <1>20, <1>e DEF Crash, ExportInv, InAction, NoFlags, NoHook, PublishedKnown,
       ChangesExported, SnapshotReferenced, Has
<1>21. QED
    BY <1>1, <1>2, <1>3, <1>4, <1>5, <1>6, <1>7, <1>8, <1>9, <1>10, <1>11, <1>12, <1>13,
       <1>14, <1>15, <1>16, <1>17, <1>18, <1>19, <1>20 DEF Next, Records

-----------------------------------------------------------------------------
(* Garbage                                                                 *)

LEMMA GarbageStep == TypeOK /\ Kept /\ GarbageMarked /\ Next => GarbageMarked'
<1> SUFFICES ASSUME TypeOK, Kept, GarbageMarked, Next PROVE GarbageMarked'
    OBVIOUS
<1>0. TypeOK /\ TypeOK'
    BY StepType
<1>k. WorkPlaced /\ FlagsTrue
    BY DEF Kept
<1>1. ASSUME NEW c \in Command, StartRun(c) PROVE GarbageMarked'
    <2>1. \A g : Used(g)' <=> Used(g)
        BY <1>1, UsedSame DEF StartRun, NoFlags, NoHook, Unused, Command, NoSnapshot
    <2>2. QED
        BY <1>1, <2>1 DEF StartRun, GarbageMarked, OnTheWayOut, Has, Walked, NoFlags,
           NoHook, Unused, Command, NoSnapshot
<1>2. ASSUME NEW f \in FileKey, CopyFile(f) PROVE GarbageMarked'
    <2>1. \A g : Used(g)' <=> Used(g)
        BY <1>2, UsedSame DEF CopyFile
    <2>2. /\ phase = "action" /\ phase' = phase
          /\ UNCHANGED <<checksums, error, interrupted, flags, garbage, lossy>>
        BY <1>2 DEF CopyFile, InAction, history
    <2>3. QED
        BY <2>1, <2>2 DEF GarbageMarked, OnTheWayOut, Has
<1>3. ASSUME NEW f \in FileKey, ExpectFile(f) PROVE GarbageMarked'
    <2>1. \A g : Used(g)' <=> Used(g)
        BY <1>3, UsedSame DEF ExpectFile, disk, history
    <2>2. QED
        BY <1>3, <2>1 DEF ExpectFile, GarbageMarked, OnTheWayOut, Has, Walked, disk,
           history, InAction
<1>4. ASSUME NEW f \in FileKey, RecopyFile(f) PROVE GarbageMarked'
    <2>1. \A g : Used(g)' <=> Used(g)
        BY <1>4, UsedSame DEF RecopyFile, process
    <2>2. QED
        BY <1>4, <2>1 DEF RecopyFile, GarbageMarked, OnTheWayOut, Has, Walked, process
<1>5. ASSUME AddChecksums PROVE GarbageMarked'
    <2>1. \A g : Used(g)' <=> Used(g)
        BY <1>5, UsedSame DEF AddChecksums
    <2>2. QED
        BY <1>5, <2>1, <1>0 DEF AddChecksums, GarbageMarked, OnTheWayOut, Has, Walked,
           InAction, TypeOK
<1>6. ASSUME NEW t \in Target, NEW p \in Package, Records(t, p) PROVE GarbageMarked'
    <2>1. /\ phase = "action" /\ ~error' => ~error
          /\ UNCHANGED <<checksums, snapshot, phase, interrupted, garbage, lossy>>
        BY <1>6, RecordsFrame
    <2>2. /\ \A u \in Target \ {t} : refs'[u] = refs[u]
          /\ \A f \in FileKey :
                 /\ refs[t][f] > 0 /\ ~(refs'[t][f] > 0) => Has("UNREFERENCED", f)'
                 /\ Has("ADDED", f)' <=> Has("ADDED", f)
        BY <1>6, RecordsReferences
    <2>3. \A f \in FileKey : Has("UNREFERENCED", f) => Has("UNREFERENCED", f)'
        BY <1>6, RecordsReferences
    <2>4. \A f \in FileKey : Used(f) => Used(f)' \/ Has("UNREFERENCED", f)'
        BY <2>1, <2>2 DEF Used
    <2>5. \A f \in checksums : f \in FileKey
        BY <1>0 DEF TypeOK
    <2>6. phase = "action" /\ (~error' => ~error)
        BY <1>6, RecordsFrame
    <2>7. QED
        BY <2>1, <2>2, <2>3, <2>4, <2>5, <2>6 DEF GarbageMarked, OnTheWayOut
<1>7. ASSUME NEW t \in Target, GenerateSnapshot(t) PROVE GarbageMarked'
    BY <1>7, <1>0, InFiles DEF GenerateSnapshot, GarbageMarked, OnTheWayOut, Has, InAction,
       TypeOK, Used
<1>8. ASSUME NEW f \in FileKey, ReferenceSnapshotFile(f) PROVE GarbageMarked'
    BY <1>8, <1>0, InFiles DEF ReferenceSnapshotFile, GarbageMarked, OnTheWayOut, Has,
       InAction, TypeOK, Used
<1>9. ASSUME NEW f \in FileKey, UnreferenceSnapshotFile(f) PROVE GarbageMarked'
    BY <1>9, <1>0, InFiles DEF UnreferenceSnapshotFile, GarbageMarked, OnTheWayOut, Has,
       Dereferenced, InAction, TypeOK, Used
<1>10. ASSUME NEW f \in FileKey, DeleteUnreferenced(f) PROVE GarbageMarked'
    <2>1. \A g : Used(g)' <=> Used(g)
        BY <1>10, UsedSame DEF DeleteUnreferenced, DeletePoolFile
    <2>2. CASE /\ busy = NoFile /\ busy' = f /\ UNCHANGED todo
               /\ UNCHANGED <<checksums, error, interrupted, flags, garbage, lossy, phase, command>>
        <3>1. \A g : g \in Walked => g \in Walked'
            BY <2>2 DEF Walked
        <3>2. QED
            BY <2>1, <2>2, <3>1 DEF GarbageMarked, OnTheWayOut, Has
    <2>3. CASE lossy'
        BY <2>3 DEF GarbageMarked
    <2>4. QED
        BY <1>10, <2>2, <2>3 DEF DeleteUnreferenced, DeletePoolFile, InAction
<1>11. ASSUME NEW f \in FileKey, TidyAdded(f) PROVE GarbageMarked'
    <2>1. \A g : Used(g)' <=> Used(g)
        BY <1>11, UsedSame DEF TidyAdded, DeletePoolFile
    <2>2. QED
        BY <1>11, <2>1 DEF TidyAdded, GarbageMarked, OnTheWayOut, Has, Walked,
           DeletePoolFile
<1>12. ASSUME NEW f \in FileKey, RemoveUnreferenced(f) PROVE GarbageMarked'
    <2>1. \A g : Used(g)' <=> Used(g)
        BY <1>12, UsedSame DEF RemoveUnreferenced, DeletePoolFile
    <2>2. CASE /\ busy = NoFile /\ busy' = f /\ UNCHANGED todo
               /\ UNCHANGED <<checksums, error, interrupted, flags, garbage, lossy, phase, command>>
        <3>1. \A g : g \in Walked => g \in Walked'
            BY <2>2 DEF Walked
        <3>2. QED
            BY <2>1, <2>2, <3>1 DEF GarbageMarked, OnTheWayOut, Has
    <2>3. CASE lossy'
        BY <2>3 DEF GarbageMarked
    <2>4. QED
        BY <1>12, <2>2, <2>3 DEF RemoveUnreferenced, DeletePoolFile, InAction
<1>13. ASSUME ForgetFile PROVE GarbageMarked'
    <2>1. \A g : Used(g)' <=> Used(g)
        BY <1>13, UsedSame DEF ForgetFile
    <2>2. CASE lossy'
        BY <2>2 DEF GarbageMarked
    <2>3. CASE /\ checksums' = checksums \ {busy} /\ todo' = todo \ {busy} /\ busy' = NoFile
               /\ flags' = [flags EXCEPT ![busy] = (@ \cup {"DELETED"}) \ {"UNREFERENCED"}]
               /\ UNCHANGED <<error, interrupted, garbage, lossy, phase, command>>
        <3>1. \A g \in FileKey \ {busy} : flags'[g] = flags[g]
            BY <1>0, <2>3 DEF TypeOK
        <3>2. \A g : g \in Walked /\ g # busy => g \in Walked'
            BY <2>3 DEF Walked
        <3>3. \A g \in checksums' : g \in checksums /\ g \in FileKey \ {busy}
            BY <1>0, <2>3 DEF TypeOK
        <3>4. QED
            BY <2>1, <2>3, <3>1, <3>2, <3>3 DEF GarbageMarked, OnTheWayOut, Has
    <2>4. CASE error'
        BY <2>4 DEF GarbageMarked
    <2>5. QED
        BY <1>13, <2>2, <2>3, <2>4 DEF ForgetFile
<1>14. ASSUME NEW failed \in BOOLEAN, EndAction(failed) PROVE GarbageMarked'
    <2>1. \A g : Used(g)' <=> Used(g)
        BY <1>14, UsedSame DEF EndAction, disk, history, UnusedNew
    <2>2. QED
        BY <1>14, <2>1, <1>0, <1>k DEF EndAction, GarbageMarked, OnTheWayOut, Has, Walked,
           disk, history, UnusedNew, InAction, TypeOK, FlagsTrue
<1>15. ASSUME NEW when \in ExportWhen, SendNewFiles(when) PROVE GarbageMarked'
    <2>1. \A g : Used(g)' <=> Used(g)
        BY <1>15, UsedSame DEF SendNewFiles, disk, history
    <2>2. QED
        BY <1>15, <2>1 DEF SendNewFiles, GarbageMarked, OnTheWayOut, Has, Walked, disk,
           history
<1>16. ASSUME NEW t \in Target, Export(t) PROVE GarbageMarked'
    <2>1. \A g : Used(g)' <=> Used(g)
        BY <1>16, UsedSame DEF Export
    <2>2. QED
        BY <1>16, <2>1 DEF Export, GarbageMarked, OnTheWayOut, Has, Walked
<1>17. ASSUME EndExport PROVE GarbageMarked'
    <2>1. \A g : Used(g)' <=> Used(g)
        BY <1>17, UsedSame DEF EndExport, disk, history
    <2>2. QED
        BY <1>17, <2>1, <1>0, <1>k DEF EndExport, GarbageMarked, OnTheWayOut, Has, Walked,
           disk, history, InAction, TypeOK, FlagsTrue
<1>18. ASSUME EndRun PROVE GarbageMarked'
    <2>1. \A g : Used(g)' <=> Used(g)
        BY <1>18, UsedSame DEF EndRun, NoFlags, NoHook
    <2>2. QED
        BY <1>18, <2>1 DEF EndRun, GarbageMarked, OnTheWayOut, Has, Walked, NoFlags, NoHook
<1>19. ASSUME Interrupt PROVE GarbageMarked'
    BY <1>19 DEF Interrupt, GarbageMarked, OnTheWayOut, Has
<1>20. ASSUME Crash PROVE GarbageMarked'
    BY <1>20 DEF Crash, GarbageMarked, OnTheWayOut, Has
<1>21. QED
    BY <1>1, <1>2, <1>3, <1>4, <1>5, <1>6, <1>7, <1>8, <1>9, <1>10, <1>11, <1>12, <1>13,
       <1>14, <1>15, <1>16, <1>17, <1>18, <1>19, <1>20 DEF Next, Records

-----------------------------------------------------------------------------
(* What the outhook is told                                                *)

LEMMA PoolStep == TypeOK /\ Kept /\ PoolKnown /\ Next => PoolKnown'
<1> SUFFICES ASSUME TypeOK, Kept, PoolKnown, Next PROVE PoolKnown'
    OBVIOUS
<1>0. TypeOK /\ TypeOK'
    BY StepType
<1>k. WorkPlaced /\ DoomedUnused /\ AddedUnregistered /\ RegisteredThere
    BY DEF Kept
<1>1. ASSUME NEW c \in Command, StartRun(c) PROVE PoolKnown'
    BY <1>1, <1>k DEF StartRun, NoFlags, NoHook, Unused, Command, NoSnapshot, PoolKnown,
       Adding, Deleting, InAction, history, WorkPlaced
<1>2. ASSUME NEW f \in FileKey, CopyFile(f) PROVE PoolKnown'
    BY <1>2 DEF CopyFile, PoolKnown, Adding, Deleting, InAction, history
<1>3. ASSUME NEW f \in FileKey, ExpectFile(f) PROVE PoolKnown'
    BY <1>3 DEF ExpectFile, disk, history, PoolKnown, Adding, Deleting, InAction
<1>4. ASSUME NEW f \in FileKey, RecopyFile(f) PROVE PoolKnown'
    BY <1>4 DEF RecopyFile, process, PoolKnown, Adding, Deleting, InAction, history
<1>5. ASSUME AddChecksums PROVE PoolKnown'
    <2>1. Adding
        BY <1>5 DEF AddChecksums, Adding
    <2>2. ~lossy' =>
            /\ ~lossy /\ checksums' = checksums \cup {busy} /\ busy' = NoFile
            /\ UNCHANGED <<pool, halfdeleted>>
        BY <1>5 DEF AddChecksums
    <2>3. QED
        BY <2>1, <2>2 DEF PoolKnown, Adding
<1>6. ASSUME NEW t \in Target, NEW p \in Package, Records(t, p) PROVE PoolKnown'
    <2>1. UNCHANGED <<checksums, pool, phase, command, busy, halfdeleted, lossy>>
        BY <1>6, RecordsFrame
    <2>2. QED
        BY <2>1 DEF PoolKnown, Adding, Deleting
<1>7. ASSUME NEW t \in Target, GenerateSnapshot(t) PROVE PoolKnown'
    BY <1>7 DEF GenerateSnapshot, PoolKnown, Adding, Deleting, InAction, history
<1>8. ASSUME NEW f \in FileKey, ReferenceSnapshotFile(f) PROVE PoolKnown'
    BY <1>8 DEF ReferenceSnapshotFile, PoolKnown, Adding, Deleting, InAction, history
<1>9. ASSUME NEW f \in FileKey, UnreferenceSnapshotFile(f) PROVE PoolKnown'
    BY <1>9 DEF UnreferenceSnapshotFile, Dereferenced, PoolKnown, Adding, Deleting,
       InAction, history
<1>10. ASSUME NEW f \in FileKey, DeleteUnreferenced(f) PROVE PoolKnown'
    <2>1. f # NoFile /\ Deleting /\ Deleting' /\ ~Adding'
        BY <1>10 DEF DeleteUnreferenced, InAction, DeletePoolFile, Deleting, Adding
    <2>2. ~lossy' =>
            /\ ~lossy /\ busy = NoFile /\ busy' = f /\ pool' = pool \ {f}
            /\ UNCHANGED <<checksums, halfdeleted>>
        BY <1>10 DEF DeleteUnreferenced, InAction, DeletePoolFile
    <2>3. QED
        BY <2>1, <2>2 DEF PoolKnown
<1>11. ASSUME NEW f \in FileKey, TidyAdded(f) PROVE PoolKnown'
    BY <1>11 DEF TidyAdded, DeletePoolFile, PoolKnown, Adding, Deleting, InAction, history
<1>12. ASSUME NEW f \in FileKey, RemoveUnreferenced(f) PROVE PoolKnown'
    <2>1. f # NoFile /\ Deleting /\ Deleting' /\ ~Adding'
        BY <1>12 DEF RemoveUnreferenced, InAction, DeletePoolFile, Deleting, Adding
    <2>2. ~lossy' =>
            /\ ~lossy /\ busy = NoFile /\ busy' = f /\ pool' = pool \ {f}
            /\ UNCHANGED <<checksums, halfdeleted>>
        BY <1>12 DEF RemoveUnreferenced, InAction, DeletePoolFile
    <2>3. QED
        BY <2>1, <2>2 DEF PoolKnown
<1>13. ASSUME ForgetFile PROVE PoolKnown'
    <2>1. busy # NoFile /\ busy' = NoFile /\ Deleting /\ ~Adding'
        BY <1>13 DEF ForgetFile, Deleting, Adding
    <2>2. ~lossy' =>
            /\ ~lossy /\ UNCHANGED pool
            /\ \/ checksums' = checksums \ {busy} /\ halfdeleted' = halfdeleted \ {busy}
               \/ busy \notin checksums /\ UNCHANGED <<checksums, halfdeleted>>
        BY <1>13 DEF ForgetFile
    <2>3. busy \notin checksums => checksums = checksums \ {busy}
        OBVIOUS
    <2>4. QED
        BY <2>1, <2>2, <2>3 DEF PoolKnown
<1>14. ASSUME NEW failed \in BOOLEAN, EndAction(failed) PROVE PoolKnown'
    BY <1>14 DEF EndAction, disk, history, UnusedNew, PoolKnown, Adding, Deleting, InAction
<1>15. ASSUME NEW when \in ExportWhen, SendNewFiles(when) PROVE PoolKnown'
    BY <1>15 DEF SendNewFiles, disk, history, PoolKnown, Adding, Deleting, InAction
<1>16. ASSUME NEW t \in Target, Export(t) PROVE PoolKnown'
    BY <1>16 DEF Export, PoolKnown, Adding, Deleting, InAction, history
<1>17. ASSUME EndExport PROVE PoolKnown'
    BY <1>17, <1>k DEF EndExport, disk, history, PoolKnown, Adding, Deleting, InAction,
       WorkPlaced
<1>18. ASSUME EndRun PROVE PoolKnown'
    BY <1>18 DEF EndRun, NoFlags, NoHook, PoolKnown, Adding, Deleting, InAction, history
<1>19. ASSUME Interrupt PROVE PoolKnown'
    BY <1>19 DEF Interrupt, disk, PoolKnown, Adding, Deleting, InAction, history
<1>20. ASSUME Crash PROVE PoolKnown'
    BY <1>20 DEF Crash, NoFlags, NoHook, PoolKnown, Adding, Deleting, InAction, history
<1>21. QED
    BY <1>1, <1>2, <1>3, <1>4, <1>5, <1>6, <1>7, <1>8, <1>9, <1>10, <1>11, <1>12, <1>13,
       <1>14, <1>15, <1>16, <1>17, <1>18, <1>19, <1>20 DEF Next, Records

LEMMA AddedStep == TypeOK /\ Kept /\ PoolKnown /\ AddedInTime /\ Next => AddedInTime'
<1> SUFFICES ASSUME TypeOK, Kept, PoolKnown, AddedInTime, Next PROVE AddedInTime'
    OBVIOUS
<1>0. TypeOK /\ TypeOK'
    BY StepType
<1>k. WorkPlaced /\ FlagsTrue /\ DoomedUnused
    BY DEF Kept
<1>1. ASSUME NEW c \in Command, StartRun(c) PROVE AddedInTime'
    BY <1>1 DEF StartRun, NoFlags, NoHook, Unused, Command, NoSnapshot, AddedInTime, Has,
       InAction, history, process
<1>2. ASSUME NEW f \in FileKey, CopyFile(f) PROVE AddedInTime'
    BY <1>2 DEF CopyFile, AddedInTime, Has, InAction, history, process
<1>3. ASSUME NEW f \in FileKey, ExpectFile(f) PROVE AddedInTime'
    BY <1>3 DEF ExpectFile, disk, history, AddedInTime, Has, InAction, process
<1>4. ASSUME NEW f \in FileKey, RecopyFile(f) PROVE AddedInTime'
    BY <1>4 DEF RecopyFile, process, AddedInTime, Has, InAction, history
<1>5. ASSUME AddChecksums PROVE AddedInTime'
    BY <1>5 DEF AddChecksums, AddedInTime, Has, InAction, history, process
<1>6. ASSUME NEW t \in Target, NEW p \in Package, Records(t, p) PROVE AddedInTime'
    <2>1. phase = "action" /\ phase' = phase
        BY <1>6, RecordsFrame
    <2>2. QED
        BY <2>1 DEF AddedInTime
<1>7. ASSUME NEW t \in Target, GenerateSnapshot(t) PROVE AddedInTime'
    BY <1>7 DEF GenerateSnapshot, AddedInTime, Has, InAction, history, process
<1>8. ASSUME NEW f \in FileKey, ReferenceSnapshotFile(f) PROVE AddedInTime'
    BY <1>8 DEF ReferenceSnapshotFile, AddedInTime, Has, InAction, history, process
<1>9. ASSUME NEW f \in FileKey, UnreferenceSnapshotFile(f) PROVE AddedInTime'
    BY <1>9 DEF UnreferenceSnapshotFile, AddedInTime, Has, InAction, history, process
<1>10. ASSUME NEW f \in FileKey, DeleteUnreferenced(f) PROVE AddedInTime'
    BY <1>10 DEF DeleteUnreferenced, DeletePoolFile, AddedInTime, Has, InAction, history,
       process
<1>11. ASSUME NEW f \in FileKey, TidyAdded(f) PROVE AddedInTime'
    <2>1. \A g : Used(g)' <=> Used(g)
        BY <1>11, UsedSame DEF TidyAdded, DeletePoolFile
    <2>2. QED
        BY <1>11, <2>1 DEF TidyAdded, DeletePoolFile, AddedInTime, Has, InAction, Walked
<1>12. ASSUME NEW f \in FileKey, RemoveUnreferenced(f) PROVE AddedInTime'
    <2>1. \A g : Used(g)' <=> Used(g)
        BY <1>12, UsedSame DEF RemoveUnreferenced, DeletePoolFile
    <2>2. CASE lossy'
        BY <2>2 DEF AddedInTime
    <2>3. CASE /\ f \in todo /\ busy = NoFile /\ busy' = f /\ phase = "cleanup"
               /\ UNCHANGED <<todo, lossy, interrupted, flags, phase>>
        <3>1. \A g : g \in Walked' => g \in Walked
            BY <2>3 DEF Walked
        <3>2. QED
            BY <2>3, <3>1 DEF AddedInTime, Has
    <2>4. QED
        BY <1>12, <2>2, <2>3 DEF RemoveUnreferenced, DeletePoolFile
<1>13. ASSUME ForgetFile PROVE AddedInTime'
    <2>1. \A g : Used(g)' <=> Used(g)
        BY <1>13, UsedSame DEF ForgetFile
    <2>2. CASE lossy'
        BY <2>2 DEF AddedInTime
    <2>3. CASE /\ checksums' = checksums \ {busy} /\ todo' = todo \ {busy} /\ busy' = NoFile
               /\ flags' = [flags EXCEPT ![busy] = (@ \cup {"DELETED"}) \ {"UNREFERENCED"}]
               /\ UNCHANGED <<lossy, interrupted, phase>>
        <3>1. \A g \in FileKey :
                flags'[g] \in {flags[g], (flags[g] \cup {"DELETED"}) \ {"UNREFERENCED"}}
            BY <1>0, <2>3 DEF TypeOK
        <3>2. \A g \in FileKey : Has("ADDED", g)' => Has("ADDED", g)
            BY <3>1 DEF Has
        <3>3. \A g : g # busy => (g \in Walked' <=> g \in Walked)
            BY <2>3 DEF Walked
        <3>4. busy \notin Walked' /\ busy \notin checksums'
            BY <1>0, <2>3 DEF Walked, TypeOK
        <3>5. QED
            BY <2>1, <2>3, <3>2, <3>3, <3>4 DEF AddedInTime
    <2>4. CASE /\ busy \notin checksums /\ todo' = todo \ {busy} /\ busy' = NoFile
               /\ UNCHANGED <<checksums, flags, lossy, interrupted, phase>>
        <3>1. \A g : g # busy => (g \in Walked' <=> g \in Walked)
            BY <2>4 DEF Walked
        <3>2. busy \notin Walked'
            BY <1>0, <2>4 DEF Walked, TypeOK
        <3>3. \A g \in FileKey : Has("ADDED", g)' <=> Has("ADDED", g)
            BY <2>4 DEF Has
        <3>4. QED
            BY <2>1, <2>4, <3>1, <3>2, <3>3 DEF AddedInTime
    <2>5. QED
        BY <1>13, <2>2, <2>3, <2>4 DEF ForgetFile
<1>14. ASSUME NEW failed \in BOOLEAN, EndAction(failed) PROVE AddedInTime'
    <2>1. \A g : Used(g)' <=> Used(g)
        BY <1>14, UsedSame DEF EndAction, disk, history, UnusedNew
    <2>2. QED
        BY <1>14, <2>1, <1>0, <1>k DEF EndAction, disk, history, UnusedNew, AddedInTime,
           Has, InAction, Walked, TypeOK, WorkPlaced, FlagsTrue
<1>15. ASSUME NEW when \in ExportWhen, SendNewFiles(when) PROVE AddedInTime'
    <2>1. \A g : Used(g)' <=> Used(g)
        BY <1>15, UsedSame DEF SendNewFiles, disk, history
    <2>2. QED
        BY <1>15, <2>1 DEF SendNewFiles, disk, history, AddedInTime, Has, InAction, Walked
<1>16. ASSUME NEW t \in Target, Export(t) PROVE AddedInTime'
    <2>1. \A g : Used(g)' <=> Used(g)
        BY <1>16, UsedSame DEF Export
    <2>2. QED
        BY <1>16, <2>1 DEF Export, AddedInTime, Has, InAction, Walked
<1>17. ASSUME EndExport PROVE AddedInTime'
    <2>1. \A g : Used(g)' <=> Used(g)
        BY <1>17, UsedSame DEF EndExport, disk, history
    <2>2. QED
        BY <1>17, <2>1, <1>0, <1>k DEF EndExport, disk, history, AddedInTime, Has, InAction,
           Walked, TypeOK, WorkPlaced, FlagsTrue
<1>18. ASSUME EndRun PROVE AddedInTime'
    BY <1>18 DEF EndRun, NoFlags, NoHook, AddedInTime, Has, InAction, history, process
<1>19. ASSUME Interrupt PROVE AddedInTime'
    <2>1. \A g : Used(g)' <=> Used(g)
        BY <1>19, UsedSame DEF Interrupt, disk
    <2>2. QED
        BY <1>19, <2>1 DEF Interrupt, disk, AddedInTime, Has, InAction, Walked
<1>20. ASSUME Crash PROVE AddedInTime'
    BY <1>20 DEF Crash, NoFlags, NoHook, AddedInTime, Has, InAction, history, process
<1>21. QED
    BY <1>1, <1>2, <1>3, <1>4, <1>5, <1>6, <1>7, <1>8, <1>9, <1>10, <1>11, <1>12, <1>13,
       <1>14, <1>15, <1>16, <1>17, <1>18, <1>19, <1>20 DEF Next, Records

LEMMA MirrorStep ==
    TypeOK /\ Kept /\ PoolKnown /\ AddedInTime /\ MirrorTold /\ Next => MirrorTold'
<1> SUFFICES ASSUME TypeOK, Kept, PoolKnown, AddedInTime, MirrorTold, Next PROVE MirrorTold'
    OBVIOUS
<1>0. TypeOK /\ TypeOK'
    BY StepType
<1>k. /\ WorkPlaced /\ FlagsTrue /\ DoomedUnused
      /\ AddedUnregistered /\ RegisteredThere
    BY DEF Kept
<1>1. ASSUME NEW c \in Command, StartRun(c) PROVE MirrorTold'
    BY <1>1, <1>k DEF StartRun, NoFlags, NoHook, Unused, Command, NoSnapshot, MirrorTold,
       Adding, Added, Has, InAction, history, WorkPlaced
<1>2. ASSUME NEW f \in FileKey, CopyFile(f) PROVE MirrorTold'
    BY <1>2, <1>k, <1>0 DEF CopyFile, MirrorTold, Adding, Added, Has, InAction, history,
       WorkPlaced, TypeOK, PoolKnown, FlagsTrue
<1>3. ASSUME NEW f \in FileKey, ExpectFile(f) PROVE MirrorTold'
    BY <1>3, <1>k, <1>0 DEF ExpectFile, disk, history, MirrorTold, Adding, Added, Has,
       InAction, WorkPlaced, TypeOK, PoolKnown, FlagsTrue
<1>4. ASSUME NEW f \in FileKey, RecopyFile(f) PROVE MirrorTold'
    BY <1>4, <1>k, <1>0 DEF RecopyFile, process, MirrorTold, Adding, Added, Has, InAction,
       history, WorkPlaced, TypeOK, PoolKnown, FlagsTrue
<1>5. ASSUME AddChecksums PROVE MirrorTold'
    <2>1. CASE lossy'
        BY <2>1 DEF MirrorTold
    <2>2. CASE ~lossy'
        <3>1. /\ ~lossy /\ busy \in FileKey /\ Adding /\ ~Adding'
              /\ phase = "action" /\ command = "include"
              /\ flags' = [flags EXCEPT ![busy] = (@ \cup {"ADDED"}) \ {"DELETED"}]
              /\ UNCHANGED <<pool, mirror, hook, phase, command, interrupted>>
            BY <1>0, <1>5, <2>2 DEF AddChecksums, Adding, TypeOK
        <3>2. /\ flags'[busy] = (flags[busy] \cup {"ADDED"}) \ {"DELETED"}
              /\ \A g \in FileKey \ {busy} : flags'[g] = flags[g]
            BY <1>0, <3>1 DEF TypeOK
        <3>3. Added' = Added \cup {busy}
            BY <3>1, <3>2 DEF Added, Has
        <3>4. QED
            BY <3>1, <3>3 DEF MirrorTold
    <2>3. QED
        BY <2>1, <2>2
<1>6. ASSUME NEW t \in Target, NEW p \in Package, Records(t, p) PROVE MirrorTold'
    <2>1. Added' = Added
        BY <1>6, RecordsReferences DEF Added
    <2>2. UNCHANGED <<pool, mirror, phase, command, interrupted, busy, hook, lossy>>
        BY <1>6, RecordsFrame
    <2>3. QED
        BY <2>1, <2>2 DEF MirrorTold, Adding
<1>7. ASSUME NEW t \in Target, GenerateSnapshot(t) PROVE MirrorTold'
    BY <1>7 DEF GenerateSnapshot, MirrorTold, Adding, Added, Has, InAction, history
<1>8. ASSUME NEW f \in FileKey, ReferenceSnapshotFile(f) PROVE MirrorTold'
    BY <1>8 DEF ReferenceSnapshotFile, MirrorTold, Adding, Added, Has, InAction, history
<1>9. ASSUME NEW f \in FileKey, UnreferenceSnapshotFile(f) PROVE MirrorTold'
    <2>1. Added' = Added
        <3>1. \A g \in FileKey :
                 flags'[g] \in {flags[g], flags[g] \cup {"UNREFERENCED"}}
            BY <1>0, <1>9 DEF UnreferenceSnapshotFile, Dereferenced
        <3>2. \A g \in FileKey : Has("ADDED", g)' <=> Has("ADDED", g)
            BY <3>1 DEF Has
        <3>3. QED
            BY <3>2 DEF Added
    <2>2. QED
        BY <1>9, <2>1 DEF UnreferenceSnapshotFile, MirrorTold, Adding, InAction, history
<1>10. ASSUME NEW f \in FileKey, DeleteUnreferenced(f) PROVE MirrorTold'
    <2>1. Added = {} /\ Added' = {}
        BY <1>10, <1>k DEF DeleteUnreferenced, DeletePoolFile, InAction, FlagsTrue, Added, Has
    <2>2. ~lossy' => /\ ~lossy /\ pool' = pool \ {f}
                     /\ hook' = [hook EXCEPT !.del = @ \cup {f}]
        BY <1>10 DEF DeleteUnreferenced, DeletePoolFile
    <2>3. /\ phase = "action" /\ command = "deleteunreferenced" /\ ~Adding /\ ~Adding'
          /\ UNCHANGED <<phase, command, mirror, interrupted>>
        BY <1>10 DEF DeleteUnreferenced, DeletePoolFile, InAction, Adding
    <2>4. hook' = [hook EXCEPT !.del = @ \cup {f}]
             => hook'.new = hook.new /\ hook'.del = hook.del \cup {f}
        BY <1>0 DEF TypeOK
    <2>5. QED
        BY <2>1, <2>2, <2>3, <2>4 DEF MirrorTold
<1>11. ASSUME NEW f \in FileKey, TidyAdded(f) PROVE MirrorTold'
    <2>1. f \in Added /\ Added' = Added
        BY <1>11, <1>k DEF TidyAdded, DeletePoolFile, DoomedUnused, Deleting, Walked, Added, Has
    <2>2. ~lossy' => ~lossy /\ pool' = pool \ {f}
        BY <1>11 DEF TidyAdded, DeletePoolFile
    <2>3. /\ phase = "tidy" /\ ~Adding /\ ~Adding'
          /\ UNCHANGED <<phase, command, mirror, interrupted, hook>>
        BY <1>11 DEF TidyAdded, DeletePoolFile, Adding
    <2>4. QED
        BY <2>1, <2>2, <2>3 DEF MirrorTold
<1>12. ASSUME NEW f \in FileKey, RemoveUnreferenced(f) PROVE MirrorTold'
    <2>1. SUFFICES ASSUME ~lossy', ~interrupted', ~KeepUnusedNew PROVE MirrorTold'
        BY DEF MirrorTold
    <2>2. ~lossy /\ ~interrupted /\ phase = "cleanup" /\ f \in Walked
        <3>1. lossy' = TRUE \/ lossy' = lossy
            BY <1>12 DEF RemoveUnreferenced, DeletePoolFile
        <3>2. ~interrupted /\ phase = "cleanup" /\ f \in Walked
            BY <1>12 DEF RemoveUnreferenced, Walked
        <3>3. QED
            BY <2>1, <3>1, <3>2
    <2>3. f \notin Added
        BY <2>1, <2>2 DEF AddedInTime, Added
    <2>4. /\ Added' = Added /\ pool' = pool \ {f}
          /\ UNCHANGED <<phase, command, mirror>>
        BY <1>12, <2>1 DEF RemoveUnreferenced, DeletePoolFile, Added, Has
    <2>5. hook' = [hook EXCEPT !.del = @ \cup {f}]
        <3>1. "ADDED" \notin flags[f]
            BY <2>3 DEF Added, Has
        <3>2. QED
            BY <1>12, <3>1 DEF RemoveUnreferenced, DeletePoolFile
    <2>6. hook'.new = hook.new /\ hook'.del = hook.del \cup {f}
        BY <1>0, <2>5 DEF TypeOK
    <2>7. QED
        BY <2>1, <2>2, <2>3, <2>4, <2>6 DEF MirrorTold
<1>13. ASSUME ForgetFile PROVE MirrorTold'
    <2>1. \A g \in FileKey : Has("ADDED", g)' <=> Has("ADDED", g)
        <3>1. busy \in FileKey
            BY <1>0, <1>13 DEF ForgetFile, TypeOK
        <3>2. \A g \in FileKey :
                flags'[g] \in {flags[g], (flags[g] \cup {"DELETED"}) \ {"UNREFERENCED"}}
            BY ZenonT(40), <1>0, <1>13, <3>1 DEF ForgetFile, TypeOK
        <3>3. QED
            BY <3>2 DEF Has
    <2>2. Added' = Added
        BY <2>1 DEF Added
    <2>3. /\ ~Adding /\ ~Adding'
          /\ UNCHANGED <<phase, command, mirror, pool, hook, interrupted>>
        BY <1>13 DEF ForgetFile, Adding
    <2>4. lossy' = TRUE \/ lossy' = lossy
        BY <1>13 DEF ForgetFile
    <2>5. QED
        BY <2>2, <2>3, <2>4 DEF MirrorTold
<1>14. ASSUME NEW failed \in BOOLEAN, EndAction(failed) PROVE MirrorTold'
    BY <1>14 DEF EndAction, disk, history, UnusedNew, MirrorTold, Adding, Added, Has,
       InAction
<1>15. ASSUME NEW when \in ExportWhen, SendNewFiles(when) PROVE MirrorTold'
    BY <1>15, <1>k, <1>0 DEF SendNewFiles, disk, history, MirrorTold, Adding, Added, Has,
       InAction, WorkPlaced, TypeOK, PoolKnown, FlagsTrue
<1>16. ASSUME NEW t \in Target, Export(t) PROVE MirrorTold'
    BY <1>16 DEF Export, MirrorTold, Adding, Added, Has, InAction, history
<1>17. ASSUME EndExport PROVE MirrorTold'
    BY <1>17 DEF EndExport, disk, history, MirrorTold, Adding, Added, Has, InAction
<1>18. ASSUME EndRun PROVE MirrorTold'
    BY <1>18 DEF EndRun, NoFlags, NoHook, MirrorTold, Adding, Added, Has, InAction, history
<1>19. ASSUME Interrupt PROVE MirrorTold'
    BY <1>19 DEF Interrupt, disk, MirrorTold, Adding, Added, Has, InAction, history
<1>20. ASSUME Crash PROVE MirrorTold'
    BY <1>20 DEF Crash, NoFlags, NoHook, MirrorTold, Adding, Added, Has, InAction, history
<1>21. QED
    BY <1>1, <1>2, <1>3, <1>4, <1>5, <1>6, <1>7, <1>8, <1>9, <1>10, <1>11, <1>12, <1>13,
       <1>14, <1>15, <1>16, <1>17, <1>18, <1>19, <1>20 DEF Next, Records

-----------------------------------------------------------------------------
(* The invariant                                                           *)

LEMMA InitIInv == Init => IInv
<1> SUFFICES ASSUME Init PROVE IInv
    OBVIOUS
<1>1. TypeOK
    <2>1. /\ packages \in [Target -> SUBSET Package] /\ refs \in [Target -> [FileKey -> Nat]]
          /\ published \in [Target -> SUBSET Package]
          /\ snapshot \in [files : SUBSET FileKey, references : SUBSET FileKey]
          /\ flags \in [FileKey -> SUBSET Flag]
          /\ hook \in [new : SUBSET FileKey, del : SUBSET FileKey]
        BY DEF Init, NoFlags, NoHook, NoSnapshot
    <2>2. faults \in 0..MaxFaults
        BY DEF Init
    <2>3. /\ checksums \subseteq FileKey /\ pool \subseteq FileKey /\ mirror \subseteq FileKey
          /\ modified \subseteq Target /\ dirty \subseteq Target /\ unexported \subseteq Target
          /\ damaged \subseteq Target
          /\ todo \subseteq FileKey /\ halfdeleted \subseteq FileKey /\ garbage \subseteq FileKey
          /\ busy \in FileKey \cup {NoFile}
        BY DEF Init
    <2>4. /\ phase \in Phase /\ command \in Command \cup {"reference"}
          /\ error \in BOOLEAN /\ interrupted \in BOOLEAN /\ bare \in BOOLEAN /\ lossy \in BOOLEAN
        BY DEF Init, Phase, Command
    <2>5. QED
        BY <2>1, <2>2, <2>3, <2>4 DEF TypeOK
<1>2. \A f \in FileKey : ~Used(f)
    BY DEF Init, Used, NoSnapshot
<1>3. WorkPlaced /\ FlagsTrue /\ DoomedUnused /\ AddedUnregistered
    BY DEF Init, WorkPlaced, FlagsTrue, DoomedUnused, AddedUnregistered, Deleting, Adding,
           Has, NoFlags, NoHook
<1>4. RegisteredThere /\ Covered /\ UsedRegistered
    <2>1. RegisteredThere /\ UsedRegistered
        BY DEF Init, RegisteredThere, UsedRegistered, NoSnapshot
    <2>2. ASSUME NEW t \in Target, NEW f \in FileKey
          PROVE  Owners(packages[t], f) = 0 /\ refs[t][f] = 0
        <3>1. {q \in packages[t] : f \in Files[q]} = {}
            BY DEF Init
        <3>2. QED
            BY <3>1, FS_EmptySet DEF Init, Owners
    <2>3. QED
        BY <2>1, <2>2 DEF Covered
<1>5. PublishedKnown /\ ChangesExported /\ SnapshotReferenced
    <2>1. \A t \in Target : FilesIn(published[t]) = {}
        BY InFiles DEF Init
    <2>2. QED
        BY <2>1 DEF Init, PublishedKnown, ChangesExported, SnapshotReferenced, NoSnapshot
<1>6. GarbageMarked /\ PoolKnown /\ AddedInTime
    BY DEF Init, GarbageMarked, PoolKnown, AddedInTime, Has, NoFlags, Adding, Deleting
<1>7. MirrorTold
    BY DEF Init, MirrorTold, Adding, NoHook
<1>8. QED
    BY <1>1, <1>3, <1>4, <1>5, <1>6, <1>7 DEF IInv, Kept, ExportInv

LEMMA StutterIInv == IInv /\ UNCHANGED vars => IInv'
<1> SUFFICES ASSUME IInv, UNCHANGED vars PROVE IInv'
    OBVIOUS
<1> USE DEF vars, disk, process, history
<1>1. \A f : Used(f)' <=> Used(f)
    BY UsedSame
<1>2. TypeOK'
    BY DEF IInv, TypeOK
<1>3. WorkPlaced' /\ FlagsTrue' /\ AddedUnregistered' /\ RegisteredThere'
    <2>1. WorkPlaced'
        BY DEF IInv, Kept, WorkPlaced
    <2>2. FlagsTrue'
        BY DEF IInv, Kept, FlagsTrue, Has
    <2>3. AddedUnregistered' /\ RegisteredThere'
        BY DEF IInv, Kept, AddedUnregistered, Adding, RegisteredThere
    <2>4. QED
        BY <2>1, <2>2, <2>3
<1>4. DoomedUnused' /\ Covered' /\ UsedRegistered'
    <2>1. DoomedUnused'
        BY <1>1 DEF IInv, Kept, DoomedUnused, Deleting, Walked, Has
    <2>2. Covered' /\ UsedRegistered'
        BY DEF IInv, Kept, Covered, Owners, UsedRegistered
    <2>3. QED
        BY <2>1, <2>2
<1>5. ExportInv'
    BY DEF IInv, ExportInv, PublishedKnown, ChangesExported, SnapshotReferenced, Has
<1>6. GarbageMarked' /\ AddedInTime'
    BY <1>1 DEF IInv, GarbageMarked, OnTheWayOut, AddedInTime, Has, Walked
<1>7. PoolKnown'
    BY DEF IInv, PoolKnown, Adding, Deleting
<1>8. MirrorTold'
    BY DEF IInv, MirrorTold, Added, Adding, Has
<1>9. QED
    BY <1>2, <1>3, <1>4, <1>5, <1>6, <1>7, <1>8 DEF IInv, Kept

LEMMA NextIInv == IInv /\ [Next]_vars => IInv'
BY StepType, KeptStep, ExportStep, GarbageStep, PoolStep, AddedStep, MirrorStep, StutterIInv
   DEF IInv

LEMMA Invariance == Spec => []IInv
BY InitIInv, NextIInv, PTL DEF Spec

-----------------------------------------------------------------------------

(* Every variable keeps its type, whatever runs, fails or is killed.       *)
THEOREM TypeCorrect == Spec => []TypeOK
<1>1. IInv => TypeOK
    BY DEF IInv
<1>2. QED
    BY <1>1, Invariance, PTL

(* Between two writes, too, no file that a distribution or a snapshot      *)
(* references is missing from the checksums database or from the pool,     *)
(* except for distributions with a version whose archiving failed: a walk  *)
(* deletes only what has no reference, and from no point of the code a     *)
(* reference can come back to it.                                          *)
THEOREM UsedFilesStay == Spec => []UsedFilesKept
<1>1. IInv => UsedFilesKept
    <2> SUFFICES ASSUME IInv, NEW f \in FileKey,
                        \/ \E t \in Target \ damaged : refs[t][f] > 0
                        \/ f \in snapshot.references /\ (bare => damaged = {})
                 PROVE  f \in checksums /\ f \in pool \cup halfdeleted
        BY DEF UsedFilesKept
    <2>1. TypeOK /\ WorkPlaced /\ DoomedUnused /\ AddedUnregistered /\ RegisteredThere
        BY DEF IInv, Kept
    <2>2. f \in checksums /\ Used(f)
        BY DEF IInv, Kept, UsedRegistered, Used
    <2>3. f # busy
        <3>1. Deleting => f # busy
            BY <2>1, <2>2 DEF DoomedUnused, Walked, TypeOK
        <3>2. Adding => f # busy
            BY <2>1, <2>2 DEF AddedUnregistered
        <3>3. busy # NoFile => Adding \/ Deleting
            BY <2>1 DEF WorkPlaced, Adding, Deleting, TypeOK, Phase
        <3>4. QED
            BY <3>1, <3>2, <3>3
    <2>4. QED
        BY <2>1, <2>2, <2>3 DEF RegisteredThere
<1>2. QED
    BY <1>1, Invariance, PTL

(* A client that reads an index of a distribution whose last change was    *)
(* exported, or a finished snapshot, finds every file it names.  Left out  *)
(* are distributions changed by a run that did not export them - after an  *)
(* error, a signal or a death, or as --export=never asks for - and those   *)
(* that list a version without its references, as its archiving failed.    *)
THEOREM ClientsFindFiles == Spec => []PublishedFilesExist
<1>1. IInv => PublishedFilesExist
    <2> SUFFICES ASSUME IInv PROVE PublishedFilesExist
        OBVIOUS
    <2>1. TypeOK /\ Kept /\ ExportInv /\ WorkPlaced /\ AddedUnregistered /\ RegisteredThere
        BY DEF IInv, Kept
    <2>2. ASSUME NEW t \in Target \ (unexported \cup damaged), NEW f \in FilesIn(published[t])
          PROVE  f \in pool \cup halfdeleted
        <3>1. f \in checksums
            BY <2>1 DEF ExportInv, PublishedKnown
        <3>2. Deleting /\ busy # NoFile => f # busy
            BY <2>1, DoomedUnpublished
        <3>3. Adding => f # busy
            BY <2>1, <3>1 DEF AddedUnregistered
        <3>4. busy # NoFile => Adding \/ Deleting
            BY <2>1 DEF WorkPlaced, Adding, Deleting, TypeOK, Phase
        <3>5. f # NoFile
            BY <2>1, <3>1 DEF TypeOK
        <3>6. QED
            BY <2>1, <3>1, <3>2, <3>3, <3>4, <3>5 DEF RegisteredThere
    <2>3. ASSUME ~bare, NEW f \in snapshot.files
          PROVE  f \in pool \cup halfdeleted
        <3>1. f \in snapshot.references /\ f \in FileKey
            BY <2>1, <2>3 DEF ExportInv, SnapshotReferenced, TypeOK
        <3>2. Used(f)
            BY <3>1 DEF Used
        <3>3. f \in checksums
            BY <2>3, <3>1 DEF IInv, Kept, UsedRegistered
        <3>4. Deleting => f # busy
            BY <3>1, <3>2 DEF IInv, Kept, DoomedUnused, Walked, TypeOK
        <3>5. Adding => f # busy
            BY <2>1, <3>3 DEF AddedUnregistered
        <3>6. busy # NoFile => Adding \/ Deleting
            BY <2>1 DEF WorkPlaced, Adding, Deleting, TypeOK, Phase
        <3>7. QED
            BY <2>1, <3>1, <3>3, <3>4, <3>5, <3>6 DEF RegisteredThere
    <2>4. QED
        BY <2>2, <2>3 DEF PublishedFilesExist
<1>2. QED
    BY <1>1, Invariance, PTL

(* A run without error leaves no file without reference that was not       *)
(* without one before, whatever it added and replaced on the way.          *)
THEOREM RunsLeaveNoGarbage == Spec => []NoNewGarbage
<1>1. IInv => NoNewGarbage
    BY DEF IInv, GarbageMarked, OnTheWayOut, Walked, NoNewGarbage, Unused
<1>2. QED
    BY <1>1, Invariance, PTL

(* What was reported as new and as deleted, in the order of the reports,   *)
(* is all that happened to the pool.                                       *)
THEOREM MirrorIsTold == Spec => []MirrorMatchesPool
<1>1. IInv => MirrorMatchesPool
    <2> SUFFICES ASSUME IInv, phase = "off", ~lossy, ~KeepUnusedNew PROVE mirror = pool
        BY DEF MirrorMatchesPool
    <2>1. hook = NoHook /\ flags = NoFlags /\ ~interrupted /\ ~Adding
        BY DEF IInv, Kept, WorkPlaced, Adding
    <2>2. Added = {}
        BY <2>1 DEF Added, Has, NoFlags
    <2>3. QED
        BY <2>1, <2>2 DEF IInv, MirrorTold, NoHook
<1>2. QED
    BY <1>1, Invariance, PTL
=============================================================================
